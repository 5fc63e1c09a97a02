----------------------------- MODULE BookProofs -----------------------------
(***************************************************************************)
(* What holds of one book for every value of the constants: its page lists *)
(* (SourcePages), whether it is in view (Visibility), its sources, imports *)
(* and covers (BookSources), the fingerprints of its texts (Fingerprints), *)
(* the listings of the directories around it (ScanCache), and its metadata *)
(* and character counts (BookMeta).                                        *)
(***************************************************************************)
EXTENDS MCBook, FiniteSetTheorems, SequenceTheorems, WellFoundedInduction, TLAPS

bookvars == <<part, vars, now, sourcevars, pagevars, printvars, walkvars, viewvars>>

-----------------------------------------------------------------------------
(* SourcePages.                                                            *)

PageSteps == {"idle", "lock", "asset", "write", "meta", "cleanup", "erase", "remove"}
PageLists == Seq(Left)
ListMeta == [hash : PageLists, dir : {"ltr", "rtl"}]
PageRequest == [kind : Pages!PageEdits \cup {"none"}, base : PageLists, names : PageLists,
                page : Left \cup {None}, meta : ListMeta]

PageTypes ==
    /\ list \in PageLists /\ meta \in ListMeta
    /\ epc \in [Right -> PageSteps] /\ ed \in [Right -> PageRequest]

\* The requests that name the list they were made on.
OnAList == {"replace", "insert", "delete"}

\* Which requests are at which step, and who has the mutex there.
PageMutex ==
    \A e \in Right :
        /\ ed[e].kind = "insert" => ed[e].page # None
        /\ epc[e] \in {"asset", "cleanup", "erase"} => ed[e].kind = "insert"
        /\ epc[e] = "remove" => ed[e].kind = "delete"
        /\ epc[e] = "lock" => ed[e].kind \in OnAList
        /\ epc[e] = "write" => ed[e].kind \in OnAList \cup {"put"}
        /\ epc[e] \in {"asset", "write", "meta", "cleanup", "erase", "remove"}
              /\ ed[e].kind \in OnAList
              => pageEdits = e

\* Until an edit writes, the list is the one it checked.
PageBase ==
    \A e \in Right \ overtaken :
        epc[e] \in {"asset", "write"} /\ ed[e].kind \in OnAList => list = ed[e].base

\* A page is out of the list before its image goes.
PageErased ==
    \A e \in Right \ overtaken : epc[e] = "erase" => ed[e].page \notin Pages!ToSet(list)

PageGone ==
    \A e \in Right : ed[e].kind = "delete" =>
        /\ epc[e] = "write" => ed[e].page \notin Pages!ToSet(ed[e].names)
        /\ epc[e] \in {"meta", "remove"} /\ e \notin overtaken => ed[e].page \notin Pages!ToSet(list)

PageInv == PageTypes /\ PageMutex /\ PageBase /\ PageErased /\ PageGone

LEMMA ListsAreSequences == Pages!Lists \subseteq PageLists
BY DEF Pages!Lists, Pages!BoundedSeq, Pages!SeqOf, PageLists

LEMMA InsertedIsSequence ==
    ASSUME NEW s \in PageLists, NEW i \in 1 .. Len(s) + 1, NEW n \in Left
    PROVE  Pages!InsertAt(s, i, n) \in PageLists
BY DEF Pages!InsertAt, PageLists

LEMMA DeletedIsSequence ==
    ASSUME PageTypes, NEW r \in PageRequest, r.kind = "delete", NEW l \in Pages!EditedLists(r)
    PROVE  l \in PageLists /\ r.page \notin Pages!ToSet(l)
<1>1. PICK f \in Pages!InOrder(Pages!Kept(r.page)) : l = [k \in DOMAIN f |-> list[f[k]]]
  BY DEF Pages!EditedLists
<1>2. PICK m \in Nat : f \in [1 .. m -> Pages!Kept(r.page)]
  BY <1>1 DEF Pages!InOrder, Pages!BoundedSeq, Pages!SeqOf, PageTypes, PageLists
<1>3. Pages!Kept(r.page) \subseteq 1 .. Len(list)
  BY DEF PageTypes, PageLists, Pages!Kept
<1>5. \A k \in DOMAIN f : f[k] \in 1 .. Len(list) /\ list[f[k]] # r.page
  BY <1>1, <1>2, <1>3 DEF Pages!Kept
<1>6. l \in [1 .. m -> Left]
  BY <1>1, <1>2, <1>5 DEF PageTypes, PageLists
<1> QED
  BY <1>1, <1>2, <1>5, <1>6 DEF Pages!ToSet, PageLists

LEMMA PagesInit == Pages!Init => PageInv
<1> SUFFICES ASSUME Pages!Init PROVE PageInv
  OBVIOUS
<1>1. PICK l \in Pages!Lists : list = l /\ meta = [hash |-> l, dir |-> "ltr"]
  BY DEF Pages!Init
<1>2. l \in PageLists /\ <<>> \in PageLists
  BY <1>1, ListsAreSequences DEF PageLists
<1>3. /\ epc = [e \in Right |-> "idle"] /\ ed = [e \in Right |-> Pages!NoRequest]
  BY DEF Pages!Init
<1>4. Pages!NoRequest \in PageRequest /\ Pages!NoRequest.kind = "none"
  BY <1>2 DEF Pages!NoRequest, PageRequest, ListMeta
<1>5. PageTypes
  BY <1>1, <1>2, <1>3, <1>4 DEF PageTypes, PageSteps, ListMeta
<1> QED
  BY <1>3, <1>4, <1>5 DEF PageInv, PageMutex, PageBase, PageErased, PageGone, OnAList

\* The handler's end gives back what the request had.
LEMMA PageFinish ==
    ASSUME PageInv, NEW e \in Right, Pages!Finish(e), UNCHANGED list, meta' \in ListMeta
    PROVE  PageInv'
<1> DEFINE no == Pages!NoRequest
<1>1. no \in PageRequest /\ no.kind = "none"
  BY DEF Pages!NoRequest, PageRequest, ListMeta, PageLists
<1> HIDE DEF no
<1>2. /\ epc' = [epc EXCEPT ![e] = "idle"] /\ ed' = [ed EXCEPT ![e] = no]
      /\ pageEdits' = IF pageEdits = e THEN None ELSE pageEdits
      /\ overtaken' = overtaken \ {e}
  BY DEF Pages!Finish, no
<1>3. PageTypes'
  BY <1>1, <1>2 DEF PageInv, PageTypes, PageSteps
<1>4. PageMutex'
  BY <1>1, <1>2, <1>3 DEF PageInv, PageMutex, PageTypes
<1>5. PageBase' /\ PageErased' /\ PageGone'
  BY <1>1, <1>2, <1>3 DEF PageInv, PageBase, PageErased, PageGone, PageTypes
<1> QED
  BY <1>3, <1>4, <1>5 DEF PageInv

\* What a request asks for, and where it then is.
LEMMA PagesBegin == ASSUME PageInv, NEW e \in Right, Pages!Begin(e) PROVE PageInv'
<1>1. PICK k \in Pages!PageEdits, base \in Pages!Lists, names \in Pages!Lists,
           page \in Left \cup {None} :
         /\ (k \in {"insert", "delete"}) = (page # None)
         /\ ed' = [ed EXCEPT ![e] = [kind |-> k, base |-> base, names |-> names,
                                    page |-> page, meta |-> meta]]
         /\ Pages!Goto(e, Pages!EntryStep(k))
  BY DEF Pages!Begin
<1> DEFINE q == [kind |-> k, base |-> base, names |-> names, page |-> page, meta |-> meta]
           step == Pages!EntryStep(k)
<1>2. q \in PageRequest /\ q.kind = k /\ q.page = page /\ (k = "insert" => page # None)
  BY <1>1, ListsAreSequences DEF PageRequest, PageInv, PageTypes
<1>3. /\ step \in PageSteps /\ step \notin {"idle", "asset", "cleanup", "erase", "remove"}
      /\ step = "write" <=> k = "put"
      /\ step = "lock" <=> k \in OnAList
      /\ k \in OnAList => step = "lock"
  BY DEF PageSteps, OnAList, Pages!PageEdits, Pages!EntryStep
<1>4. ed' = [ed EXCEPT ![e] = q] /\ epc' = [epc EXCEPT ![e] = step]
  BY <1>1 DEF Pages!Goto
<1> HIDE DEF q, step
<1>5. UNCHANGED <<list, assets, meta, pageEdits, overtaken>>
  BY DEF Pages!Begin
<1>6. PageTypes'
  BY <1>2, <1>3, <1>4, <1>5 DEF PageInv, PageTypes
<1>7. PageMutex'
  BY <1>1, <1>2, <1>3, <1>4, <1>5 DEF PageInv, PageMutex, PageTypes
<1>8. PageBase' /\ PageErased' /\ PageGone'
  BY <1>2, <1>3, <1>4, <1>5 DEF PageInv, PageBase, PageErased, PageGone, PageTypes, OnAList
<1> QED
  BY <1>6, <1>7, <1>8 DEF PageInv

LEMMA PagesCheckList == ASSUME PageInv, NEW e \in Right, Pages!CheckList(e) PROVE PageInv'
<1> USE PagesAssumption
<1>1. epc[e] = "lock" /\ pageEdits = None /\ ed[e].base = list /\ pageEdits' = e
  BY DEF Pages!CheckList, Pages!Lock
<1>2. ed[e] \in PageRequest /\ ed[e].kind \in OnAList
  BY <1>1 DEF PageInv, PageTypes, PageMutex
<1>3. PICK l \in Pages!EditedLists(ed[e]) : ed' = [ed EXCEPT ![e].names = l]
  BY DEF Pages!CheckList
<1>4. UNCHANGED <<list, assets, meta, overtaken>>
  BY DEF Pages!CheckList
<1>5. l \in PageLists /\ (ed[e].kind = "delete" => ed[e].page \notin Pages!ToSet(l))
  <2>1. CASE ed[e].kind = "replace"
    BY <2>1, <1>2, <1>3 DEF Pages!EditedLists, PageRequest
  <2>2. CASE ed[e].kind = "insert"
    <3>1. PICK i \in 1 .. Len(list) + 1 : l = Pages!InsertAt(list, i, ed[e].page)
      BY <2>2, <1>3 DEF Pages!EditedLists
    <3>2. CASE ed[e].page \in Left
      BY <3>1, <3>2, <2>2, InsertedIsSequence DEF PageInv, PageTypes
    <3> QED
      BY <3>2, <1>1, <1>2, <2>2 DEF PageInv, PageRequest, PageMutex
  <2>3. CASE ed[e].kind = "delete"
    BY <2>3, <1>2, <1>3, DeletedIsSequence DEF PageInv
  <2> QED
    BY <1>2, <2>1, <2>2, <2>3 DEF OnAList
<1> DEFINE q == [ed[e] EXCEPT !.names = l]
<1>6. /\ q \in PageRequest /\ q.kind = ed[e].kind /\ q.base = ed[e].base
      /\ q.page = ed[e].page /\ q.names = l /\ ed' = [ed EXCEPT ![e] = q]
  BY <1>2, <1>3, <1>5 DEF PageRequest, PageInv, PageTypes
<1> HIDE DEF q
<1> DEFINE step == Pages!FirstStep(ed[e])
<1>7. /\ epc' = [epc EXCEPT ![e] = step]
      /\ step \in {"write", "asset", "remove"}
      /\ step = "asset" => ed[e].kind = "insert"
      /\ step = "remove" => ed[e].kind = "delete" /\ ed[e].page \notin Pages!ToSet(list)
  BY <1>2 DEF Pages!CheckList, Pages!Goto, Pages!FirstStep, OnAList
<1> HIDE DEF step
<1>8. PageTypes'
  BY <1>4, <1>6, <1>7 DEF PageInv, PageTypes, PageSteps
<1>9. PageMutex'
  BY <1>1, <1>2, <1>4, <1>6, <1>7 DEF PageInv, PageMutex, PageTypes, OnAList
<1>10. PageBase' /\ PageErased' /\ PageGone'
  BY <1>1, <1>2, <1>4, <1>5, <1>6, <1>7 DEF PageInv, PageBase, PageErased, PageGone, PageTypes, OnAList
<1> QED
  BY <1>8, <1>9, <1>10 DEF PageInv

\* An image is written, or the list is left as it was.
LEMMA PagesMove ==
    ASSUME PageInv, NEW e \in Right, NEW step \in PageSteps,
           epc' = [epc EXCEPT ![e] = step], UNCHANGED <<ed, pageEdits, overtaken, list>>,
           meta' \in ListMeta,
           \/ epc[e] = "asset" /\ step = "write"
           \/ epc[e] \in {"write", "meta"} /\ ed[e].kind = "insert" /\ step = "cleanup"
           \/ epc[e] = "meta" /\ ed[e].kind = "delete" /\ step = "remove"
    PROVE  PageInv'
<1>1. PageTypes'
  BY DEF PageInv, PageTypes
<1>2. PageMutex'
  BY DEF PageInv, PageMutex, PageTypes, OnAList
<1>3. PageBase' /\ PageErased' /\ PageGone'
  BY DEF PageInv, PageMutex, PageBase, PageErased, PageGone, PageTypes, OnAList
<1> QED
  BY <1>1, <1>2, <1>3 DEF PageInv

LEMMA PagesUpdateContent ==
    ASSUME PageInv, NEW e \in Right, Pages!UpdateContent(e)
    PROVE  PageInv' /\ (epc'[e] = "meta" /\ ed[e].kind # "put" => list = ed[e].base \/ e \in overtaken)
<1> USE PagesAssumption
<1>1. epc[e] = "write" /\ UNCHANGED <<assets, meta>> /\ meta \in ListMeta
  BY DEF Pages!UpdateContent, PageInv, PageTypes
<1>2. CASE UNCHANGED list /\ Pages!Failed(e)
  <2>1. epc'[e] # "meta"
    BY <1>2 DEF Pages!Failed, Pages!Finish, Pages!Goto, PageInv, PageTypes
  <2>2. CASE ed[e].kind = "insert"
    BY <1>1, <1>2, <2>1, <2>2, PagesMove DEF Pages!Failed, Pages!Goto, PageSteps
  <2>3. CASE ed[e].kind # "insert"
    BY <1>1, <1>2, <2>1, <2>3, PageFinish DEF Pages!Failed
  <2> QED
    BY <2>2, <2>3
<1>3. CASE ~(UNCHANGED list /\ Pages!Failed(e))
  <2>1. /\ list' = ed[e].names /\ epc' = [epc EXCEPT ![e] = "meta"]
        /\ overtaken' = IF ed[e].kind = "put" /\ pageEdits # None
                        THEN overtaken \union {pageEdits} ELSE overtaken
        /\ UNCHANGED <<ed, pageEdits>>
    BY <1>3 DEF Pages!UpdateContent, Pages!Goto
  <2>2. ed[e] \in PageRequest
    BY DEF PageInv, PageTypes
  <2>3. PageTypes'
    BY <1>1, <2>1, <2>2 DEF PageInv, PageTypes, PageSteps, PageRequest
  <2>4. PageMutex'
    BY <1>1, <2>1 DEF PageInv, PageMutex, PageTypes, OnAList
  <2>5. \A x \in Right \ {e} : epc[x] \in {"asset", "write", "meta", "erase", "remove"} /\ ed[x].kind \in OnAList
                               => ed[e].kind = "put" /\ x \in overtaken'
    BY <1>1, <2>1 DEF PageInv, PageMutex, OnAList
  <2>8. PageErased'
    BY <1>1, <2>1, <2>5 DEF PageInv, PageMutex, PageErased, PageTypes, OnAList
  <2>6. PageBase' /\ PageGone'
    BY <1>1, <2>1, <2>5 DEF PageInv, PageBase, PageGone, PageTypes, OnAList
  <2>7. ed[e].kind # "put" => list = ed[e].base \/ e \in overtaken
    BY <1>1 DEF PageInv, PageMutex, PageBase
  <2> QED
    BY <2>3, <2>4, <2>6, <2>7, <2>8 DEF PageInv
<1> QED
  BY <1>2, <1>3

LEMMA PagesWritebackMeta == ASSUME PageInv, NEW e \in Right, Pages!WritebackMeta(e) PROVE PageInv'
<1>1. epc[e] = "meta" /\ UNCHANGED list
  BY DEF Pages!WritebackMeta
<1>2. meta' \in ListMeta
  <2>1. meta \in ListMeta /\ ed[e].meta \in ListMeta /\ list \in PageLists
    BY DEF PageInv, PageTypes, PageRequest
  <2> QED
    BY <2>1 DEF Pages!WritebackMeta, ListMeta
<1>3. CASE Pages!Finish(e)
  BY <1>1, <1>2, <1>3, PageFinish
<1>4. CASE ~Pages!Finish(e)
  BY <1>1, <1>2, <1>4, PagesMove DEF Pages!WritebackMeta, Pages!Failed, Pages!Goto, PageSteps
<1> QED
  BY <1>3, <1>4

\* The list is read again, and the image is left or erased in the next step.
LEMMA PagesCleanup == ASSUME PageInv, NEW e \in Right, Pages!RemoveUnlistedAsset(e) PROVE PageInv'
<1>1. epc[e] = "cleanup" /\ UNCHANGED <<list, meta, assets>> /\ meta \in ListMeta
  BY DEF Pages!RemoveUnlistedAsset, PageInv, PageTypes
<1>2. CASE Pages!Finish(e)
  BY <1>1, <1>2, PageFinish
<1>3. CASE ed[e].page \notin Pages!ToSet(list) /\ Pages!EraseWritten(e)
  <2>1. /\ epc' = [epc EXCEPT ![e] = "erase"] /\ overtaken' = overtaken \ {e}
        /\ UNCHANGED <<ed, pageEdits>>
    BY <1>3 DEF Pages!EraseWritten, Pages!Goto
  <2>2. PageTypes' /\ PageMutex'
    BY <1>1, <2>1 DEF PageInv, PageTypes, PageSteps, PageMutex, OnAList
  <2>3. PageBase' /\ PageErased' /\ PageGone'
    BY <1>1, <1>3, <2>1 DEF PageInv, PageTypes, PageMutex, PageBase, PageErased, PageGone
  <2> QED
    BY <2>2, <2>3 DEF PageInv
<1> QED
  BY <1>2, <1>3 DEF Pages!RemoveUnlistedAsset

LEMMA PagesCrash == ASSUME PageInv, Pages!Crash PROVE PageInv'
<1> DEFINE no == Pages!NoRequest
<1>1. no \in PageRequest /\ no.kind = "none"
  BY DEF Pages!NoRequest, PageRequest, ListMeta, PageLists
<1> HIDE DEF no
<1>2. /\ epc' = [e \in Right |-> "idle"] /\ ed' = [e \in Right |-> no]
      /\ UNCHANGED <<list, meta>>
  BY DEF Pages!Crash, no
<1> QED
  BY <1>1, <1>2
  DEF PageInv, PageTypes, PageSteps, PageMutex, PageBase, PageErased, PageGone, OnAList

\* A step keeps the invariant, and takes no image of a page that stays listed.
LEMMA PagesNext ==
    ASSUME PageInv, Pages!Next
    PROVE  PageInv' /\ Pages!KeepsListedImages /\ Pages!BuildsOnItsList
<1>1. ASSUME NEW e \in Right, Pages!Begin(e) \/ Pages!CheckList(e) \/ Pages!Refuse(e)
      PROVE  PageInv' /\ UNCHANGED <<list, assets>> /\ (epc[e] = "write" => epc'[e] # "meta")
  BY <1>1, PagesBegin, PagesCheckList, PageFinish
  DEF Pages!Begin, Pages!CheckList, Pages!Refuse, Pages!Lock, PageInv, PageTypes
<1>2. ASSUME NEW e \in Right,
             Pages!WriteAsset(e) \/ Pages!WritebackMeta(e) \/ Pages!RemoveUnlistedAsset(e)
                \/ Pages!EraseUnlistedAsset(e) \/ Pages!DeletePage(e)
      PROVE  PageInv' /\ UNCHANGED list /\ epc[e] # "write"
  <2>1. PageInv
    OBVIOUS
  <2>2. meta \in ListMeta
    BY DEF PageInv, PageTypes
  <2>3. CASE Pages!WriteAsset(e)
    BY <2>1, <2>2, <2>3, PageFinish, PagesMove DEF Pages!WriteAsset, Pages!Goto, PageSteps
  <2>4. CASE Pages!WritebackMeta(e)
    BY <2>4, PagesWritebackMeta DEF Pages!WritebackMeta
  <2>5. CASE Pages!RemoveUnlistedAsset(e)
    BY <2>5, PagesCleanup DEF Pages!RemoveUnlistedAsset
  <2>6. CASE Pages!EraseUnlistedAsset(e) \/ Pages!DeletePage(e)
    BY <2>2, <2>6, PageFinish DEF Pages!EraseUnlistedAsset, Pages!DeletePage
  <2> QED
    BY <1>2, <2>3, <2>4, <2>5, <2>6
<1>3. ASSUME NEW e \in Right,
             Pages!WriteAsset(e) \/ Pages!WritebackMeta(e) \/ Pages!RemoveUnlistedAsset(e)
      PROVE  assets \subseteq assets'
  BY <1>3 DEF Pages!WriteAsset, Pages!WritebackMeta, Pages!RemoveUnlistedAsset
<1>4. ASSUME NEW e \in Right, Pages!EraseUnlistedAsset(e)
      PROVE  \/ \A n \in Pages!ToSet(list) : n \in assets => n \in assets'
             \/ e \in overtaken /\ epc[e] = "erase" /\ epc'[e] = "idle"
  <2>1. epc[e] = "erase" /\ epc'[e] = "idle" /\ assets' \in {assets, assets \ {ed[e].page}}
    BY <1>4 DEF Pages!EraseUnlistedAsset, Pages!Finish, PageInv, PageTypes
  <2>2. e \notin overtaken => ed[e].page \notin Pages!ToSet(list)
    BY <2>1 DEF PageInv, PageErased
  <2> QED
    BY <2>1, <2>2
<1>5. ASSUME NEW e \in Right, Pages!DeletePage(e)
      PROVE  \/ \A n \in Pages!ToSet(list) : n \in assets => n \in assets'
             \/ e \in overtaken /\ epc[e] = "remove" /\ epc'[e] = "idle"
  <2>1. epc[e] = "remove" /\ epc'[e] = "idle" /\ assets' \in {assets, assets \ {ed[e].page}}
    BY <1>5 DEF Pages!DeletePage, Pages!Finish, PageInv, PageTypes
  <2>2. e \notin overtaken => ed[e].page \notin Pages!ToSet(list)
    BY <2>1 DEF PageInv, PageMutex, PageGone
  <2> QED
    BY <2>1, <2>2
<1>6. ASSUME NEW e \in Right, Pages!Edit(e)
      PROVE  PageInv' /\ Pages!KeepsListedImages
  <2>1. CASE Pages!Begin(e) \/ Pages!CheckList(e) \/ Pages!Refuse(e)
    BY <1>1, <2>1 DEF Pages!KeepsListedImages
  <2>2. CASE Pages!WriteAsset(e) \/ Pages!WritebackMeta(e) \/ Pages!RemoveUnlistedAsset(e)
    BY <1>2, <1>3, <2>2 DEF Pages!KeepsListedImages
  <2>3. CASE Pages!EraseUnlistedAsset(e) \/ Pages!DeletePage(e)
    BY <1>2, <1>4, <1>5, <2>3 DEF Pages!KeepsListedImages
  <2>4. CASE Pages!UpdateContent(e)
    BY <2>4, PagesUpdateContent DEF Pages!UpdateContent, Pages!KeepsListedImages
  <2> QED
    BY <1>6, <2>1, <2>2, <2>3, <2>4 DEF Pages!Edit
<1>7. ASSUME NEW e \in Right, Pages!Edit(e)
      PROVE  Pages!BuildsOnItsList
  <2>1. \A x \in Right \ {e} : epc'[x] = epc[x]
    BY <1>7
    DEF Pages!Edit, Pages!Begin, Pages!CheckList, Pages!Refuse, Pages!WriteAsset, Pages!UpdateContent,
        Pages!WritebackMeta, Pages!RemoveUnlistedAsset, Pages!EraseWritten, Pages!EraseUnlistedAsset,
        Pages!DeletePage, Pages!Failed, Pages!Finish, Pages!Goto, PageInv, PageTypes
  <2>2. epc[e] = "write" /\ epc'[e] = "meta" /\ ed[e].kind # "put"
          => list = ed[e].base \/ e \in overtaken
    BY <1>1, <1>2, <1>7, PagesUpdateContent DEF Pages!Edit
  <2> QED
    BY <2>1, <2>2 DEF Pages!BuildsOnItsList
<1>8. ASSUME NEW n \in Left, Pages!UpdateAsset(n) \/ Pages!DeleteAsset(n)
      PROVE  PageInv' /\ Pages!KeepsListedImages /\ Pages!BuildsOnItsList
  <2>1. UNCHANGED <<list, meta, pageEdits, epc, ed, overtaken>>
    BY <1>8 DEF Pages!UpdateAsset, Pages!DeleteAsset
  <2>2. PageInv'
    BY <2>1 DEF PageInv, PageTypes, PageMutex, PageBase, PageErased, PageGone
  <2>3. Pages!KeepsListedImages
    BY <1>8 DEF Pages!KeepsListedImages, Pages!UpdateAsset
  <2> QED
    BY <2>1, <2>2, <2>3 DEF Pages!BuildsOnItsList
<1>9. CASE Pages!Crash
  <2>1. UNCHANGED <<list, assets>> /\ \A e \in Right : epc'[e] = "idle"
    BY <1>9 DEF Pages!Crash
  <2> QED
    BY <1>9, <2>1, PagesCrash DEF Pages!KeepsListedImages, Pages!BuildsOnItsList
<1> QED
  BY <1>6, <1>7, <1>8, <1>9 DEF Pages!Next

\* For any number of pages, requests and clients at a time, no page edit takes away the image of
\* a page that stays listed, whatever fails or ends, and each replaces the list its client saw
\* (InsertPage, DeletePage, ReplacePages under pageEdits), unless a content request, which takes
\* no mutex, wrote the list after the edit last read it.
THEOREM PageEditsHold == MCSpec => PageEditsAreSafe
<1> DEFINE Inv == part = "pages" => PageInv
<1>1. MCInit => Inv
  BY PagesInit DEF MCInit
<1>2. ASSUME Inv, [MCNext]_bookvars
      PROVE  Inv' /\ [part = "pages" => Pages!KeepsListedImages /\ Pages!BuildsOnItsList]_pagevars
  <2>1. CASE part = "pages" /\ Pages!Next /\ UNCHANGED part
    BY <1>2, <2>1, PagesNext
  <2>2. CASE UNCHANGED <<part, pagevars>>
    BY <1>2, <2>2 DEF pagevars, PageInv, PageTypes, PageMutex, PageBase, PageErased, PageGone
  <2> QED
    BY <1>2, <2>1, <2>2 DEF MCNext, bookvars
<1> QED
  BY <1>1, <1>2, PTL DEF MCSpec, bookvars, PageEditsAreSafe

-----------------------------------------------------------------------------
(* Visibility.                                                             *)

PathSeqs == Seq(Segments)

\* A path is under another when it begins with its segments.
LEMMA PrefixBySegment ==
    ASSUME NEW p \in PathSeqs, NEW q \in PathSeqs
    PROVE  View!HasPrefix(p, q) <=> Len(q) <= Len(p) /\ \A i \in 1 .. Len(q) : p[i] = q[i]
<1>1. Len(q) <= Len(p) => /\ SubSeq(p, 1, Len(q)) \in PathSeqs
                          /\ Len(SubSeq(p, 1, Len(q))) = Len(q)
                          /\ \A i \in 1 .. Len(q) : SubSeq(p, 1, Len(q))[i] = p[i]
  BY DEF PathSeqs
<1>2. ASSUME Len(q) <= Len(p), \A i \in 1 .. Len(q) : p[i] = q[i]
      PROVE  SubSeq(p, 1, Len(q)) = q
  BY <1>1, <1>2, SeqEqual DEF PathSeqs
<1> QED
  BY <1>1, <1>2 DEF View!HasPrefix

LEMMA PrefixesByPrefix ==
    ASSUME NEW p \in PathSeqs, NEW q
    PROVE  q \in View!Prefixes(p) <=> q \in PathSeqs /\ View!HasPrefix(p, q)
<1>1. ASSUME NEW k \in 0 .. Len(p)
      PROVE  /\ SubSeq(p, 1, k) \in PathSeqs /\ Len(SubSeq(p, 1, k)) = k
             /\ View!HasPrefix(p, SubSeq(p, 1, k))
  BY DEF PathSeqs, View!HasPrefix
<1>2. ASSUME q \in PathSeqs, View!HasPrefix(p, q)
      PROVE  q \in View!Prefixes(p)
  <2>1. Len(q) \in 0 .. Len(p) /\ q = SubSeq(p, 1, Len(q))
    BY <1>2 DEF View!HasPrefix, PathSeqs
  <2> QED
    BY <2>1 DEF View!Prefixes
<1> QED
  BY <1>1, <1>2 DEF View!Prefixes

LEMMA PrefixTransitive ==
    ASSUME NEW p \in PathSeqs, NEW q \in PathSeqs, NEW r \in PathSeqs,
           View!HasPrefix(p, q), View!HasPrefix(q, r)
    PROVE  View!HasPrefix(p, r)
<1>1. Len(p) \in Nat /\ Len(q) \in Nat /\ Len(r) \in Nat
  BY DEF PathSeqs
<1> QED
  BY <1>1, PrefixBySegment

\* What a folder's path becomes when the folder above it moves.
LEMMA RebasedSegments ==
    ASSUME NEW p \in PathSeqs, NEW f \in PathSeqs, NEW t \in PathSeqs, View!HasPrefix(p, f)
    PROVE  LET r == View!Rebase(p, f, t) IN
           /\ r \in PathSeqs /\ Len(r) = Len(t) + Len(p) - Len(f)
           /\ \A i \in 1 .. Len(t) : r[i] = t[i]
           /\ \A i \in Len(f) + 1 .. Len(p) : r[i + Len(t) - Len(f)] = p[i]
<1> DEFINE s == SubSeq(p, Len(f) + 1, Len(p))
<1>1. Len(f) \in Nat /\ Len(p) \in Nat /\ Len(t) \in Nat /\ Len(f) <= Len(p)
  BY DEF View!HasPrefix, PathSeqs
<1>2. /\ s \in PathSeqs /\ Len(s) = Len(p) - Len(f)
      /\ \A i \in 1 .. Len(s) : s[i] = p[Len(f) + i]
  BY <1>1 DEF PathSeqs
<1> HIDE DEF s
<1>3. View!Rebase(p, f, t) = t \o s
  BY DEF View!Rebase, s
<1>4. /\ t \o s \in PathSeqs /\ Len(t \o s) = Len(t) + Len(s)
      /\ \A i \in 1 .. Len(t) : (t \o s)[i] = t[i]
      /\ \A i \in 1 .. Len(s) : (t \o s)[Len(t) + i] = s[i]
  <2>1. t \in Seq(Segments) /\ s \in Seq(Segments)
    BY <1>2 DEF PathSeqs
  <2> QED
    BY <2>1, <1>1, ConcatProperties DEF PathSeqs
<1>5. ASSUME NEW i \in Len(f) + 1 .. Len(p)
      PROVE  (t \o s)[i + Len(t) - Len(f)] = p[i]
  <2>1. i - Len(f) \in 1 .. Len(s) /\ Len(t) + (i - Len(f)) = i + Len(t) - Len(f)
        /\ Len(f) + (i - Len(f)) = i
    BY <1>1, <1>2
  <2> QED
    BY <1>2, <1>4, <2>1
<1> QED
  BY <1>2, <1>3, <1>4, <1>5

LEMMA RebasedUnder ==
    ASSUME NEW p \in PathSeqs, NEW f \in PathSeqs, NEW t \in PathSeqs, View!HasPrefix(p, f)
    PROVE  View!HasPrefix(View!Rebase(p, f, t), t)
<1> DEFINE r == View!Rebase(p, f, t)
<1>1. /\ r \in PathSeqs /\ Len(r) = Len(t) + Len(p) - Len(f)
      /\ \A i \in 1 .. Len(t) : r[i] = t[i]
  BY RebasedSegments
<1>2. Len(t) \in Nat /\ Len(p) \in Nat /\ Len(f) \in Nat /\ Len(f) <= Len(p)
  BY DEF PathSeqs, View!HasPrefix
<1> HIDE DEF r
<1> QED
  BY <1>1, <1>2, PrefixBySegment DEF r

LEMMA RebasedOrder ==
    ASSUME NEW p \in PathSeqs, NEW h \in PathSeqs, NEW f \in PathSeqs, NEW t \in PathSeqs,
           View!HasPrefix(p, f), View!HasPrefix(h, f)
    PROVE  View!HasPrefix(View!Rebase(h, f, t), View!Rebase(p, f, t)) <=> View!HasPrefix(h, p)
<1> DEFINE r == View!Rebase(p, f, t)
           g == View!Rebase(h, f, t)
<1>1. /\ r \in PathSeqs /\ Len(r) = Len(t) + Len(p) - Len(f)
      /\ \A i \in 1 .. Len(t) : r[i] = t[i]
      /\ \A i \in Len(f) + 1 .. Len(p) : r[i + Len(t) - Len(f)] = p[i]
  BY RebasedSegments
<1>2. /\ g \in PathSeqs /\ Len(g) = Len(t) + Len(h) - Len(f)
      /\ \A i \in 1 .. Len(t) : g[i] = t[i]
      /\ \A i \in Len(f) + 1 .. Len(h) : g[i + Len(t) - Len(f)] = h[i]
  BY RebasedSegments
<1>3. /\ Len(t) \in Nat /\ Len(p) \in Nat /\ Len(h) \in Nat /\ Len(f) \in Nat
      /\ Len(f) <= Len(p) /\ Len(f) <= Len(h)
  BY DEF PathSeqs, View!HasPrefix
<1>4. \A i \in 1 .. Len(f) : p[i] = h[i]
  BY PrefixBySegment
<1> HIDE DEF r, g
<1>5. ASSUME View!HasPrefix(h, p)
      PROVE  View!HasPrefix(g, r)
  <2>1. Len(p) <= Len(h) /\ \A i \in 1 .. Len(p) : h[i] = p[i]
    BY <1>5, PrefixBySegment
  <2>2. ASSUME NEW j \in 1 .. Len(r)
        PROVE  g[j] = r[j]
    <3>1. CASE j <= Len(t)
      BY <1>1, <1>2, <1>3, <3>1
    <3>2. CASE j > Len(t)
      <4>1. PICK i \in Len(f) + 1 .. Len(p) : j = i + Len(t) - Len(f)
        <5>1. j - Len(t) + Len(f) \in Len(f) + 1 .. Len(p)
          BY <1>1, <1>3, <3>2
        <5>2. j = (j - Len(t) + Len(f)) + Len(t) - Len(f)
          BY <1>1, <1>3
        <5> QED
          BY <5>1, <5>2
      <4> QED
        BY <1>1, <1>2, <1>3, <2>1, <4>1
    <3> QED
      BY <1>1, <1>3, <3>1, <3>2
  <2> QED
    BY <1>1, <1>2, <1>3, <2>1, <2>2, PrefixBySegment
<1>6. ASSUME View!HasPrefix(g, r)
      PROVE  View!HasPrefix(h, p)
  <2>1. Len(r) <= Len(g) /\ \A i \in 1 .. Len(r) : g[i] = r[i]
    BY <1>1, <1>2, <1>6, PrefixBySegment
  <2>2. ASSUME NEW i \in 1 .. Len(p)
        PROVE  h[i] = p[i]
    <3>1. CASE i <= Len(f)
      BY <1>3, <1>4, <3>1
    <3>2. CASE i > Len(f)
      <4>1. /\ i + Len(t) - Len(f) \in 1 .. Len(r)
            /\ i \in Len(f) + 1 .. Len(p) /\ i \in Len(f) + 1 .. Len(h)
        BY <1>1, <1>2, <1>3, <2>1, <3>2
      <4>2. g[i + Len(t) - Len(f)] = r[i + Len(t) - Len(f)]
        BY <2>1, <4>1
      <4> QED
        BY <1>1, <1>2, <4>1, <4>2
    <3> QED
      BY <1>3, <3>1, <3>2
  <2> QED
    BY <1>1, <1>2, <1>3, <2>1, <2>2, PrefixBySegment
<1> QED
  BY <1>5, <1>6 DEF r, g

\* What is above a moved folder is above its new place, or has moved with it.
LEMMA RebasedAbove ==
    ASSUME NEW p \in PathSeqs, NEW f \in PathSeqs, NEW t \in PathSeqs, View!HasPrefix(p, f),
           NEW q \in PathSeqs, View!HasPrefix(View!Rebase(p, f, t), q), Len(q) >= Len(t)
    PROVE  \E x \in View!Prefixes(p) : View!HasPrefix(x, f) /\ q = View!Rebase(x, f, t)
<1> DEFINE r == View!Rebase(p, f, t)
           m == Len(q) - Len(t) + Len(f)
           x == SubSeq(p, 1, m)
<1>1. /\ r \in PathSeqs /\ Len(r) = Len(t) + Len(p) - Len(f)
      /\ \A i \in 1 .. Len(t) : r[i] = t[i]
      /\ \A i \in Len(f) + 1 .. Len(p) : r[i + Len(t) - Len(f)] = p[i]
  BY RebasedSegments
<1>2. /\ Len(t) \in Nat /\ Len(p) \in Nat /\ Len(q) \in Nat /\ Len(f) \in Nat
      /\ Len(f) <= Len(p)
  BY DEF PathSeqs, View!HasPrefix
<1>3. Len(q) <= Len(r) /\ \A i \in 1 .. Len(q) : r[i] = q[i]
  BY <1>1, PrefixBySegment
<1> HIDE DEF r
<1>4. m \in 0 .. Len(p) /\ m >= Len(f)
  BY <1>1, <1>2, <1>3
<1>5. x \in PathSeqs /\ Len(x) = m /\ \A i \in 1 .. m : x[i] = p[i]
  BY <1>4 DEF PathSeqs
<1>6. x \in View!Prefixes(p)
  BY <1>4 DEF View!Prefixes
<1> HIDE DEF x, m
<1>7. View!HasPrefix(x, f)
  <2>1. \A i \in 1 .. Len(f) : p[i] = f[i]
    BY PrefixBySegment
  <2> QED
    BY <1>2, <1>4, <1>5, <2>1, PrefixBySegment
<1> DEFINE y == View!Rebase(x, f, t)
<1>8. /\ y \in PathSeqs /\ Len(y) = Len(t) + Len(x) - Len(f)
      /\ \A i \in 1 .. Len(t) : y[i] = t[i]
      /\ \A i \in Len(f) + 1 .. Len(x) : y[i + Len(t) - Len(f)] = x[i]
  BY <1>5, <1>7, RebasedSegments
<1> HIDE DEF y
<1>9. Len(y) = Len(q)
  BY <1>2, <1>5, <1>8 DEF m
<1>10. ASSUME NEW j \in 1 .. Len(q)
       PROVE  y[j] = q[j]
  <2>1. CASE j <= Len(t)
    BY <1>1, <1>2, <1>3, <1>8, <2>1
  <2>2. CASE j > Len(t)
    <3>1. PICK i \in Len(f) + 1 .. m : j = i + Len(t) - Len(f)
      <4>1. j - Len(t) + Len(f) \in Len(f) + 1 .. m
        BY <1>2, <2>2 DEF m
      <4> QED
        BY <4>1, <1>2, <1>4
    <3>2. i \in 1 .. m /\ i \in Len(f) + 1 .. Len(p) /\ i \in Len(f) + 1 .. Len(x)
      BY <1>2, <1>4, <1>5
    <3> QED
      BY <1>1, <1>3, <1>5, <1>8, <3>1, <3>2
  <2> QED
    BY <1>2, <2>1, <2>2
<1>11. y = q
  BY <1>8, <1>9, <1>10, SeqEqual DEF PathSeqs
<1> QED
  BY <1>6, <1>7, <1>11 DEF y

ViewTypes ==
    /\ tops \subseteq Paths
    /\ shelf \in [Left -> {"tree", "trash", "away"}] /\ home \in [Left -> Paths]
    /\ marked \in [Left -> BOOLEAN] /\ show \in BOOLEAN

\* Above a folder there are folders, and a book in the tree is in one.
FoldersClosed == \A p \in tops : View!Prefixes(p) \subseteq tops
BooksHoused == \A x \in Left : shelf[x] = "tree" => home[x] \in tops

ViewInv == ViewTypes /\ FoldersClosed /\ BooksHoused

LEMMA PathsAreSequences ==
    Paths \subseteq PathSeqs /\ \A p \in Paths : View!Prefixes(p) \subseteq Paths
BY ViewAssumption DEF PathSeqs, View!Prefixes

LEMMA PrefixesClosed ==
    ASSUME NEW p \in PathSeqs, NEW q \in View!Prefixes(p)
    PROVE  q \in PathSeqs /\ View!Prefixes(q) \subseteq View!Prefixes(p)
<1>1. q \in PathSeqs /\ View!HasPrefix(p, q)
  BY PrefixesByPrefix
<1>2. ASSUME NEW r \in View!Prefixes(q) PROVE r \in View!Prefixes(p)
  <2>1. r \in PathSeqs /\ View!HasPrefix(q, r)
    BY <1>1, PrefixesByPrefix
  <2> QED
    BY <1>1, <2>1, PrefixTransitive, PrefixesByPrefix
<1> QED
  BY <1>1, <1>2

LEMMA RootAbove == ASSUME NEW p \in PathSeqs PROVE View!Root \in View!Prefixes(p)
<1>1. <<>> \in PathSeqs /\ Len(<<>>) = 0 /\ Len(p) \in Nat
  BY DEF PathSeqs
<1>2. View!HasPrefix(p, <<>>)
  BY <1>1, PrefixBySegment
<1> QED
  BY <1>1, <1>2, PrefixesByPrefix DEF View!Root

LEMMA PathIsOwnPrefix == ASSUME NEW p \in PathSeqs PROVE p \in View!Prefixes(p)
BY PrefixBySegment, PrefixesByPrefix DEF PathSeqs

\* What is under a marked folder is marked.
LEMMA MarkedBelow ==
    ASSUME NEW p \in PathSeqs, NEW h \in PathSeqs, View!HasPrefix(h, p), View!IsNSFWFolder(p)
    PROVE  View!IsNSFWFolder(h)
<1>1. View!Prefixes(p) \subseteq View!Prefixes(h)
  BY PrefixesByPrefix, PrefixesClosed
<1> QED
  BY <1>1 DEF View!IsNSFWFolder

LEMMA ViewInit == View!Init => ViewInv
<1> SUFFICES ASSUME View!Init PROVE ViewInv
  OBVIOUS
<1>1. tops = {p \in Paths : Len(p) < 2} /\ shelf = [x \in Left |-> "tree"] /\ home \in [Left -> tops]
  BY DEF View!Init
<1>2. ViewTypes
  BY <1>1 DEF View!Init, ViewTypes
<1>3. FoldersClosed
  <2> SUFFICES ASSUME NEW p \in tops, NEW q \in View!Prefixes(p) PROVE q \in tops
    BY DEF FoldersClosed
  <2>1. p \in PathSeqs /\ q \in Paths /\ q \in PathSeqs /\ View!HasPrefix(p, q)
    BY <1>1, PathsAreSequences, PrefixesByPrefix
  <2> QED
    BY <1>1, <2>1 DEF View!HasPrefix, PathSeqs
<1> QED
  BY <1>1, <1>2, <1>3 DEF ViewInv, BooksHoused

\* A folder is made with those above it.
LEMMA FoldersMade ==
    ASSUME ViewInv, NEW p \in Paths, tops' = tops \cup View!Prefixes(p)
    PROVE  tops' \subseteq Paths /\ FoldersClosed' /\ p \in tops'
<1>1. p \in PathSeqs /\ View!Prefixes(p) \subseteq Paths
  BY PathsAreSequences
<1>2. \A q \in View!Prefixes(p) : View!Prefixes(q) \subseteq View!Prefixes(p)
  BY <1>1, PrefixesClosed
<1> QED
  BY <1>1, <1>2, PathIsOwnPrefix DEF ViewInv, ViewTypes, FoldersClosed

\* A folder that moves takes what is under it along, to a place that was free.
LEMMA RelocateKeeps ==
    ASSUME ViewInv, NEW f \in Paths, NEW t \in Paths, NEW why, View!Relocate(f, t, why)
    PROVE  ViewInv'
<1>1. /\ f \in tops /\ f # <<>> /\ t # <<>> /\ t \notin tops /\ ~View!HasPrefix(t, f)
      /\ \/ SubSeq(t, 1, Len(t) - 1) = SubSeq(f, 1, Len(f) - 1)
         \/ SubSeq(t, 1, Len(t) - 1) \in tops
      /\ tops' = {View!Rebase(p, f, t) : p \in tops} /\ tops' \subseteq Paths
      /\ home' = [x \in Left |-> IF shelf[x] = "tree" THEN View!Rebase(home[x], f, t) ELSE home[x]]
      /\ UNCHANGED <<shelf, marked, show>>
  BY DEF View!Relocate, View!Root
<1>2. tops \subseteq PathSeqs /\ f \in PathSeqs /\ t \in PathSeqs
  BY PathsAreSequences DEF ViewInv, ViewTypes
<1>3. Len(t) \in Nat \ {0} /\ Len(f) \in Nat
  BY <1>1, <1>2 DEF PathSeqs
<1> DEFINE up == SubSeq(t, 1, Len(t) - 1)
<1>4. up \in PathSeqs /\ Len(up) = Len(t) - 1 /\ \A i \in 1 .. Len(t) - 1 : up[i] = t[i]
  <2>1. Len(t) - 1 \in 0 .. Len(t)
    BY <1>3
  <2>2. ASSUME NEW k \in 0 .. Len(t)
        PROVE  /\ SubSeq(t, 1, k) \in PathSeqs /\ Len(SubSeq(t, 1, k)) = k
               /\ \A i \in 1 .. k : SubSeq(t, 1, k)[i] = t[i]
    BY <1>2, <1>3 DEF PathSeqs
  <2> QED
    BY <2>1, <2>2
<1>5. up \in tops
  <2>1. CASE up = SubSeq(f, 1, Len(f) - 1)
    <3>1. Len(f) - 1 \in 0 .. Len(f)
      BY <1>1, <1>2, <1>3 DEF PathSeqs
    <3>2. up \in View!Prefixes(f)
      BY <2>1, <3>1 DEF View!Prefixes
    <3> QED
      BY <1>1, <3>2 DEF ViewInv, FoldersClosed
  <2> QED
    BY <1>1, <2>1
<1> HIDE DEF up
<1>6. ViewTypes'
  <2>1. \A x \in Left : home'[x] \in Paths
    BY <1>1 DEF ViewInv, ViewTypes, BooksHoused
  <2> QED
    BY <1>1, <2>1 DEF ViewInv, ViewTypes
<1>7. BooksHoused'
  BY <1>1 DEF ViewInv, BooksHoused
<1>8. ASSUME NEW p \in tops, NEW q \in View!Prefixes(View!Rebase(p, f, t))
      PROVE  q \in tops'
  <2>1. CASE ~View!HasPrefix(p, f)
    <3>1. q \in View!Prefixes(p) /\ p \in PathSeqs
      BY <1>2, <1>8, <2>1 DEF View!Rebase
    <3>2. q \in tops /\ q \in PathSeqs /\ View!HasPrefix(p, q)
      BY <3>1, PrefixesByPrefix DEF ViewInv, FoldersClosed
    <3>3. ~View!HasPrefix(q, f)
      BY <1>2, <2>1, <3>1, <3>2, PrefixTransitive
    <3> QED
      BY <1>1, <3>2, <3>3 DEF View!Rebase
  <2>2. CASE View!HasPrefix(p, f)
    <3> DEFINE r == View!Rebase(p, f, t)
    <3>1. p \in PathSeqs
      BY <1>2
    <3>2. r \in PathSeqs /\ View!HasPrefix(r, t)
      BY <1>2, <2>2, <3>1, RebasedSegments, RebasedUnder
    <3>3. q \in PathSeqs /\ View!HasPrefix(r, q)
      BY <1>8, <3>2, PrefixesByPrefix
    <3>4. CASE Len(q) >= Len(t)
      <4>1. PICK x \in View!Prefixes(p) : View!HasPrefix(x, f) /\ q = View!Rebase(x, f, t)
        BY <1>2, <2>2, <3>1, <3>3, <3>4, RebasedAbove
      <4>2. x \in tops
        BY <4>1 DEF ViewInv, FoldersClosed
      <4> QED
        BY <1>1, <4>1, <4>2
    <3>5. CASE Len(q) < Len(t)
      <4> HIDE DEF r
      <4>1. \A i \in 1 .. Len(q) : q[i] = t[i]
        <5>1. /\ \A i \in 1 .. Len(q) : r[i] = q[i]
              /\ \A i \in 1 .. Len(t) : r[i] = t[i]
          BY <1>2, <3>2, <3>3, PrefixBySegment
        <5>2. Len(q) \in Nat
          BY <3>3 DEF PathSeqs
        <5> QED
          BY <1>3, <3>5, <5>1, <5>2
      <4>2. Len(q) \in Nat
        BY <3>3 DEF PathSeqs
      <4>3. View!HasPrefix(t, q) /\ View!HasPrefix(up, q)
        BY <1>2, <1>3, <1>4, <3>3, <3>5, <4>1, <4>2, PrefixBySegment
      <4>4. q \in tops
        BY <1>4, <1>5, <3>3, <4>3, PrefixesByPrefix DEF ViewInv, FoldersClosed
      <4>5. ~View!HasPrefix(q, f)
        BY <1>1, <1>2, <3>3, <4>3, PrefixTransitive
      <4> QED
        BY <1>1, <4>4, <4>5 DEF View!Rebase
    <3> QED
      BY <1>3, <3>3, <3>4, <3>5 DEF PathSeqs
  <2> QED
    BY <2>1, <2>2
<1>9. FoldersClosed'
  BY <1>1, <1>8 DEF FoldersClosed
<1> QED
  BY <1>6, <1>7, <1>9 DEF ViewInv

\* Where no folder is marked, a book is hidden by its own mark alone.
LEMMA NoRuleNoFolder == ASSUME rules = {}, NEW p PROVE ~View!IsNSFWFolder(p)
BY DEF View!IsNSFWFolder

\* What a request is judged on has right what counts for it.
LEMMA ListingTree ==
    /\ View!Tree.dirs = tops /\ View!Tree.place = shelf
    /\ View!Tree.home = home /\ View!Tree.marked = marked
BY DEF View!Tree

LEMMA KnownBook ==
    ASSUME NEW why \in View!Grounds, NEW l, View!Judged(l, why), NEW x \in Left,
           why = "tree" \/ View!BookKnown(x)
    PROVE  l.place[x] = shelf[x] /\ l.home[x] = home[x] /\ l.marked[x] = marked[x]
BY ListingTree DEF View!Judged, View!BookKnown

\* refuseUnconfirmedReveal, for the books of a folder that moves.
LEMMA RelocateHidesBooks ==
    ASSUME ViewInv, NEW f \in Paths, NEW t \in Paths, NEW why \in View!Grounds,
           View!Relocate(f, t, why), why = "tree" \/ t \notin listed.dirs, ~show,
           NEW x \in Left, why = "tree" \/ View!BookKnown(x),
           shelf[x] = "tree", View!IsBookNSFW(home[x], marked[x])
    PROVE  View!IsBookNSFW(View!Rebase(home[x], f, t), marked[x])
<1>1. PICK l : View!Judged(l, why) /\ ~View!Revealed(l, f, t, FALSE)
  BY DEF View!Relocate, View!Preflight, View!Grounds
<1>2. /\ l.place[x] = shelf[x] /\ l.home[x] = home[x] /\ l.marked[x] = marked[x]
      /\ t \notin l.dirs
  BY <1>1, KnownBook, ListingTree DEF View!Judged, View!Relocate
<1>3. CASE rules = {}
  BY <1>3, NoRuleNoFolder DEF View!IsBookNSFW
<1>4. CASE rules # {} /\ View!HasPrefix(home[x], f)
  BY <1>1, <1>2, <1>4 DEF View!Revealed, View!BookRevealed, View!Under, View!StillMarked
<1>5. CASE ~View!HasPrefix(home[x], f)
  BY <1>5 DEF View!Rebase
<1> QED
  BY <1>3, <1>4, <1>5

\* The same for its folders: no book in view comes to be under one, and an empty one stays marked.
LEMMA RelocateHidesFolders ==
    ASSUME ViewInv, NEW f \in Paths, NEW t \in Paths, NEW why \in View!Grounds,
           View!Relocate(f, t, why), why = "tree" \/ t \notin listed.dirs, ~show,
           NEW p \in tops, why = "tree" \/ View!FolderKnown(p),
           View!HasPrefix(p, f), ~View!FolderShown(View!Tree, p)
    PROVE  ~View!FolderShown(View!Tree, View!Rebase(p, f, t))'
<1> DEFINE r == View!Rebase(p, f, t)
<1>1. /\ f \in tops /\ t \notin tops
      /\ home' = [x \in Left |-> IF shelf[x] = "tree" THEN View!Rebase(home[x], f, t) ELSE home[x]]
      /\ UNCHANGED <<rules, shelf, marked, show>>
  BY DEF View!Relocate, View!Done
<1>2. /\ tops \subseteq PathSeqs /\ f \in PathSeqs /\ t \in PathSeqs /\ p \in PathSeqs
      /\ r \in PathSeqs /\ View!HasPrefix(r, t)
  BY PathsAreSequences, RebasedSegments, RebasedUnder DEF ViewInv, ViewTypes
<1>3. \A q : View!IsNSFWFolder(q)' <=> View!IsNSFWFolder(q)
  BY <1>1 DEF View!IsNSFWFolder
<1>4. ASSUME NEW x \in Left, shelf[x] = "tree"
      PROVE  /\ home[x] \in PathSeqs /\ home'[x] = View!Rebase(home[x], f, t)
             /\ View!HasPrefix(home'[x], r) <=> View!HasPrefix(home[x], p)
  <2>1. home[x] \in tops /\ home[x] \in PathSeqs /\ home'[x] = View!Rebase(home[x], f, t)
    BY <1>1, <1>2, <1>4 DEF ViewInv, BooksHoused
  <2>2. CASE View!HasPrefix(home[x], f)
    BY <1>2, <2>1, <2>2, RebasedOrder
  <2>3. CASE ~View!HasPrefix(home[x], f)
    <3>1. home'[x] = home[x]
      BY <2>1, <2>3 DEF View!Rebase
    <3>2. ~View!HasPrefix(home[x], p)
      BY <1>2, <2>1, <2>3, PrefixTransitive
    <3>3. ~View!HasPrefix(home[x], r)
      <4>1. SUFFICES ASSUME View!HasPrefix(home[x], r) PROVE FALSE
        OBVIOUS
      <4>2. View!HasPrefix(home[x], t)
        BY <1>2, <2>1, <4>1, PrefixTransitive
      <4>3. t \in View!Prefixes(home[x])
        BY <1>2, <2>1, <4>2, PrefixesByPrefix
      <4> QED
        BY <1>1, <2>1, <4>3 DEF ViewInv, FoldersClosed
    <3> QED
      BY <2>1, <3>1, <3>2, <3>3
  <2> QED
    BY <2>1, <2>2, <2>3
<1> HIDE DEF r
<1>5. CASE \E x \in Left : shelf[x] = "tree" /\ View!HasPrefix(home[x], p)
  <2>1. PICK x \in Left : shelf[x] = "tree" /\ View!HasPrefix(home[x], p)
    BY <1>5
  <2>2. ASSUME NEW y \in Left, shelf[y] = "tree", View!HasPrefix(home[y], p)
        PROVE  View!IsBookNSFW(home[y], marked[y])
    <3>1. CASE View!IsNSFWFolder(p)
      BY <1>2, <1>4, <2>2, <3>1, MarkedBelow DEF View!IsBookNSFW
    <3>2. CASE ~View!IsNSFWFolder(p)
      BY <2>2, <3>2, ListingTree DEF View!FolderShown, View!Under, View!Allows
    <3> QED
      BY <3>1, <3>2
  <2>3. View!Under(View!Tree, x, r)'
    <3>1. shelf'[x] = "tree" /\ View!HasPrefix(home'[x], r)
      BY <1>1, <1>4, <2>1
    <3> QED
      BY <3>1 DEF View!Under, View!Tree
  <2>4. ASSUME NEW y \in Left, shelf'[y] = "tree", View!HasPrefix(home'[y], r)
        PROVE  View!IsBookNSFW(home[y], marked[y])'
    <3>1. shelf[y] = "tree" /\ View!HasPrefix(home[y], p) /\ View!IsBookNSFW(home[y], marked[y])
      BY <1>1, <1>4, <2>2, <2>4
    <3>2. why = "tree" \/ View!BookKnown(y)
      BY <3>1, ListingTree DEF View!FolderKnown, View!Under
    <3>3. View!IsBookNSFW(View!Rebase(home[y], f, t), marked[y])
      BY <3>1, <3>2, RelocateHidesBooks
    <3> QED
      BY <1>1, <1>3, <1>4, <3>1, <3>3 DEF View!IsBookNSFW
  <2>5. \A y \in Left : View!Under(View!Tree, y, r)' => ~View!Allows(View!Tree, y)'
    BY <1>1, <2>4 DEF View!Under, View!Tree, View!Allows
  <2> QED
    BY <1>1, <2>3, <2>5 DEF View!FolderShown, r
<1>6. CASE ~\E x \in Left : shelf[x] = "tree" /\ View!HasPrefix(home[x], p)
  <2>1. \A x \in Left : ~View!Under(View!Tree, x, p)
    BY <1>6, ListingTree DEF View!Under
  <2>2. View!IsNSFWFolder(p)
    BY <2>1 DEF View!FolderShown
  <2>3. rules # {}
    BY <2>2, NoRuleNoFolder
  <2>4. PICK l : View!Judged(l, why) /\ ~View!Revealed(l, f, t, FALSE)
    BY DEF View!Relocate, View!Preflight, View!Grounds
  <2>5. t \notin l.dirs /\ p \in l.dirs
    BY <1>1, <2>4, ListingTree DEF View!Judged, View!FolderKnown
  <2>6. ASSUME NEW x \in Left PROVE ~View!Under(l, x, p)
    <3>1. CASE why = "tree"
      BY <2>1, <2>4, <3>1 DEF View!Judged
    <3>2. CASE why # "tree"
      <4>1. l = listed /\ View!FolderKnown(p)
        BY <2>4, <3>2 DEF View!Judged
      <4>2. View!Under(listed, x, p) => View!BookKnown(x)
        BY <4>1 DEF View!FolderKnown
      <4> QED
        BY <1>6, <4>1, <4>2 DEF View!Under, View!BookKnown
    <3> QED
      BY <3>1, <3>2
  <2>7. View!StillMarked(p, f, t, FALSE, FALSE)
    BY <2>2, <2>3, <2>4, <2>5, <2>6 DEF View!Revealed
  <2>8. View!IsNSFWFolder(r)'
    BY <1>3, <2>7 DEF View!StillMarked, View!IsBookNSFW, r
  <2> QED
    BY <1>1, <2>8 DEF View!FolderShown, r
<1> QED
  BY <1>5, <1>6

\* A book that keeps what hides it stays hidden.
LEMMA HiddenKept ==
    ASSUME UNCHANGED <<rules, show>>, NEW x \in Left, ~View!Visible(View!Tree, x),
           marked'[x] = marked[x],
           \/ shelf[x] = "away" /\ shelf'[x] = "away"
           \/ shelf[x] # "away" /\ shelf'[x] # "away" /\ home'[x] = home[x]
           \/ shelf[x] # "away" /\ shelf'[x] # "away" /\ View!IsBookNSFW(home'[x], marked[x])
           \/ shelf'[x] = "away" /\ marked[x]
    PROVE  ~View!Visible(View!Tree, x)'
<1>1. \A q : View!IsNSFWFolder(q)' <=> View!IsNSFWFolder(q)
  BY DEF View!IsNSFWFolder
<1>2. ~show
  BY DEF View!Visible, View!Allows
<1> QED
  BY <1>1, <1>2 DEF View!Visible, View!Allows, View!IsBookNSFW, View!Tree

LEMMA FolderSteps ==
    ASSUME ViewInv, NEW p \in Paths, View!CreateFolder(p) \/ View!DeleteFolder(p)
    PROVE  ViewInv' /\ ~View!RevealsBook("tree")
<1>1. UNCHANGED <<rules, shelf, home, marked, show>>
  BY DEF View!CreateFolder, View!DeleteFolder, View!Done
<1>2. ASSUME View!CreateFolder(p) PROVE ViewInv'
  BY <1>1, <1>2, FoldersMade DEF View!CreateFolder, ViewInv, ViewTypes, BooksHoused
<1>3. ASSUME View!DeleteFolder(p) PROVE ViewInv'
  <2>1. /\ p \in tops /\ tops' = tops \ {p} /\ \A q \in tops : View!HasPrefix(q, p) => q = p
        /\ ~\E x \in Left : shelf[x] = "tree" /\ home[x] = p
    BY <1>3 DEF View!DeleteFolder
  <2>2. \A q \in tops' : View!Prefixes(q) \subseteq tops'
    BY <2>1, PathsAreSequences, PrefixesByPrefix DEF ViewInv, ViewTypes, FoldersClosed
  <2> QED
    BY <1>1, <2>1, <2>2 DEF ViewInv, ViewTypes, FoldersClosed, BooksHoused
<1>4. ~View!RevealsBook("tree")
  BY <1>1, HiddenKept DEF View!RevealsBook
<1> QED
  BY <1>2, <1>3, <1>4

LEMMA RelocateStep ==
    ASSUME ViewInv, NEW f \in Paths, NEW t \in Paths, NEW why \in View!Grounds,
           View!Relocate(f, t, why), why = "tree" \/ t \notin listed.dirs
    PROVE  ~View!RevealsBook(why) /\ ~View!RevealsFolder(f, t, why)
<1>1. /\ home' = [x \in Left |-> IF shelf[x] = "tree" THEN View!Rebase(home[x], f, t) ELSE home[x]]
      /\ UNCHANGED <<rules, shelf, marked, show>>
  BY DEF View!Relocate, View!Done
<1>2. ASSUME NEW x \in Left, why = "tree" \/ View!BookKnown(x), ~View!Visible(View!Tree, x)
      PROVE  ~View!Visible(View!Tree, x)'
  <2>1. CASE shelf[x] = "tree"
    <3>1. ~show /\ View!IsBookNSFW(home[x], marked[x])
      BY <1>2, <2>1, ListingTree DEF View!Visible, View!Allows
    <3>2. View!IsBookNSFW(View!Rebase(home[x], f, t), marked[x])
      BY <1>2, <2>1, <3>1, RelocateHidesBooks
    <3>3. home'[x] = View!Rebase(home[x], f, t) /\ shelf'[x] = "tree" /\ marked'[x] = marked[x]
      BY <1>1, <2>1
    <3> QED
      BY <1>1, <1>2, <2>1, <3>2, <3>3, HiddenKept
  <2>2. CASE shelf[x] # "tree"
    BY <1>1, <1>2, <2>2, HiddenKept
  <2> QED
    BY <2>1, <2>2
<1>3. ASSUME NEW p \in tops, why = "tree" \/ View!FolderKnown(p), View!HasPrefix(p, f),
             ~View!FolderShown(View!Tree, p)
      PROVE  ~View!FolderShown(View!Tree, View!Rebase(p, f, t))'
  <2>1. ~show
    BY <1>3 DEF View!FolderShown
  <2> QED
    BY <1>3, <2>1, RelocateHidesFolders
<1> QED
  BY <1>2, <1>3 DEF View!RevealsBook, View!RevealsFolder

LEMMA TransferFolderKeeps ==
    ASSUME ViewInv, NEW f \in Paths, NEW why, View!TransferFolder(f, why)
    PROVE  ViewInv'
<1>0. PICK l \in {View!Tree, listed} : \E moved \in SUBSET Left :
         /\ shelf' = [x \in Left |-> IF x \in moved THEN "away" ELSE shelf[x]]
         /\ home' = [x \in Left |-> IF x \in moved THEN View!Root ELSE home[x]]
         /\ tops' = {p \in tops : View!HasPrefix(p, f) =>
                         \/ \E q \in tops \ l.dirs : View!HasPrefix(q, p)
                         \/ \E x \in Left \ moved : View!Under(View!Tree, x, p)}
         /\ UNCHANGED <<rules, marked, show>>
  BY DEF View!TransferFolder, View!Done
<1>1. PICK moved \in SUBSET Left :
         /\ shelf' = [x \in Left |-> IF x \in moved THEN "away" ELSE shelf[x]]
         /\ home' = [x \in Left |-> IF x \in moved THEN View!Root ELSE home[x]]
         /\ tops' = {p \in tops : View!HasPrefix(p, f) =>
                         \/ \E q \in tops \ l.dirs : View!HasPrefix(q, p)
                         \/ \E x \in Left \ moved : View!Under(View!Tree, x, p)}
         /\ UNCHANGED <<rules, marked, show>>
  BY <1>0
<1>2. f \in PathSeqs /\ tops \subseteq PathSeqs /\ View!Root \in Paths
  BY PathsAreSequences, RootAbove DEF ViewInv, ViewTypes
<1>3. ASSUME NEW p \in tops', NEW q \in View!Prefixes(p) PROVE q \in tops'
  <2>1. p \in tops /\ p \in PathSeqs
    BY <1>1, <1>2
  <2>2. q \in tops /\ q \in PathSeqs /\ View!HasPrefix(p, q)
    BY <2>1, PrefixesByPrefix DEF ViewInv, FoldersClosed
  <2>3. CASE ~View!HasPrefix(q, f)
    BY <1>1, <2>2, <2>3
  <2>4. CASE View!HasPrefix(q, f)
    <3>1. View!HasPrefix(p, f)
      BY <1>2, <2>1, <2>2, <2>4, PrefixTransitive
    <3>2. CASE \E y \in tops \ l.dirs : View!HasPrefix(y, p)
      <4>1. PICK y \in tops \ l.dirs : View!HasPrefix(y, p)
        BY <3>2
      <4>2. View!HasPrefix(y, q)
        BY <1>2, <2>1, <2>2, <4>1, PrefixTransitive
      <4> QED
        BY <1>1, <2>2, <4>1, <4>2
    <3>3. CASE \E x \in Left \ moved : View!Under(View!Tree, x, p)
      <4>1. PICK x \in Left \ moved : shelf[x] = "tree" /\ View!HasPrefix(home[x], p)
        BY <3>3, ListingTree DEF View!Under
      <4>2. home[x] \in PathSeqs
        BY <1>2, <4>1 DEF ViewInv, BooksHoused
      <4>3. View!HasPrefix(home[x], q)
        BY <2>1, <2>2, <4>1, <4>2, PrefixTransitive
      <4>4. View!Under(View!Tree, x, q)
        BY <4>1, <4>3, ListingTree DEF View!Under
      <4> QED
        BY <1>1, <2>2, <4>1, <4>4
    <3> QED
      BY <1>1, <3>1, <3>2, <3>3
  <2> QED
    BY <2>3, <2>4
<1>4. ASSUME NEW x \in Left, shelf'[x] = "tree" PROVE home'[x] \in tops'
  <2>1. x \notin moved /\ shelf[x] = "tree" /\ home'[x] = home[x]
    BY <1>1, <1>4
  <2>2. home[x] \in tops /\ home[x] \in PathSeqs
    BY <1>2, <2>1 DEF ViewInv, BooksHoused
  <2>3. View!Under(View!Tree, x, home[x])
    BY <2>1, <2>2, PrefixesByPrefix, PathIsOwnPrefix, ListingTree DEF View!Under
  <2> QED
    BY <1>1, <2>1, <2>2, <2>3
<1> QED
  BY <1>1, <1>2, <1>3, <1>4 DEF ViewInv, ViewTypes, FoldersClosed, BooksHoused

LEMMA TransferFolderStep ==
    ASSUME ViewInv, NEW f \in Paths, NEW why \in View!Grounds, View!TransferFolder(f, why)
    PROVE  ~View!RevealsBook(why)
<1>0. PICK l \in {View!Tree, listed} :
         /\ View!Judged(l, why) /\ ~View!Revealed(l, f, View!Root, TRUE)
         /\ \E moved \in SUBSET Left :
              /\ \A x \in moved : View!Under(l, x, f)
              /\ shelf' = [x \in Left |-> IF x \in moved THEN "away" ELSE shelf[x]]
              /\ home' = [x \in Left |-> IF x \in moved THEN View!Root ELSE home[x]]
              /\ UNCHANGED <<rules, marked, show>>
  BY DEF View!TransferFolder, View!Done, View!Preflight, View!Grounds
<1>1. PICK moved \in SUBSET Left :
         /\ View!Judged(l, why) /\ ~View!Revealed(l, f, View!Root, TRUE)
         /\ \A x \in moved : View!Under(l, x, f)
         /\ shelf' = [x \in Left |-> IF x \in moved THEN "away" ELSE shelf[x]]
         /\ home' = [x \in Left |-> IF x \in moved THEN View!Root ELSE home[x]]
         /\ UNCHANGED <<rules, marked, show>>
  BY <1>0
<1>2. ASSUME NEW x \in Left, why = "tree" \/ View!BookKnown(x), ~View!Visible(View!Tree, x)
      PROVE  ~View!Visible(View!Tree, x)'
  <2>1. CASE x \in moved
    <3>1. l.place[x] = shelf[x] /\ l.home[x] = home[x] /\ l.marked[x] = marked[x]
      BY <1>1, <1>2, KnownBook
    <3>2. ~show /\ (marked[x] \/ View!IsNSFWFolder(home[x])) /\ View!Under(l, x, f)
      BY <1>1, <1>2, <2>1, <3>1, ListingTree
      DEF View!Visible, View!Allows, View!IsBookNSFW, View!Under
    <3>3. marked[x]
      <4>1. CASE rules = {}
        BY <3>2, <4>1, NoRuleNoFolder
      <4>2. CASE rules # {}
        BY <1>1, <3>1, <3>2, <4>2
        DEF View!Revealed, View!BookRevealed, View!StillMarked, View!IsBookNSFW
      <4> QED
        BY <4>1, <4>2
    <3>4. shelf'[x] = "away" /\ marked'[x] = marked[x]
      BY <1>1, <2>1
    <3> QED
      BY <1>1, <1>2, <3>3, <3>4, HiddenKept
  <2>2. CASE x \notin moved
    BY <1>1, <1>2, <2>2, HiddenKept
  <2> QED
    BY <2>1, <2>2
<1> QED
  BY <1>2 DEF View!RevealsBook

\* A step on one book that is in view reveals nothing, when the listing has the book right.
LEMMA OneBookStep ==
    ASSUME UNCHANGED <<rules, show>>, NEW x \in Left, NEW why \in View!Grounds,
           View!Addressed(x, why),
           \A y \in Left \ {x} :
               shelf'[y] = shelf[y] /\ home'[y] = home[y] /\ marked'[y] = marked[y]
    PROVE  ~View!RevealsBook(why)
<1>1. PICK l : View!Judged(l, why) /\ View!Allows(l, x)
  BY DEF View!Addressed
<1>2. ASSUME why = "tree" \/ View!BookKnown(x) PROVE View!Visible(View!Tree, x)
  <2>1. l.place[x] = shelf[x] /\ l.home[x] = home[x] /\ l.marked[x] = marked[x]
    BY <1>1, <1>2, KnownBook
  <2> QED
    BY <1>1, <2>1, ListingTree DEF View!Visible, View!Allows, View!Addressed
<1>3. ASSUME NEW y \in Left \ {x}, ~View!Visible(View!Tree, y) PROVE ~View!Visible(View!Tree, y)'
  BY <1>3, HiddenKept
<1> QED
  BY <1>2, <1>3 DEF View!RevealsBook

LEMMA BookSteps ==
    ASSUME ViewInv, NEW x \in Left, NEW why \in View!Grounds,
           \/ View!TransferBook(x, why) \/ View!TrashBook(x, why)
           \/ \E p \in Paths, mark \in BOOLEAN : View!UpdateBook(x, p, mark, why)
    PROVE  ViewInv' /\ ~View!RevealsBook(why)
<1>1. UNCHANGED <<rules, show>> /\ View!Addressed(x, why) /\ shelf[x] = "tree"
  BY DEF View!TransferBook, View!TrashBook, View!UpdateBook, View!Done, View!Addressed
<1>2. \A y \in Left \ {x} :
         shelf'[y] = shelf[y] /\ home'[y] = home[y] /\ marked'[y] = marked[y]
  BY DEF View!TransferBook, View!TrashBook, View!UpdateBook, ViewInv, ViewTypes
<1>3. CASE View!TransferBook(x, why) \/ View!TrashBook(x, why)
  <2>1. /\ UNCHANGED <<tops, marked>>
        /\ \E at2 \in {"away", "trash"} : shelf' = [shelf EXCEPT ![x] = at2]
        /\ home' = home \/ home' = [home EXCEPT ![x] = View!Root]
    BY <1>3 DEF View!TransferBook, View!TrashBook
  <2>2. View!Root \in Paths
    <3>1. home[x] \in Paths /\ home[x] \in PathSeqs
      BY PathsAreSequences DEF ViewInv, ViewTypes
    <3> QED
      BY <3>1, PathsAreSequences, RootAbove
  <2> QED
    BY <1>1, <1>2, <2>1, <2>2, OneBookStep DEF ViewInv, ViewTypes, FoldersClosed, BooksHoused
<1>4. ASSUME NEW p \in Paths, NEW mark \in BOOLEAN, View!UpdateBook(x, p, mark, why)
      PROVE  ViewInv' /\ ~View!RevealsBook(why)
  <2>1. /\ UNCHANGED shelf /\ home' = [home EXCEPT ![x] = p]
        /\ marked' = [marked EXCEPT ![x] = mark] /\ tops' = tops \cup View!Prefixes(p)
    BY <1>4 DEF View!UpdateBook
  <2>2. tops' \subseteq Paths /\ FoldersClosed' /\ p \in tops'
    BY <2>1, FoldersMade
  <2>3. ViewInv'
    BY <1>1, <2>1, <2>2 DEF ViewInv, ViewTypes, BooksHoused
  <2> QED
    BY <1>1, <1>2, <2>3, OneBookStep
<1> QED
  BY <1>3, <1>4

LEMMA RestoreStep ==
    ASSUME ViewInv, NEW x \in Left, View!RestoreTrashedBook(x)
    PROVE  ViewInv' /\ ~View!RevealsBook("tree")
<1>1. /\ shelf[x] = "trash" /\ UNCHANGED <<rules, show, home, marked>>
      /\ shelf' = [shelf EXCEPT ![x] = "tree"] /\ tops' = tops \cup View!Prefixes(home[x])
  BY DEF View!RestoreTrashedBook, View!Done
<1>2. home[x] \in Paths
  BY DEF ViewInv, ViewTypes
<1>3. tops' \subseteq Paths /\ FoldersClosed' /\ home[x] \in tops'
  BY <1>1, <1>2, FoldersMade
<1>4. ViewInv'
  BY <1>1, <1>3 DEF ViewInv, ViewTypes, BooksHoused
<1>5. \A y \in Left : (shelf[y] = "away") <=> (shelf'[y] = "away")
  BY <1>1 DEF ViewInv, ViewTypes
<1> QED
  BY <1>1, <1>4, <1>5, HiddenKept DEF View!RevealsBook

LEMMA ViewRequest ==
    ASSUME ViewInv, NEW why \in View!Grounds, View!Request(why)
    PROVE  ViewInv' /\ ~View!RevealsBook(why)
BY FolderSteps, TransferFolderKeeps, TransferFolderStep, BookSteps, RestoreStep DEF View!Request

LEMMA ViewNext == ASSUME ViewInv, View!Next PROVE ViewInv' /\ View!RevealsNothing
<1>1. ASSUME NEW value \in BOOLEAN, View!SetShowNSFW(value) PROVE ViewInv'
  BY <1>1 DEF View!SetShowNSFW, ViewInv, ViewTypes, FoldersClosed, BooksHoused
<1>2. ASSUME NEW x \in Left, View!OutsideChange(x) PROVE ViewInv'
  <2>1. CASE UNCHANGED marked /\ \E p \in tops : home' = [home EXCEPT ![x] = p]
    BY <1>2, <2>1 DEF View!OutsideChange, ViewInv, ViewTypes, FoldersClosed, BooksHoused
  <2>2. CASE UNCHANGED home /\ \E mark \in BOOLEAN : marked' = [marked EXCEPT ![x] = mark]
    BY <1>2, <2>2 DEF View!OutsideChange, ViewInv, ViewTypes, FoldersClosed, BooksHoused
  <2> QED
    BY <1>2, <2>1, <2>2 DEF View!OutsideChange
<1>3. ViewInv'
  BY <1>1, <1>2, ViewRequest, TransferFolderKeeps, RelocateKeeps DEF View!Next, View!Step
<1>4. ASSUME NEW why \in View!Grounds, View!RevealsBook(why) PROVE ~View!Request(why)
  BY <1>4, ViewRequest
<1>5. ASSUME NEW why \in View!Grounds, NEW f \in tops, NEW t \in tops' \ tops,
             why = "tree" \/ t \notin listed.dirs, View!Relocate(f, t, why)
      PROVE  ~View!RevealsBook(why) /\ ~View!RevealsFolder(f, t, why)
  <2>1. f \in Paths /\ t \in Paths
    BY <1>3 DEF ViewInv, ViewTypes
  <2> QED
    BY <1>5, <2>1, RelocateStep
<1> QED
  BY <1>3, <1>4, <1>5 DEF View!RevealsNothing

\* For any folders, marks and nsfw_folders rules, no request that the client did not confirm
\* brings a hidden book, or a hidden folder that it moves, into view (refuseUnconfirmedReveal);
\* where no scan brought the listing up to date, nothing the listing has right.
THEOREM HiddenStaysHidden == MCSpec => NothingRevealed
<1> DEFINE Inv == part = "view" => ViewInv
<1>1. MCInit => Inv
  BY ViewInit DEF MCInit
<1>2. ASSUME Inv, [MCNext]_bookvars
      PROVE  Inv' /\ [part = "view" => View!RevealsNothing]_viewvars
  <2>1. CASE part = "view" /\ View!Next /\ UNCHANGED part
    BY <1>2, <2>1, ViewNext
  <2>2. CASE UNCHANGED <<part, viewvars>>
    BY <1>2, <2>2 DEF viewvars, ViewInv, ViewTypes, FoldersClosed, BooksHoused
  <2> QED
    BY <1>2, <2>1, <2>2 DEF MCNext, bookvars
<1> QED
  BY <1>1, <1>2, PTL DEF MCSpec, bookvars, NothingRevealed

-----------------------------------------------------------------------------
(* BookSources.                                                            *)

SourceSteps ==
    {"idle", "stage", "publish", "assets", "open", "write", "comment", "meta", "list", "check", "remove",
     "coverFile", "coverMeta", "reread", "unlink", "unlinkCover", "unnameCover"}
SourceRequest ==
    [kind : Srcs!Operations \cup {"none"}, id : SourceIds \cup {None}, set : BOOLEAN,
     new : SourceIds \cup {None}, ext : Exts \cup {None}, prev : Exts \cup {None}]

SourceTypes ==
    /\ Srcs!TypeOK
    /\ at \in [{r1} -> SourceSteps] /\ rq \in [{r1} -> SourceRequest]

\* Which request is at which step, and where the package then is.
KindsAt ==
    /\ at[r1] = "idle" <=> rq[r1].kind = "none"
    /\ place = "staged" <=> rq[r1].kind \in Srcs!Imports
    /\ place = "absent" => at[r1] = "idle"
    /\ at[r1] \in {"stage", "publish"} => rq[r1].kind \in Srcs!Imports \cup {"create", "delete"}
    /\ at[r1] = "publish" => rq[r1].new \in SourceIds
    /\ at[r1] = "assets" => rq[r1].kind \in {"epub", "cbz"}
    /\ at[r1] \in {"open", "write"} => rq[r1].kind \in Srcs!Imports \cup {"create", "delete", "point"}
    /\ at[r1] = "comment" => rq[r1].kind = "epub"
    /\ at[r1] = "meta" => rq[r1].kind \in {"text", "cbz", "epub"}
    /\ at[r1] = "list" => rq[r1].kind \in Srcs!Imports
    /\ at[r1] \in {"check", "remove"} => rq[r1].kind = "delete"
    /\ at[r1] \in {"coverFile", "coverMeta"} =>
          rq[r1].kind \in {"epub", "cbz", "cover"} /\ rq[r1].ext \in Exts
    /\ at[r1] \in {"reread", "unlink"} => rq[r1].kind = "cover"
    /\ at[r1] \in {"unlinkCover", "unnameCover"} => rq[r1].kind = "uncover"

\* A source opens from before the pointer names it until after the pointer has left it.
PointerInv ==
    /\ place = "listed" => Srcs!Opens(bookJson.current)
    /\ rq[r1].kind = "delete" /\ at[r1] \in {"stage", "publish", "open", "write"} => Srcs!Opens(rq[r1].id)
    /\ rq[r1].kind = "delete" /\ at[r1] \in {"open", "write"} => rq[r1].new # rq[r1].id
    /\ at[r1] = "write" => Srcs!Opens(rq[r1].new)
    /\ at[r1] = "remove" => rq[r1].id \in SourceIds /\ rq[r1].id # bookJson.current

\* What an import has written by each of its steps.
WholeSource(i) == i \in SourceIds /\ sources[i] = "whole"
ImportInv ==
    rq[r1].kind \in Srcs!Imports =>
        /\ at[r1] \in {"assets", "open", "write"} => WholeSource(rq[r1].new)
        /\ at[r1] \in {"comment", "meta", "list"} => WholeSource(bookJson.current)
        /\ rq[r1].kind = "epub" /\ at[r1] \in {"coverFile", "coverMeta"} => WholeSource(bookJson.current)
        /\ rq[r1].kind = "cbz" =>
              /\ at[r1] \in {"coverFile", "coverMeta"} => WholeSource(rq[r1].new)
              /\ at[r1] \in {"coverFile", "coverMeta", "open", "write"} => rq[r1].new \in images
              /\ at[r1] \in {"meta", "list"} => bookJson.current \in images
              /\ at[r1] \in {"open", "write", "meta", "list"} => bookJson.cover # None
        /\ bookJson.cover # None => bookJson.cover \in covers

\* The cover file is there before book.json names it, and goes after it does not.
CoverInv ==
    /\ at[r1] = "coverMeta" => rq[r1].ext \in covers
    /\ at[r1] = "unlink" => bookJson.cover # rq[r1].prev

SourceInv == SourceTypes /\ KindsAt /\ PointerInv /\ ImportInv /\ CoverInv

LEMMA LeastOf ==
    ASSUME NEW T, T \subseteq Nat, T # {} PROVE \E x \in T : \A y \in T : x <= y
<1> DEFINE R == OpToRel(<, Nat)
<1>1. IsWellFoundedOn(R, Nat)
  BY NatLessThanWellFounded, Zenon
<1> HIDE DEF R
<1>2. PICK x \in T : \A y \in T : ~(<<y, x>> \in R)
  BY <1>1, WFMin
<1>3. \A y \in T : ~(y < x)
  BY <1>2 DEF R, OpToRel
<1> QED
  BY <1>3

\* Of some source IDs, one is the newest.
LEMMA NewestIsOne ==
    ASSUME NEW ids \in SUBSET SourceIds, ids # {}
    PROVE  Srcs!Newest(ids) \in ids
<1> DEFINE T == {k \in Nat : \A x \in ids : x <= k}
<1>1. PICK m \in Nat : \A i \in SourceIds : i <= m
  BY SourcesAssumption
<1>2. ids \subseteq Nat /\ T \subseteq Nat /\ T # {}
  BY <1>1, SourcesAssumption
<1>3. PICK k \in T : \A y \in T : k <= y
  <2> HIDE DEF T
  <2> QED
    BY <1>2, LeastOf
<1>4. k \in ids
  <2>1. SUFFICES ASSUME k \notin ids PROVE FALSE
    OBVIOUS
  <2>2. PICK x \in ids : TRUE
    OBVIOUS
  <2>3. x \in Nat /\ x <= k /\ x # k /\ k \in Nat
    BY <1>2, <2>1
  <2>4. k - 1 \in T
    BY <1>2, <2>1, <2>3
  <2> QED
    BY <1>3, <2>3, <2>4
<1>5. \A y \in ids : k >= y
  BY <1>2
<1> QED
  BY <1>4, <1>5 DEF Srcs!Newest, Srcs!Max

LEMMA SourcesInit == Srcs!Init => SourceInv
BY SourcesAssumption
DEF Srcs!Init, SourceInv, SourceTypes, Srcs!TypeOK, KindsAt, PointerInv, ImportInv, CoverInv, SourceSteps,
    SourceRequest, Srcs!NoRequest, Srcs!NoBook, Srcs!Directories, Srcs!Imports, Srcs!Operations

\* The ways a request ends or goes on.
LEMMA SourcesGoto ==
    ASSUME SourceTypes, NEW label \in SourceSteps, Srcs!Goto(r1, label)
    PROVE  at'[r1] = label /\ at' \in [{r1} -> SourceSteps]
BY DEF SourceTypes, Srcs!Goto

LEMMA SourcesDone ==
    ASSUME SourceTypes, Srcs!Done(r1)
    PROVE  /\ at'[r1] = "idle" /\ rq'[r1].kind = "none"
           /\ at' \in [{r1} -> SourceSteps] /\ rq' \in [{r1} -> SourceRequest]
BY DEF SourceTypes, Srcs!Done, Srcs!Goto, SourceSteps, SourceRequest, Srcs!NoRequest, Srcs!Operations

\* A step that ends a request, on a package that stays listed and readable.
LEMMA SourcesEnd ==
    ASSUME SourceInv, Srcs!Done(r1), Srcs!TypeOK', place' # "staged",
           place' = "listed" => Srcs!Opens(bookJson.current)'
    PROVE  SourceInv'
<1>1. SourceTypes' /\ at'[r1] = "idle" /\ rq'[r1].kind = "none"
  BY SourcesDone DEF SourceInv, SourceTypes
<1>2. KindsAt'
  BY <1>1 DEF KindsAt, Srcs!Imports
<1>3. PointerInv' /\ ImportInv' /\ CoverInv'
  BY <1>1 DEF PointerInv, ImportInv, CoverInv, Srcs!Imports
<1> QED
  BY <1>1, <1>2, <1>3 DEF SourceInv

\* Where imports and edits may be.
LEMMA EditsAreListed ==
    ASSUME SourceInv, at[r1] # "idle", rq[r1].kind \notin Srcs!Imports
    PROVE  place = "listed" /\ Srcs!Opens(bookJson.current)
BY DEF SourceInv, SourceTypes, Srcs!TypeOK, KindsAt, PointerInv

LEMMA SourcesBegin == ASSUME SourceInv, Srcs!Begin(r1) PROVE SourceInv'
<1>1. at[r1] = "idle" /\ rq[r1].kind = "none" /\ begun' \in 0 .. MaxRequests
  BY SourcesAssumption DEF SourceInv, SourceTypes, Srcs!TypeOK, Srcs!Begin, KindsAt
<1>2. PICK kind1 \in Srcs!Operations :
         (Srcs!Import(r1, kind1) \/ Srcs!Edit(r1, kind1)) /\ Srcs!Goto(r1, Srcs!FirstStep(kind1))
  BY DEF Srcs!Begin
<1>3. Srcs!FirstStep(kind1) \in SourceSteps \ {"idle"}
  BY DEF Srcs!FirstStep, Srcs!Operations, Srcs!Imports, SourceSteps
<1>4. at'[r1] = Srcs!FirstStep(kind1) /\ at' \in [{r1} -> SourceSteps]
  BY <1>2, <1>3, SourcesGoto DEF SourceInv
<1>5. CASE Srcs!Import(r1, kind1)
  <2> DEFINE q == [Srcs!NoRequest EXCEPT !.kind = kind1, !.set = TRUE]
  <2>1. kind1 \in Srcs!Imports /\ rq' = [rq EXCEPT ![r1] = q] /\ Srcs!EmptyPackage("staged")
    BY <1>5 DEF Srcs!Import
  <2>2. q \in SourceRequest /\ q.kind = kind1
    BY DEF Srcs!NoRequest, SourceRequest
  <2> HIDE DEF q
  <2>3. Srcs!TypeOK' /\ place' = "staged" /\ bookJson'.cover = None
    BY <1>1, <2>1 DEF Srcs!EmptyPackage, Srcs!TypeOK, Srcs!NoBook, Srcs!Directories
  <2>4. SourceTypes' /\ rq'[r1].kind = kind1
    BY <1>4, <2>1, <2>2, <2>3 DEF SourceInv, SourceTypes
  <2>5. at'[r1] = "stage"
    BY <1>4, <2>1 DEF Srcs!FirstStep, Srcs!Imports
  <2>6. KindsAt'
    BY <2>1, <2>3, <2>4, <2>5 DEF KindsAt, Srcs!Imports
  <2>7. PointerInv' /\ ImportInv' /\ CoverInv'
    BY <2>1, <2>3, <2>4, <2>5 DEF PointerInv, ImportInv, CoverInv, Srcs!Imports
  <2> QED
    BY <2>4, <2>6, <2>7 DEF SourceInv
<1>6. CASE Srcs!Edit(r1, kind1)
  <2>1. PICK i \in SourceIds, e \in Exts, set \in BOOLEAN :
          rq' = [rq EXCEPT ![r1] =
            [kind |-> kind1, set |-> set,
             id |-> IF kind1 = "delete" THEN i ELSE None,
             new |-> IF kind1 = "point" THEN i ELSE None,
             ext |-> IF kind1 = "cover" THEN e ELSE None,
             prev |-> IF kind1 \in {"cover", "uncover"} THEN bookJson.cover ELSE None]]
    BY <1>6 DEF Srcs!Edit
  <2> DEFINE q == [kind |-> kind1, set |-> set,
                   id |-> IF kind1 = "delete" THEN i ELSE None,
                   new |-> IF kind1 = "point" THEN i ELSE None,
                   ext |-> IF kind1 = "cover" THEN e ELSE None,
                   prev |-> IF kind1 \in {"cover", "uncover"} THEN bookJson.cover ELSE None]
  <2>2. q \in SourceRequest /\ q.kind = kind1 /\ (kind1 = "cover" => q.ext \in Exts)
    BY DEF SourceRequest, SourceInv, SourceTypes, Srcs!TypeOK
  <2>3. rq' = [rq EXCEPT ![r1] = q]
    BY <2>1
  <2> HIDE DEF q
  <2>4. kind1 \notin Srcs!Imports /\ place = "listed" /\ UNCHANGED <<place, sources, temps, images, bookJson, covers>>
    BY <1>6 DEF Srcs!Edit, Srcs!package
  <2>5. SourceTypes' /\ rq'[r1] = q
    BY <1>1, <1>4, <2>2, <2>3, <2>4 DEF SourceInv, SourceTypes, Srcs!TypeOK
  <2>6. /\ at'[r1] \in {"stage", "check", "open", "coverFile", "unlinkCover"}
        /\ at'[r1] = "stage" => kind1 = "create"
        /\ at'[r1] = "check" => kind1 = "delete"
        /\ at'[r1] = "open" => kind1 = "point"
        /\ at'[r1] = "coverFile" => kind1 = "cover"
        /\ at'[r1] = "unlinkCover" => kind1 = "uncover"
    BY <1>4, <2>4 DEF Srcs!FirstStep, Srcs!Operations, Srcs!Imports
  <2>7. KindsAt'
    BY <2>2, <2>4, <2>5, <2>6 DEF KindsAt, Srcs!Imports, Srcs!Operations
  <2>8. PointerInv' /\ ImportInv' /\ CoverInv'
    BY <2>2, <2>4, <2>5, <2>6 DEF SourceInv, PointerInv, ImportInv, CoverInv, Srcs!Opens
  <2> QED
    BY <2>5, <2>7, <2>8 DEF SourceInv
<1> QED
  BY <1>2, <1>5, <1>6

LEMMA SourcesStage == ASSUME SourceInv, Srcs!StageSource(r1) PROVE SourceInv'
<1>1. PICK i \in SourceIds : /\ sources[i] = "none" /\ rq' = [rq EXCEPT ![r1].new = i]
                             /\ temps' = temps \cup {i}
  BY DEF Srcs!StageSource
<1>2. at[r1] = "stage" /\ UNCHANGED <<place, sources, images, bookJson, covers, begun>>
  BY DEF Srcs!StageSource
<1>3. at'[r1] = "publish" /\ at' \in [{r1} -> SourceSteps]
  BY SourcesGoto DEF Srcs!StageSource, SourceInv, SourceSteps
<1> DEFINE q == [rq[r1] EXCEPT !.new = i]
<1>4. rq[r1] \in SourceRequest /\ rq' = [rq EXCEPT ![r1] = q]
  BY <1>1 DEF SourceInv, SourceTypes
<1>5. q \in SourceRequest /\ q.kind = rq[r1].kind /\ q.id = rq[r1].id /\ q.new = i
  BY <1>4 DEF SourceRequest
<1> HIDE DEF q
<1>6. SourceTypes' /\ rq'[r1] = q
  BY <1>1, <1>2, <1>3, <1>4, <1>5 DEF SourceInv, SourceTypes, Srcs!TypeOK
<1>7. KindsAt'
  BY <1>2, <1>3, <1>5, <1>6 DEF SourceInv, KindsAt, Srcs!Imports
<1>8. PointerInv' /\ ImportInv' /\ CoverInv'
  BY <1>2, <1>3, <1>5, <1>6 DEF SourceInv, PointerInv, ImportInv, CoverInv, Srcs!Opens
<1> QED
  BY <1>6, <1>7, <1>8 DEF SourceInv

LEMMA SourcesPublish == ASSUME SourceInv, Srcs!PublishSource(r1) PROVE SourceInv'
<1> DEFINE n == rq[r1].new
<1>1. /\ at[r1] = "publish" /\ sources[n] = "none" /\ n \in SourceIds /\ rq[r1] \in SourceRequest
      /\ sources' = [sources EXCEPT ![n] = "whole"] /\ temps' = temps \ {n}
      /\ images' = images \ {n} /\ UNCHANGED <<place, bookJson, covers, begun>>
      /\ rq[r1].kind \in Srcs!Imports \cup {"create", "delete"}
  BY DEF Srcs!PublishSource, SourceInv, SourceTypes, KindsAt
<1>2. Srcs!TypeOK'
  BY <1>1 DEF SourceInv, SourceTypes, Srcs!TypeOK, Srcs!Directories
<1>3. \A i : Srcs!Opens(i) => Srcs!Opens(i)' /\ i # n
  BY <1>1 DEF Srcs!Opens, SourceInv, SourceTypes, Srcs!TypeOK
<1>4. sources'[n] = "whole"
  BY <1>1 DEF SourceInv, SourceTypes, Srcs!TypeOK
<1>5. CASE Srcs!AfterPublish(rq[r1]) = "idle"
  <2>1. rq[r1].kind = "create" /\ Srcs!Done(r1)
    BY <1>1, <1>5 DEF Srcs!AfterPublish, Srcs!PublishSource
  <2>2. place' # "staged" /\ Srcs!Opens(bookJson.current)'
    BY <1>1, <1>3, <2>1, EditsAreListed DEF Srcs!Imports
  <2> QED
    BY <1>2, <2>1, <2>2, SourcesEnd
<1>6. CASE Srcs!AfterPublish(rq[r1]) # "idle"
  <2>1. UNCHANGED rq /\ Srcs!Goto(r1, Srcs!AfterPublish(rq[r1]))
    BY <1>6 DEF Srcs!PublishSource
  <2>2. /\ Srcs!AfterPublish(rq[r1]) \in {"assets", "open"}
        /\ Srcs!AfterPublish(rq[r1]) = "assets" <=> rq[r1].kind \in {"epub", "cbz"}
    BY <1>6 DEF Srcs!AfterPublish
  <2>3. at'[r1] = Srcs!AfterPublish(rq[r1]) /\ at' \in [{r1} -> SourceSteps]
    BY <2>1, <2>2, SourcesGoto DEF SourceInv, SourceSteps
  <2>4. SourceTypes' /\ WholeSource(n)'
    BY <1>1, <1>2, <1>4, <2>1, <2>3 DEF SourceInv, SourceTypes, WholeSource
  <2>5. KindsAt'
    BY <1>1, <2>1, <2>2, <2>3 DEF SourceInv, KindsAt, Srcs!Imports
  <2>6. PointerInv'
    BY <1>1, <1>3, <2>1, <2>2, <2>3 DEF SourceInv, PointerInv
  <2>7. ImportInv' /\ CoverInv'
    BY <1>1, <2>1, <2>2, <2>3, <2>4 DEF SourceInv, ImportInv, CoverInv
  <2> QED
    BY <2>4, <2>5, <2>6, <2>7 DEF SourceInv
<1> QED
  BY <1>5, <1>6

\* A request is told which file its cover has.
LEMMA ExtensionSet ==
    ASSUME SourceTypes, NEW e \in Exts, rq' = [rq EXCEPT ![r1].ext = e]
    PROVE  /\ rq' \in [{r1} -> SourceRequest] /\ rq'[r1].ext = e
           /\ rq'[r1].kind = rq[r1].kind /\ rq'[r1].new = rq[r1].new
<1> DEFINE q == [rq[r1] EXCEPT !.ext = e]
<1>1. rq[r1] \in SourceRequest /\ rq' = [rq EXCEPT ![r1] = q]
  BY DEF SourceTypes
<1>2. q \in SourceRequest /\ q.ext = e /\ q.kind = rq[r1].kind /\ q.new = rq[r1].new
  BY <1>1 DEF SourceRequest
<1> HIDE DEF q
<1> QED
  BY <1>1, <1>2 DEF SourceTypes

LEMMA SourcesImages == ASSUME SourceInv, Srcs!WriteImages(r1) PROVE SourceInv'
<1>1. /\ at[r1] = "assets" /\ rq[r1].kind \in {"epub", "cbz"} /\ WholeSource(rq[r1].new)
      /\ images' = images \cup {rq[r1].new} \/ (rq[r1].kind = "epub" /\ images' = images)
      /\ UNCHANGED <<place, sources, temps, bookJson, covers, begun>>
  BY DEF Srcs!WriteImages, Srcs!MayLackImages, SourceInv, KindsAt, ImportInv, Srcs!Imports
<1>2. Srcs!TypeOK' /\ images \subseteq images'
  BY <1>1 DEF SourceInv, SourceTypes, Srcs!TypeOK, WholeSource
<1>3. CASE rq[r1].kind = "cbz"
  <2>1. PICK e \in Exts : rq' = [rq EXCEPT ![r1].ext = e] /\ Srcs!Goto(r1, "coverFile")
    BY <1>3 DEF Srcs!WriteImages
  <2>2. at'[r1] = "coverFile" /\ at' \in [{r1} -> SourceSteps]
    BY <2>1, SourcesGoto DEF SourceInv, SourceSteps
  <2>3. /\ rq' \in [{r1} -> SourceRequest] /\ rq'[r1].ext = e
        /\ rq'[r1].kind = rq[r1].kind /\ rq'[r1].new = rq[r1].new
    BY <2>1, ExtensionSet DEF SourceInv
  <2>4. SourceTypes' /\ WholeSource(rq[r1].new)' /\ rq[r1].new \in images'
    BY <1>1, <1>2, <1>3, <2>2, <2>3 DEF SourceTypes, WholeSource
  <2>5. KindsAt'
    BY <1>1, <1>3, <2>2, <2>3 DEF SourceInv, KindsAt, Srcs!Imports
  <2>6. PointerInv' /\ CoverInv'
    BY <1>1, <1>3, <2>2, <2>3 DEF SourceInv, PointerInv, CoverInv, Srcs!Opens
  <2>7. ImportInv'
    BY <1>1, <1>3, <2>2, <2>3, <2>4 DEF SourceInv, ImportInv, WholeSource
  <2> QED
    BY <2>4, <2>5, <2>6, <2>7 DEF SourceInv
<1>4. CASE rq[r1].kind # "cbz"
  <2>1. UNCHANGED rq /\ at'[r1] = "open" /\ at' \in [{r1} -> SourceSteps]
    BY <1>4, SourcesGoto DEF Srcs!WriteImages, SourceInv, SourceSteps
  <2>2. SourceTypes'
    BY <1>2, <2>1 DEF SourceInv, SourceTypes
  <2>3. KindsAt'
    BY <1>1, <2>1 DEF SourceInv, KindsAt, Srcs!Imports
  <2>4. PointerInv' /\ CoverInv' /\ ImportInv'
    BY <1>1, <1>4, <2>1 DEF SourceInv, PointerInv, CoverInv, ImportInv, Srcs!Opens, WholeSource
  <2> QED
    BY <2>2, <2>3, <2>4 DEF SourceInv
<1> QED
  BY <1>3, <1>4

\* A step that leaves the package and the request as they are.
LEMMA SourcesMove ==
    ASSUME SourceInv, NEW label \in SourceSteps, Srcs!Goto(r1, label), at[r1] # "idle",
           UNCHANGED <<rq, place, sources, temps, images, bookJson, covers, begun>>,
           \/ at[r1] = "open" /\ label = "write" /\ Srcs!Opens(rq[r1].new)
           \/ at[r1] \in {"comment", "coverFile", "coverMeta"} /\ rq[r1].kind = "epub" /\ label = "meta"
           \/ at[r1] = "meta" /\ label = "list"
           \/ at[r1] = "reread" /\ label = "unlink" /\ bookJson.cover # rq[r1].prev
           \/ at[r1] = "check" /\ label = "remove" /\ Srcs!Opens(rq[r1].id) /\ rq[r1].id # bookJson.current
    PROVE  SourceInv'
<1>1. at'[r1] = label /\ at' \in [{r1} -> SourceSteps]
  BY SourcesGoto DEF SourceInv
<1>2. SourceTypes'
  BY <1>1 DEF SourceInv, SourceTypes, Srcs!TypeOK
<1>3. KindsAt'
  BY <1>1 DEF SourceInv, KindsAt, Srcs!Imports
<1>4. PointerInv'
  BY <1>1 DEF SourceInv, PointerInv, Srcs!Opens
<1>5. ImportInv' /\ CoverInv'
  BY <1>1 DEF SourceInv, ImportInv, CoverInv, WholeSource, KindsAt
<1> QED
  BY <1>2, <1>3, <1>4, <1>5 DEF SourceInv

LEMMA SourcesWrite == ASSUME SourceInv, Srcs!WriteCurrentSource(r1) PROVE SourceInv'
<1>1. /\ at[r1] = "write" /\ Srcs!Opens(rq[r1].new) /\ rq[r1].new \in SourceIds
      /\ bookJson' = [bookJson EXCEPT !.current = rq[r1].new]
      /\ UNCHANGED <<place, sources, temps, images, covers, begun>>
      /\ rq[r1].kind \in Srcs!Imports \cup {"create", "delete", "point"}
  BY DEF Srcs!WriteCurrentSource, SourceInv, KindsAt, PointerInv, Srcs!Opens
<1>2. bookJson'.current = rq[r1].new /\ bookJson'.cover = bookJson.cover /\ Srcs!TypeOK'
  BY <1>1 DEF SourceInv, SourceTypes, Srcs!TypeOK
<1>3. Srcs!Opens(bookJson.current)' /\ \A i : Srcs!Opens(i)' <=> Srcs!Opens(i)
  BY <1>1, <1>2 DEF Srcs!Opens
<1>4. CASE Srcs!AfterWrite(rq[r1]) = "idle"
  <2>1. rq[r1].kind \in {"create", "point"} /\ Srcs!Done(r1)
    BY <1>1, <1>4 DEF Srcs!AfterWrite, Srcs!WriteCurrentSource, Srcs!Imports
  <2>2. place' # "staged"
    BY <1>1, <2>1, EditsAreListed DEF Srcs!Imports
  <2> QED
    BY <1>2, <1>3, <2>1, <2>2, SourcesEnd
<1>5. CASE Srcs!AfterWrite(rq[r1]) # "idle"
  <2> DEFINE label == Srcs!AfterWrite(rq[r1])
  <2>1. UNCHANGED rq /\ Srcs!Goto(r1, label)
    BY <1>5 DEF Srcs!WriteCurrentSource
  <2>2. /\ label \in {"remove", "list", "meta", "comment"}
        /\ label = "remove" <=> rq[r1].kind = "delete"
        /\ label = "list" => rq[r1].kind = "blank"
        /\ label = "meta" => rq[r1].kind \in {"text", "cbz"}
        /\ label = "comment" => rq[r1].kind = "epub"
    BY <1>5 DEF Srcs!AfterWrite
  <2>3. at'[r1] = label /\ at' \in [{r1} -> SourceSteps]
    BY <2>1, <2>2, SourcesGoto DEF SourceInv, SourceSteps
  <2> HIDE DEF label
  <2>4. SourceTypes'
    BY <1>2, <2>1, <2>3 DEF SourceInv, SourceTypes
  <2>5. KindsAt'
    BY <1>1, <2>1, <2>2, <2>3 DEF SourceInv, KindsAt, Srcs!Imports
  <2>6. PointerInv'
    <3>1. label = "remove" => rq[r1].id \in SourceIds /\ rq[r1].id # rq[r1].new
      BY <1>1, <2>2 DEF SourceInv, PointerInv, Srcs!Opens
    <3> QED
      BY <1>1, <1>2, <1>3, <2>1, <2>2, <2>3, <3>1 DEF SourceInv, PointerInv
  <2>7. ImportInv' /\ CoverInv'
    BY <1>1, <1>2, <2>1, <2>2, <2>3 DEF SourceInv, ImportInv, CoverInv, WholeSource
  <2> QED
    BY <2>4, <2>5, <2>6, <2>7 DEF SourceInv
<1> QED
  BY <1>4, <1>5

LEMMA SourcesComment == ASSUME SourceInv, Srcs!CommentSource(r1) PROVE SourceInv'
<1>1. /\ at[r1] = "comment" /\ rq[r1].kind = "epub"
      /\ UNCHANGED <<place, sources, temps, images, bookJson, covers, begun>>
  BY DEF Srcs!CommentSource, Srcs!package, SourceInv, KindsAt
<1>2. CASE UNCHANGED rq /\ Srcs!Goto(r1, "meta")
  BY <1>1, <1>2, SourcesMove DEF SourceSteps
<1>3. ASSUME NEW e \in Exts, rq' = [rq EXCEPT ![r1].ext = e], Srcs!Goto(r1, "coverFile")
      PROVE  SourceInv'
  <2>1. at'[r1] = "coverFile" /\ at' \in [{r1} -> SourceSteps]
    BY <1>3, SourcesGoto DEF SourceInv, SourceSteps
  <2>2. /\ rq' \in [{r1} -> SourceRequest] /\ rq'[r1].ext = e
        /\ rq'[r1].kind = rq[r1].kind /\ rq'[r1].new = rq[r1].new
    BY <1>3, ExtensionSet DEF SourceInv
  <2>3. SourceTypes'
    BY <1>1, <2>1, <2>2 DEF SourceInv, SourceTypes, Srcs!TypeOK
  <2>4. KindsAt'
    BY <1>1, <2>1, <2>2 DEF SourceInv, KindsAt, Srcs!Imports
  <2>5. PointerInv' /\ ImportInv' /\ CoverInv'
    BY <1>1, <2>1, <2>2 DEF SourceInv, PointerInv, ImportInv, CoverInv, WholeSource, Srcs!Opens
  <2> QED
    BY <2>3, <2>4, <2>5 DEF SourceInv
<1> QED
  BY <1>2, <1>3 DEF Srcs!CommentSource

LEMMA SourcesList == ASSUME SourceInv, Srcs!ListBook(r1) PROVE SourceInv'
<1>1. /\ at[r1] = "list" /\ place' = "listed" /\ Srcs!Done(r1) /\ WholeSource(bookJson.current)
      /\ UNCHANGED <<sources, temps, images, bookJson, covers, begun>>
  BY DEF Srcs!ListBook, SourceInv, KindsAt, ImportInv
<1>2. Srcs!TypeOK' /\ Srcs!Opens(bookJson.current)'
  BY <1>1 DEF SourceInv, SourceTypes, Srcs!TypeOK, WholeSource, Srcs!Opens
<1> QED
  BY <1>1, <1>2, SourcesEnd

LEMMA SourcesCheck == ASSUME SourceInv, Srcs!CheckSource(r1) PROVE SourceInv'
<1>1. /\ at[r1] = "check" /\ rq[r1].kind = "delete" /\ Srcs!Opens(rq[r1].id) /\ rq[r1] \in SourceRequest
      /\ UNCHANGED <<place, sources, temps, images, bookJson, covers, begun>>
  BY DEF Srcs!CheckSource, Srcs!package, SourceInv, SourceTypes, KindsAt
<1>2. CASE rq[r1].id # bookJson.current
  BY <1>1, <1>2, SourcesMove DEF Srcs!CheckSource, Srcs!HandOver, SourceSteps
<1>3. CASE rq[r1].id = bookJson.current
  <2> DEFINE ids == Srcs!ListSource \ {rq[r1].id}
             next == Srcs!Newest(ids)
             q == [rq[r1] EXCEPT !.new = next]
  <2>1. Srcs!Goto(r1, IF next = None THEN "stage" ELSE "open") /\ rq' = [rq EXCEPT ![r1].new = next]
    BY <1>3 DEF Srcs!CheckSource, Srcs!HandOver
  <2>2. /\ next \in SourceIds \cup {None} /\ next # rq[r1].id
    <3>1. ids \in SUBSET SourceIds /\ rq[r1].id \in SourceIds
      BY <1>1 DEF Srcs!ListSource, Srcs!Opens
    <3>2. CASE ids = {}
      BY <3>1, <3>2, SourcesAssumption DEF Srcs!Newest
    <3>3. CASE ids # {}
      <4>1. next \in ids
        BY <3>1, <3>3, NewestIsOne
      <4> QED
        BY <3>1, <4>1
    <3> QED
      BY <3>2, <3>3
  <2> HIDE DEF next
  <2>3. q \in SourceRequest /\ q.kind = "delete" /\ q.id = rq[r1].id /\ q.new = next
    BY <1>1, <2>2 DEF SourceRequest
  <2>4. rq' = [rq EXCEPT ![r1] = q]
    BY <2>1 DEF SourceInv, SourceTypes
  <2> HIDE DEF q
  <2>5. at'[r1] = (IF next = None THEN "stage" ELSE "open") /\ at' \in [{r1} -> SourceSteps]
    BY <2>1, SourcesGoto DEF SourceInv, SourceSteps
  <2>6. SourceTypes' /\ rq'[r1] = q
    BY <1>1, <2>3, <2>4, <2>5 DEF SourceInv, SourceTypes, Srcs!TypeOK
  <2>7. KindsAt'
    BY <1>1, <2>3, <2>5, <2>6 DEF SourceInv, KindsAt, Srcs!Imports
  <2>8. PointerInv' /\ ImportInv' /\ CoverInv'
    BY <1>1, <2>2, <2>3, <2>5, <2>6 DEF SourceInv, PointerInv, ImportInv, CoverInv, Srcs!Opens, Srcs!Imports
  <2> QED
    BY <2>6, <2>7, <2>8 DEF SourceInv
<1> QED
  BY <1>2, <1>3

LEMMA SourcesRemove ==
    ASSUME SourceInv, Srcs!RemoveSource(r1) \/ Srcs!RemovePart(r1) PROVE SourceInv'
<1>1. /\ at[r1] = "remove" /\ rq[r1].kind = "delete" /\ rq[r1].id \in SourceIds
      /\ rq[r1].id # bookJson.current /\ UNCHANGED <<place, bookJson, covers, temps, begun>>
      /\ place = "listed" /\ Srcs!Opens(bookJson.current)
  BY EditsAreListed DEF Srcs!RemoveSource, Srcs!RemovePart, SourceInv, KindsAt, PointerInv, Srcs!Imports
<1>2. PICK d \in Srcs!Directories : sources' = [sources EXCEPT ![rq[r1].id] = d]
  BY DEF Srcs!RemoveSource, Srcs!RemovePart, Srcs!Directories
<1>3. Srcs!TypeOK' /\ Srcs!Opens(bookJson.current)'
  BY <1>1, <1>2 DEF Srcs!RemoveSource, Srcs!RemovePart, SourceInv, SourceTypes, Srcs!TypeOK, Srcs!Opens
<1>4. CASE Srcs!RemoveSource(r1)
  BY <1>1, <1>3, <1>4, SourcesEnd DEF Srcs!RemoveSource
<1>5. CASE Srcs!RemovePart(r1)
  <2>1. UNCHANGED <<at, rq>>
    BY <1>5 DEF Srcs!RemovePart
  <2>2. SourceTypes' /\ KindsAt'
    BY <1>1, <1>3, <2>1 DEF SourceInv, SourceTypes, KindsAt
  <2>3. PointerInv' /\ ImportInv' /\ CoverInv'
    BY <1>1, <1>3, <2>1 DEF SourceInv, PointerInv, ImportInv, CoverInv, Srcs!Imports
  <2> QED
    BY <2>2, <2>3 DEF SourceInv
<1> QED
  BY <1>4, <1>5

LEMMA SourcesCover ==
    ASSUME SourceInv, Srcs!WriteCover(r1) \/ Srcs!NameCover(r1) PROVE SourceInv'
<1>1. /\ at[r1] \in {"coverFile", "coverMeta"} /\ rq[r1].kind \in {"epub", "cbz", "cover"}
      /\ rq[r1].ext \in Exts /\ UNCHANGED <<place, sources, temps, images, begun>>
  BY DEF Srcs!WriteCover, Srcs!NameCover, SourceInv, KindsAt
<1>2. \A i : (Srcs!Opens(i)' <=> Srcs!Opens(i)) /\ (WholeSource(i)' <=> WholeSource(i))
  BY <1>1 DEF Srcs!Opens, WholeSource
<1>3. CASE Srcs!WriteCover(r1)
  <2>1. /\ at[r1] = "coverFile" /\ covers' = covers \cup {rq[r1].ext} /\ UNCHANGED <<rq, bookJson>>
        /\ at'[r1] = "coverMeta" /\ at' \in [{r1} -> SourceSteps]
    BY <1>3, SourcesGoto DEF Srcs!WriteCover, SourceInv, SourceSteps
  <2>2. SourceTypes' /\ covers \subseteq covers' /\ rq[r1].ext \in covers'
    BY <1>1, <2>1 DEF SourceInv, SourceTypes, Srcs!TypeOK
  <2>3. KindsAt'
    BY <1>1, <2>1 DEF SourceInv, KindsAt
  <2>4. PointerInv' /\ CoverInv'
    BY <1>1, <1>2, <2>1, <2>2 DEF SourceInv, PointerInv, CoverInv
  <2>5. ImportInv'
    BY <1>1, <1>2, <2>1, <2>2 DEF SourceInv, ImportInv
  <2> QED
    BY <2>2, <2>3, <2>4, <2>5 DEF SourceInv
<1>4. CASE Srcs!NameCover(r1)
  <2>1. /\ at[r1] = "coverMeta" /\ bookJson' = [bookJson EXCEPT !.cover = rq[r1].ext]
        /\ UNCHANGED covers /\ rq[r1].ext \in covers
    BY <1>4 DEF Srcs!NameCover, SourceInv, CoverInv
  <2>2. Srcs!TypeOK' /\ bookJson'.current = bookJson.current /\ bookJson'.cover = rq[r1].ext
    BY <1>1, <2>1 DEF SourceInv, SourceTypes, Srcs!TypeOK
  <2>3. rq[r1].ext # None
    BY <1>1, SourcesAssumption
  <2>4. CASE Srcs!AfterCover(rq[r1]) = "idle"
    <3>1. rq[r1].kind = "cover" /\ Srcs!Done(r1)
      BY <1>1, <1>4, <2>4 DEF Srcs!AfterCover, Srcs!NameCover
    <3>2. place = "listed" /\ Srcs!Opens(bookJson.current)'
      BY <1>1, <1>2, <2>2, <3>1, EditsAreListed DEF Srcs!Imports
    <3> QED
      BY <1>1, <2>2, <3>1, <3>2, SourcesEnd
  <2>5. CASE Srcs!AfterCover(rq[r1]) # "idle"
    <3> DEFINE label == Srcs!AfterCover(rq[r1])
    <3>1. UNCHANGED rq /\ Srcs!Goto(r1, label)
      BY <1>4, <2>5 DEF Srcs!NameCover
    <3>2. /\ label \in {"meta", "open", "reread"}
          /\ label = "meta" <=> rq[r1].kind = "epub"
          /\ label = "open" <=> rq[r1].kind = "cbz"
          /\ label = "reread" => rq[r1].kind = "cover"
      BY <1>1, <2>5 DEF Srcs!AfterCover
    <3>3. at'[r1] = label /\ at' \in [{r1} -> SourceSteps]
      BY <3>1, <3>2, SourcesGoto DEF SourceInv, SourceSteps
    <3> HIDE DEF label
    <3>4. SourceTypes'
      BY <2>2, <3>1, <3>3 DEF SourceInv, SourceTypes
    <3>5. KindsAt'
      BY <1>1, <2>1, <3>1, <3>2, <3>3 DEF SourceInv, KindsAt, Srcs!Imports
    <3>6. PointerInv' /\ CoverInv'
      BY <1>1, <1>2, <2>1, <2>2, <3>1, <3>2, <3>3 DEF SourceInv, PointerInv, CoverInv
    <3>7. ImportInv'
      BY <1>1, <1>2, <2>1, <2>2, <2>3, <3>1, <3>2, <3>3 DEF SourceInv, ImportInv
    <3> QED
      BY <3>4, <3>5, <3>6, <3>7 DEF SourceInv
  <2> QED
    BY <2>4, <2>5
<1> QED
  BY <1>3, <1>4

LEMMA SourcesUncover ==
    ASSUME SourceInv, \/ Srcs!RereadCover(r1) \/ Srcs!RemoveCover(r1)
                      \/ Srcs!DeleteCover(r1) \/ Srcs!UnnameCover(r1)
    PROVE  SourceInv'
<1>1. /\ at[r1] \in {"reread", "unlink", "unlinkCover", "unnameCover"} /\ rq[r1].kind \in {"cover", "uncover"}
      /\ UNCHANGED <<place, sources, temps, images, begun>>
  BY DEF Srcs!RereadCover, Srcs!RemoveCover, Srcs!DeleteCover, Srcs!UnnameCover, Srcs!package, SourceInv, KindsAt
<1>2. place = "listed" /\ Srcs!Opens(bookJson.current)
  BY <1>1, EditsAreListed DEF Srcs!Imports
<1>3. covers' \subseteq covers /\ bookJson' \in {bookJson, [bookJson EXCEPT !.cover = None]}
  BY DEF Srcs!RereadCover, Srcs!RemoveCover, Srcs!DeleteCover, Srcs!UnnameCover, Srcs!package
<1>4. Srcs!TypeOK' /\ bookJson'.current = bookJson.current
  BY <1>1, <1>3 DEF SourceInv, SourceTypes, Srcs!TypeOK
<1>5. Srcs!Opens(bookJson.current)'
  BY <1>1, <1>2, <1>4 DEF Srcs!Opens
<1>6. CASE Srcs!Done(r1)
  BY <1>1, <1>2, <1>4, <1>5, <1>6, SourcesEnd
<1>7. CASE Srcs!RereadCover(r1) /\ ~Srcs!Done(r1)
  BY <1>1, <1>7, SourcesMove DEF Srcs!RereadCover, Srcs!package, SourceSteps
<1>8. CASE Srcs!DeleteCover(r1)
  <2>1. /\ at[r1] = "unlinkCover" /\ UNCHANGED <<rq, bookJson>>
        /\ at'[r1] = "unnameCover" /\ at' \in [{r1} -> SourceSteps]
    BY <1>8, SourcesGoto DEF Srcs!DeleteCover, SourceInv, SourceSteps
  <2>2. SourceTypes' /\ KindsAt'
    BY <1>1, <1>2, <1>4, <2>1 DEF SourceInv, SourceTypes, KindsAt
  <2>3. PointerInv' /\ ImportInv' /\ CoverInv'
    BY <1>1, <1>2, <1>5, <2>1, <2>2 DEF SourceInv, PointerInv, ImportInv, CoverInv, KindsAt, Srcs!Imports
  <2> QED
    BY <2>2, <2>3 DEF SourceInv
<1> QED
  BY <1>6, <1>7, <1>8 DEF Srcs!RemoveCover, Srcs!UnnameCover

LEMMA EmptyPackageTypes ==
    ASSUME Srcs!TypeOK, Srcs!EmptyPackage("absent"), UNCHANGED begun
    PROVE  Srcs!TypeOK' /\ place' = "absent"
BY DEF Srcs!EmptyPackage, Srcs!TypeOK, Srcs!NoBook, Srcs!Directories

LEMMA SourcesFail == ASSUME SourceInv, Srcs!Fail(r1) PROVE SourceInv'
<1>1. at[r1] # "idle" /\ UNCHANGED begun /\ Srcs!TypeOK /\ rq[r1] \in SourceRequest
  BY DEF Srcs!Fail, SourceInv, SourceTypes
<1>2. CASE rq[r1].kind \in Srcs!Imports
  <2>1. CASE rq[r1].kind = "epub" /\ at[r1] \in {"coverFile", "coverMeta"}
    BY <1>1, <1>2, <2>1, SourcesMove DEF Srcs!Fail, Srcs!package, SourceSteps
  <2>2. CASE ~(rq[r1].kind = "epub" /\ at[r1] \in {"coverFile", "coverMeta"})
    <3>1. Srcs!Done(r1) /\ Srcs!EmptyPackage("absent")
      BY <1>2, <2>2 DEF Srcs!Fail
    <3> QED
      BY <1>1, <3>1, EmptyPackageTypes, SourcesEnd
  <2> QED
    BY <2>1, <2>2
<1>3. CASE rq[r1].kind \notin Srcs!Imports
  <2>1. place = "listed" /\ Srcs!Opens(bookJson.current)
    BY <1>1, <1>3, EditsAreListed
  <2>2. temps' \subseteq temps /\ UNCHANGED <<place, sources, images, bookJson, covers, begun>>
    BY <1>3 DEF Srcs!Fail
  <2>3. Srcs!TypeOK' /\ Srcs!Opens(bookJson.current)'
    BY <2>1, <2>2 DEF SourceInv, SourceTypes, Srcs!TypeOK, Srcs!Opens
  <2>4. CASE rq[r1].kind = "create" /\ at[r1] \in {"open", "write"}
    <3> DEFINE q == [Srcs!NoRequest EXCEPT !.kind = "delete", !.id = rq[r1].new]
    <3>1. Srcs!Goto(r1, "check") /\ rq' = [rq EXCEPT ![r1] = q]
      BY <1>3, <2>4 DEF Srcs!Fail
    <3>2. q \in SourceRequest /\ q.kind = "delete"
      BY <1>1 DEF SourceRequest, Srcs!NoRequest, Srcs!Operations
    <3> HIDE DEF q
    <3>3. at'[r1] = "check" /\ at' \in [{r1} -> SourceSteps]
      BY <3>1, SourcesGoto DEF SourceInv, SourceSteps
    <3>4. SourceTypes' /\ rq'[r1] = q
      BY <2>3, <3>1, <3>2, <3>3 DEF SourceInv, SourceTypes
    <3>5. KindsAt'
      BY <2>1, <2>2, <3>2, <3>3, <3>4 DEF KindsAt, Srcs!Imports
    <3>6. PointerInv' /\ ImportInv' /\ CoverInv'
      BY <2>1, <2>2, <2>3, <3>2, <3>3, <3>4 DEF PointerInv, ImportInv, CoverInv, Srcs!Imports
    <3> QED
      BY <3>4, <3>5, <3>6 DEF SourceInv
  <2>5. CASE ~(rq[r1].kind = "create" /\ at[r1] \in {"open", "write"})
    BY <1>3, <2>1, <2>2, <2>3, <2>5, SourcesEnd DEF Srcs!Fail
  <2> QED
    BY <2>4, <2>5
<1> QED
  BY <1>2, <1>3

LEMMA SourcesCrash == ASSUME SourceInv, Srcs!Crash PROVE SourceInv'
<1>1. Srcs!Done(r1)
  <2>1. /\ at' = [r \in {r1} |-> "idle"] /\ rq' = [r \in {r1} |-> Srcs!NoRequest]
        /\ at \in [{r1} -> SourceSteps] /\ rq \in [{r1} -> SourceRequest]
    BY DEF Srcs!Crash, SourceInv, SourceTypes
  <2> QED
    BY <2>1 DEF Srcs!Done, Srcs!Goto
<1>2. CASE place = "staged"
  BY <1>1, <1>2, EmptyPackageTypes, SourcesEnd DEF Srcs!Crash, SourceInv, SourceTypes
<1>3. CASE place # "staged"
  <2>1. UNCHANGED <<place, sources, temps, images, bookJson, covers, begun>>
    BY <1>3 DEF Srcs!Crash, Srcs!package
  <2>2. Srcs!TypeOK' /\ (place' = "listed" => Srcs!Opens(bookJson.current)')
    BY <2>1 DEF SourceInv, SourceTypes, Srcs!TypeOK, PointerInv, Srcs!Opens
  <2> QED
    BY <1>1, <1>3, <2>1, <2>2, SourcesEnd
<1> QED
  BY <1>2, <1>3

LEMMA SourcesNext == ASSUME SourceInv, Srcs!Next PROVE SourceInv'
<1>1. CASE Srcs!GetSource(r1)
  BY <1>1, SourcesMove DEF Srcs!GetSource, Srcs!package, SourceSteps
<1>2. CASE Srcs!WriteMeta(r1)
  BY <1>2, SourcesMove DEF Srcs!WriteMeta, Srcs!package, SourceSteps
<1> QED
  BY <1>1, <1>2, SourcesCrash, SourcesBegin, SourcesStage, SourcesPublish, SourcesImages, SourcesWrite,
     SourcesComment, SourcesList, SourcesCheck, SourcesRemove, SourcesCover, SourcesUncover, SourcesFail
  DEF Srcs!Next, Srcs!Step

LEMMA CurrentFollows == ASSUME SourceInv PROVE Srcs!TypeOK /\ Srcs!CurrentIsThere
BY DEF SourceInv, SourceTypes, PointerInv, Srcs!CurrentIsThere, Srcs!ResolveCurrentSource

LEMMA ImportsFollow == ASSUME SourceInv, Srcs!Next PROVE Srcs!ImportsWhole
BY DEF SourceInv, KindsAt, ImportInv, WholeSource, Srcs!ImportsWhole, Srcs!Imports

\* What a step may do to the covers of a listed book.
LEMMA CoversFollow == ASSUME SourceInv, Srcs!Next PROVE Srcs!KeepsCover
<1> SUFFICES ASSUME place = "listed", bookJson.cover \in covers, bookJson'.cover \notin covers',
                    at[r1] \notin {"unlinkCover", "unnameCover"}
             PROVE  FALSE
  BY DEF Srcs!KeepsCover
<1>1. rq[r1].kind \notin Srcs!Imports
  BY DEF SourceInv, KindsAt
<1>2. CASE Srcs!Crash \/ Srcs!Fail(r1)
  BY <1>1, <1>2 DEF Srcs!Crash, Srcs!Fail, Srcs!package
<1>3. CASE Srcs!Begin(r1)
  BY <1>3 DEF Srcs!Begin, Srcs!Import, Srcs!Edit, Srcs!package
<1>4. CASE Srcs!WriteCover(r1) \/ Srcs!NameCover(r1)
  BY <1>4 DEF Srcs!WriteCover, Srcs!NameCover, SourceInv, CoverInv, SourceTypes, Srcs!TypeOK
<1>5. CASE Srcs!RemoveCover(r1)
  BY <1>5 DEF Srcs!RemoveCover, SourceInv, CoverInv
<1>6. CASE Srcs!WriteCurrentSource(r1)
  BY <1>6 DEF Srcs!WriteCurrentSource, SourceInv, SourceTypes, Srcs!TypeOK
<1>7. CASE Srcs!DeleteCover(r1) \/ Srcs!UnnameCover(r1)
  BY <1>7 DEF Srcs!DeleteCover, Srcs!UnnameCover
<1>8. CASE \/ Srcs!StageSource(r1) \/ Srcs!PublishSource(r1) \/ Srcs!WriteImages(r1) \/ Srcs!GetSource(r1)
           \/ Srcs!CommentSource(r1) \/ Srcs!WriteMeta(r1) \/ Srcs!ListBook(r1) \/ Srcs!CheckSource(r1)
           \/ Srcs!RemoveSource(r1) \/ Srcs!RemovePart(r1) \/ Srcs!RereadCover(r1)
  BY <1>8
  DEF Srcs!StageSource, Srcs!PublishSource, Srcs!WriteImages, Srcs!GetSource, Srcs!CommentSource,
      Srcs!WriteMeta, Srcs!ListBook, Srcs!CheckSource, Srcs!RemoveSource, Srcs!RemovePart,
      Srcs!RereadCover, Srcs!package
<1> QED
  BY <1>2, <1>3, <1>4, <1>5, <1>6, <1>7, <1>8 DEF Srcs!Next, Srcs!Step

LEMMA SourcesInvariant == MCSpec => [](part = "sources" => SourceInv)
<1> DEFINE Inv == part = "sources" => SourceInv
<1>1. MCInit => Inv
  BY SourcesInit DEF MCInit
<1>2. ASSUME Inv, [MCNext]_bookvars PROVE Inv'
  <2>1. CASE part = "sources" /\ Srcs!Next /\ UNCHANGED part
    BY <1>2, <2>1, SourcesNext
  <2>2. CASE UNCHANGED <<part, sourcevars>>
    BY <1>2, <2>2
    DEF sourcevars, SourceInv, SourceTypes, Srcs!TypeOK, KindsAt, PointerInv, ImportInv, CoverInv,
        Srcs!Opens, WholeSource
  <2>3. CASE part # "sources" /\ UNCHANGED part
    BY <2>3
  <2> QED
    BY <1>2, <2>1, <2>2, <2>3 DEF MCNext, bookvars
<1> QED
  BY <1>1, <1>2, PTL DEF MCSpec, bookvars

\* For any number of sources, covers and requests one after another, wherever one fails or the
\* process ends, current_source of a listed book names a source that opens (handOverCurrentSource,
\* NewSourceWithOptions, NewBookWith).
THEOREM CurrentSourceOpens == MCSpec => []CurrentIsThere
<1>1. (part = "sources" => SourceInv) => CurrentIsThere
  BY CurrentFollows DEF CurrentIsThere
<1> QED
  BY <1>1, SourcesInvariant, PTL

\* For any number of them too, an import lists a book only when it is whole, and only DeleteCover
\* takes a cover away (newPlainTextBook, importCBZ, SetCover).
THEOREM ImportsAndCoversWhole == MCSpec => BooksStayWhole
<1>1. ASSUME part = "sources" => SourceInv, [MCNext]_bookvars
      PROVE  [part = "sources" => Srcs!ImportsWhole /\ Srcs!KeepsCover]_sourcevars
  BY <1>1, ImportsFollow, CoversFollow DEF MCNext, bookvars
<1> QED
  BY <1>1, SourcesInvariant, PTL DEF MCSpec, bookvars, BooksStayWhole

-----------------------------------------------------------------------------
(* Fingerprints.                                                           *)

SourceFile == [content : Left, mtime : Nat]
IndexEntry == [mtime : Nat, md5 : Left, seenAt : Nat]
PrintIndex == UNION {[D -> IndexEntry] : D \in SUBSET PrintedBooks}
TaskRun ==
    [pc : {"idle", "books", "stat", "read", "record", "save"}, index : PrintIndex, entries : SUBSET Left,
     answered : SUBSET Left, todo : SUBSET PrintedBooks, force : BOOLEAN, book : PrintedBooks \cup {None},
     stat : Nat \cup {None}, readAt : Nat, content : Left \cup {None}]

PrintTypes ==
    /\ now \in Nat
    /\ source \in [PrintedBooks -> SourceFile \cup {None}]
    /\ temp \in [PrintedBooks -> SourceFile \cup {None}]
    /\ stored \in [index : PrintIndex, entries : SUBSET Left]
    /\ task \in [Right -> TaskRun]

\* A file that is about to be renamed into place is not yet settled.
TempsAreNew == \A x \in PrintedBooks : temp[x] # None => now <= temp[x].mtime + RacyWindow

\* A time stands for a content in each index, and no file to come will have that time.
Telling(index) ==
    \A x \in DOMAIN index :
        /\ index[x].mtime + RacyWindow < now
        /\ source[x] # None /\ source[x].mtime = index[x].mtime => index[x].md5 = source[x].content
AllTelling == Telling(stored.index) /\ \A m \in Right : Telling(task[m].index)

\* The sketch of what an index names is kept with it.
Sketched(index, entries) == \A x \in DOMAIN index : index[x].md5 \in entries
AllSketched ==
    /\ Sketched(stored.index, stored.entries)
    /\ \A m \in Right : Sketched(task[m].index, task[m].entries)

\* What a task holds between Stat and record.
Holding(t) ==
    /\ t.pc \in {"stat", "read", "record"} => t.book \in PrintedBooks
    /\ t.readAt <= now
    /\ t.pc = "record" =>
          /\ t.content \in Left
          /\ /\ t.stat # None /\ t.stat + RacyWindow < t.readAt
             /\ source[t.book] # None /\ source[t.book].mtime = t.stat
             => t.content = source[t.book].content
Reading == \A m \in Right : Holding(task[m])

PrintInv == PrintTypes /\ TempsAreNew /\ AllTelling /\ AllSketched /\ Reading

LEMMA EmptyIndex == <<>> \in PrintIndex /\ DOMAIN <<>> = {}
<1>1. DOMAIN <<>> = {} /\ <<>> \in [{} -> IndexEntry]
  OBVIOUS
<1> QED
  BY <1>1 DEF PrintIndex

LEMMA IdleIsRun == Prints!Idle \in TaskRun /\ Prints!Idle.index = <<>> /\ Prints!Idle.readAt = 0
                   /\ Prints!Idle.pc = "idle"
BY EmptyIndex DEF Prints!Idle, TaskRun

LEMMA PrintsInit == Prints!Init => PrintInv
<1> SUFFICES ASSUME Prints!Init PROVE PrintInv
  OBVIOUS
<1> USE TimesAssumption
<1>1. PICK c \in Left : source = [x \in PrintedBooks |-> [content |-> c, mtime |-> 0]]
  BY DEF Prints!Init
<1>2. now = 0 /\ temp = [x \in PrintedBooks |-> None] /\ stored = Prints!Empty
      /\ task = [m \in Right |-> Prints!Idle]
  BY DEF Prints!Init
<1>3. stored \in [index : PrintIndex, entries : SUBSET Left] /\ stored.index = <<>>
  BY <1>2, EmptyIndex DEF Prints!Empty
<1>4. PrintTypes
  BY <1>1, <1>2, <1>3, IdleIsRun DEF PrintTypes, SourceFile
<1>5. AllTelling /\ AllSketched
  BY <1>2, <1>3, IdleIsRun, EmptyIndex DEF AllTelling, AllSketched, Telling, Sketched
<1>6. TempsAreNew /\ Reading
  BY <1>2, IdleIsRun DEF TempsAreNew, Reading, Holding
<1> QED
  BY <1>4, <1>5, <1>6 DEF PrintInv

\* Time passes, and files are written and go: no index comes to tell the wrong content.
LEMMA FilesChange ==
    ASSUME PrintInv, UNCHANGED <<stored, task>>, now' \in Nat, now <= now',
           source' \in [PrintedBooks -> SourceFile \cup {None}],
           temp' \in [PrintedBooks -> SourceFile \cup {None}], TempsAreNew',
           \A x \in PrintedBooks : source'[x] # None =>
              source'[x] = source[x] \/ now <= source'[x].mtime + RacyWindow
    PROVE  PrintInv'
<1> USE TimesAssumption
<1>1. PrintTypes'
  BY DEF PrintInv, PrintTypes
<1>2. ASSUME NEW index \in PrintIndex, Telling(index) PROVE Telling(index)'
  <2> SUFFICES ASSUME NEW x \in DOMAIN index
               PROVE  /\ index[x].mtime + RacyWindow < now'
                      /\ source'[x] # None /\ source'[x].mtime = index[x].mtime
                            => index[x].md5 = source'[x].content
    BY DEF Telling
  <2>1. x \in PrintedBooks /\ index[x] \in IndexEntry
    BY <1>2 DEF PrintIndex
  <2>2. index[x].mtime \in Nat /\ index[x].mtime + RacyWindow < now
    BY <1>2, <2>1 DEF Telling, IndexEntry
  <2>3. index[x].mtime + RacyWindow < now'
    BY <2>2 DEF PrintInv, PrintTypes
  <2>4. ASSUME source'[x] # None, source'[x].mtime = index[x].mtime PROVE index[x].md5 = source'[x].content
    <3>1. source'[x] = source[x]
      BY <2>1, <2>2, <2>4 DEF PrintInv, PrintTypes
    <3> QED
      BY <1>2, <2>4, <3>1 DEF Telling
  <2> QED
    BY <2>3, <2>4
<1>3. stored.index \in PrintIndex /\ \A m \in Right : task[m].index \in PrintIndex
  BY DEF PrintInv, PrintTypes, TaskRun
<1>4. AllTelling' /\ AllSketched'
  BY <1>2, <1>3 DEF PrintInv, AllTelling, AllSketched, Sketched, Telling
<1>5. Reading'
  <2> SUFFICES ASSUME NEW m \in Right
               PROVE  /\ task[m].pc \in {"stat", "read", "record"} => task[m].book \in PrintedBooks
                      /\ task[m].readAt <= now'
                      /\ task[m].pc = "record" =>
                            /\ task[m].content \in Left
                            /\ /\ task[m].stat # None /\ task[m].stat + RacyWindow < task[m].readAt
                               /\ source'[task[m].book] # None /\ source'[task[m].book].mtime = task[m].stat
                               => task[m].content = source'[task[m].book].content
    BY DEF Reading, Holding
  <2>1. task[m].readAt \in Nat /\ task[m].stat \in Nat \cup {None} /\ task[m].readAt <= now
    BY DEF PrintInv, PrintTypes, TaskRun, Reading, Holding
  <2>2. task[m].readAt <= now'
    BY <2>1 DEF PrintInv, PrintTypes
  <2>3. ASSUME task[m].pc = "record", task[m].stat # None, task[m].stat + RacyWindow < task[m].readAt,
               source'[task[m].book] # None, source'[task[m].book].mtime = task[m].stat
        PROVE  task[m].content = source'[task[m].book].content
    <3>1. task[m].book \in PrintedBooks /\ now \in Nat
      BY <2>3 DEF PrintInv, Reading, Holding, PrintTypes
    <3>2. source'[task[m].book] = source[task[m].book]
      BY <2>1, <2>3, <3>1
    <3> QED
      BY <2>3, <3>2 DEF PrintInv, Reading, Holding
  <2> QED
    BY <2>2, <2>3 DEF PrintInv, Reading, Holding
<1> QED
  BY <1>1, <1>4, <1>5 DEF PrintInv


LEMMA PrintsFiles ==
    ASSUME PrintInv, Prints!Tick \/ \E x \in PrintedBooks : Prints!WriteTemp(x) \/ Prints!UpdateContent(x) \/ Prints!DeleteBook(x)
    PROVE  PrintInv'
<1> USE TimesAssumption
<1>1. now \in Nat /\ source \in [PrintedBooks -> SourceFile \cup {None}]
      /\ temp \in [PrintedBooks -> SourceFile \cup {None}] /\ TempsAreNew
  BY DEF PrintInv, PrintTypes
<1>2. \A x \in PrintedBooks : /\ temp[x] # None => temp[x].mtime \in Nat
                              /\ source[x] # None => source[x].mtime \in Nat
  BY <1>1 DEF SourceFile
<1>3. CASE Prints!Tick
  <2>1. now' = now + 1 /\ UNCHANGED <<source, temp, stored, task>>
        /\ \A x \in PrintedBooks : temp[x] # None => now < temp[x].mtime + RacyWindow
    BY <1>3 DEF Prints!Tick
  <2>2. TempsAreNew'
    BY <1>1, <1>2, <2>1 DEF TempsAreNew
  <2> QED
    BY <1>1, <2>1, <2>2, FilesChange
<1>4. ASSUME NEW x \in PrintedBooks, Prints!WriteTemp(x) PROVE PrintInv'
  <2>1. PICK c \in Left : temp' = [temp EXCEPT ![x] = [content |-> c, mtime |-> now]]
    BY <1>4 DEF Prints!WriteTemp
  <2>2. UNCHANGED <<now, source, stored, task>>
    BY <1>4 DEF Prints!WriteTemp
  <2>3. temp' \in [PrintedBooks -> SourceFile \cup {None}] /\ TempsAreNew'
    BY <1>1, <1>2, <2>1, <2>2 DEF TempsAreNew, SourceFile
  <2> QED
    BY <1>1, <2>2, <2>3, FilesChange
<1>5. ASSUME NEW x \in PrintedBooks, Prints!UpdateContent(x) PROVE PrintInv'
  <2>1. /\ temp[x] # None /\ source' = [source EXCEPT ![x] = temp[x]]
        /\ temp' = [temp EXCEPT ![x] = None] /\ UNCHANGED <<now, stored, task>>
    BY <1>5 DEF Prints!UpdateContent
  <2>2. temp' \in [PrintedBooks -> SourceFile \cup {None}] /\ TempsAreNew'
    BY <1>1, <1>2, <2>1 DEF TempsAreNew
  <2>3. source' \in [PrintedBooks -> SourceFile \cup {None}]
        /\ \A y \in PrintedBooks : source'[y] = source[y] \/ now <= source'[y].mtime + RacyWindow
    BY <1>1, <2>1 DEF TempsAreNew
  <2> QED
    BY <1>1, <2>1, <2>2, <2>3, FilesChange
<1>6. ASSUME NEW x \in PrintedBooks, Prints!DeleteBook(x) PROVE PrintInv'
  <2>1. /\ source' = [source EXCEPT ![x] = None] /\ temp' = [temp EXCEPT ![x] = None]
        /\ UNCHANGED <<now, stored, task>>
    BY <1>6 DEF Prints!DeleteBook
  <2>2. temp' \in [PrintedBooks -> SourceFile \cup {None}] /\ TempsAreNew'
    BY <1>1, <1>2, <2>1 DEF TempsAreNew
  <2>3. source' \in [PrintedBooks -> SourceFile \cup {None}]
        /\ \A y \in PrintedBooks : source'[y] # None => source'[y] = source[y]
    BY <1>1, <2>1
  <2> QED
    BY <1>1, <2>1, <2>2, <2>3, FilesChange
<1> QED
  BY <1>3, <1>4, <1>5, <1>6

\* A step of one task, with what it leaves in the shared file.
LEMMA PrintsTask ==
    ASSUME PrintInv, NEW m \in Right, NEW t \in TaskRun, Prints!Step(m, t),
           UNCHANGED <<now, source, temp>>, stored' \in [index : PrintIndex, entries : SUBSET Left],
           Telling(stored'.index), Sketched(stored'.index, stored'.entries),
           Telling(t.index), Sketched(t.index, t.entries), Holding(t)
    PROVE  PrintInv'
<1>1. task' = [task EXCEPT ![m] = t]
  BY DEF Prints!Step
<1>2. PrintTypes' /\ TempsAreNew'
  BY <1>1 DEF PrintInv, PrintTypes, TempsAreNew
<1>3. \A n \in Right : task'[n] = t \/ task'[n] = task[n]
  BY <1>1 DEF PrintInv, PrintTypes
<1>4. \A n \in Right : Telling(task'[n].index) /\ Sketched(task'[n].index, task'[n].entries) /\ Holding(task'[n])
  BY <1>3 DEF PrintInv, AllTelling, AllSketched, Reading
<1>5. AllTelling' /\ AllSketched'
  BY <1>4 DEF AllTelling, AllSketched, Telling, Sketched
<1>6. Reading'
  BY <1>4 DEF Reading, Holding
<1> QED
  BY <1>2, <1>5, <1>6 DEF PrintInv

LEMMA PrintsRun == ASSUME PrintInv, NEW m \in Right, Prints!Run(m) PROVE PrintInv'
<1>1. PICK force \in BOOLEAN :
        Prints!Step(m, [Prints!Idle EXCEPT !.pc = "books", !.todo = Prints!Live, !.force = force,
                            !.index = stored.index, !.entries = stored.entries])
  BY DEF Prints!Run
<1> DEFINE t == [Prints!Idle EXCEPT !.pc = "books", !.todo = Prints!Live, !.force = force,
                            !.index = stored.index, !.entries = stored.entries]
<1>2. stored \in [index : PrintIndex, entries : SUBSET Left] /\ now \in Nat
  BY DEF PrintInv, PrintTypes
<1>3. t \in TaskRun /\ t.index = stored.index /\ t.entries = stored.entries /\ t.pc = "books" /\ t.readAt = 0
  BY <1>2, IdleIsRun DEF Prints!Idle, TaskRun, Prints!Live
<1> HIDE DEF t
<1>4. Telling(stored.index) /\ Sketched(stored.index, stored.entries)
  BY DEF PrintInv, AllTelling, AllSketched
<1>5. Telling(t.index) /\ Sketched(t.index, t.entries) /\ Holding(t)
  BY <1>2, <1>3, <1>4 DEF Holding
<1>6. Prints!Step(m, t)
  BY <1>1 DEF t
<1> QED
  BY <1>2, <1>3, <1>4, <1>5, <1>6, PrintsTask DEF Prints!Run

\* A step that keeps the task's own cache.
LEMMA PrintsKeep ==
    ASSUME PrintInv, NEW m \in Right, NEW t \in TaskRun, Prints!Step(m, t),
           UNCHANGED <<now, source, temp, stored>>,
           t.index = task[m].index, t.entries = task[m].entries, Holding(t)
    PROVE  PrintInv'
<1>1. /\ stored \in [index : PrintIndex, entries : SUBSET Left]
      /\ Telling(stored.index) /\ Sketched(stored.index, stored.entries)
      /\ Telling(t.index) /\ Sketched(t.index, t.entries)
  BY DEF PrintInv, PrintTypes, AllTelling, AllSketched
<1> QED
  BY <1>1, PrintsTask

LEMMA PrintsFingerprint == ASSUME PrintInv, NEW m \in Right, Prints!FingerprintBook(m) PROVE PrintInv'
<1>1. task[m].pc = "books" /\ UNCHANGED <<now, source, temp, stored>>
  BY DEF Prints!FingerprintBook
<1>2. PICK x \in task[m].todo :
        \/ source[x] = None /\ Prints!Step(m, [task[m] EXCEPT !.todo = @ \ {x}, !.book = x])
        \/ /\ source[x] # None
           /\ \E st \in {source[x].mtime, None} :
                 Prints!Step(m, [[task[m] EXCEPT !.todo = @ \ {x}, !.book = x] EXCEPT !.pc = "stat", !.stat = st])
  BY DEF Prints!FingerprintBook
<1>3. task[m] \in TaskRun /\ x \in PrintedBooks /\ source[x] \in SourceFile \cup {None} /\ now \in Nat
      /\ Holding(task[m])
  BY <1>2 DEF PrintInv, PrintTypes, TaskRun, Reading
<1> DEFINE next == [task[m] EXCEPT !.todo = @ \ {x}, !.book = x]
<1>4. /\ next \in TaskRun /\ next.index = task[m].index /\ next.entries = task[m].entries
      /\ next.pc = "books" /\ next.book = x /\ next.readAt = task[m].readAt
  BY <1>1, <1>3 DEF TaskRun
<1>5. CASE Prints!Step(m, next)
  BY <1>1, <1>3, <1>4, <1>5, PrintsKeep DEF Holding
<1>6. ASSUME source[x] # None, NEW st \in {source[x].mtime, None},
             Prints!Step(m, [next EXCEPT !.pc = "stat", !.stat = st])
      PROVE  PrintInv'
  <2> DEFINE t == [next EXCEPT !.pc = "stat", !.stat = st]
  <2>1. st \in Nat \cup {None}
    BY <1>3, <1>6 DEF SourceFile
  <2> HIDE DEF next
  <2>2. /\ t \in TaskRun /\ t.index = task[m].index /\ t.entries = task[m].entries
        /\ t.pc = "stat" /\ t.book = x /\ t.readAt = task[m].readAt
    BY <1>4, <2>1 DEF TaskRun
  <2>3. Prints!Step(m, t)
    BY <1>6
  <2> HIDE DEF t
  <2> QED
    BY <1>1, <1>3, <2>2, <2>3, PrintsKeep DEF Holding
<1> QED
  BY <1>2, <1>5, <1>6

LEMMA PrintsLookup == ASSUME PrintInv, NEW m \in Right, Prints!LookupByStat(m) PROVE PrintInv'
<1>1. task[m].pc = "stat" /\ UNCHANGED <<now, source, temp, stored>>
  BY DEF Prints!LookupByStat
<1>2. task[m] \in TaskRun /\ now \in Nat /\ Holding(task[m])
  BY DEF PrintInv, PrintTypes, Reading
<1>3. CASE Prints!Known(task[m])
  <2> DEFINE t == [task[m] EXCEPT !.pc = "books"]
  <2>1. Prints!Step(m, t)
    BY <1>3 DEF Prints!LookupByStat
  <2>2. /\ t \in TaskRun /\ t.index = task[m].index /\ t.entries = task[m].entries
        /\ t.pc = "books" /\ t.readAt = task[m].readAt
    BY <1>2 DEF TaskRun
  <2> HIDE DEF t
  <2> QED
    BY <1>1, <1>2, <2>1, <2>2, PrintsKeep DEF Holding
<1>4. CASE ~Prints!Known(task[m])
  <2> DEFINE t == [task[m] EXCEPT !.pc = "read", !.readAt = now]
  <2>1. Prints!Step(m, t)
    BY <1>4 DEF Prints!LookupByStat
  <2>2. /\ t \in TaskRun /\ t.index = task[m].index /\ t.entries = task[m].entries
        /\ t.pc = "read" /\ t.readAt = now /\ t.book = task[m].book
    BY <1>2 DEF TaskRun
  <2> HIDE DEF t
  <2> QED
    BY <1>1, <1>2, <2>1, <2>2, PrintsKeep DEF Holding
<1> QED
  BY <1>3, <1>4

LEMMA PrintsRead == ASSUME PrintInv, NEW m \in Right, Prints!ReadContent(m) PROVE PrintInv'
<1>1. task[m].pc = "read" /\ UNCHANGED <<now, source, temp, stored>>
  BY DEF Prints!ReadContent
<1>2. task[m] \in TaskRun /\ now \in Nat /\ Holding(task[m]) /\ task[m].book \in PrintedBooks
      /\ source \in [PrintedBooks -> SourceFile \cup {None}]
  BY <1>1 DEF PrintInv, PrintTypes, Reading, Holding
<1>3. CASE source[task[m].book] = None
  <2> DEFINE t == [task[m] EXCEPT !.pc = "books"]
  <2>1. Prints!Step(m, t)
    BY <1>3 DEF Prints!ReadContent
  <2>2. /\ t \in TaskRun /\ t.index = task[m].index /\ t.entries = task[m].entries
        /\ t.pc = "books" /\ t.readAt = task[m].readAt
    BY <1>2 DEF TaskRun
  <2> HIDE DEF t
  <2> QED
    BY <1>1, <1>2, <2>1, <2>2, PrintsKeep DEF Holding
<1>4. CASE source[task[m].book] # None
  <2> DEFINE t == [task[m] EXCEPT !.pc = "record", !.content = source[task[m].book].content]
  <2>1. Prints!Step(m, t)
    BY <1>4 DEF Prints!ReadContent
  <2>2. source[task[m].book].content \in Left
    BY <1>2, <1>4 DEF SourceFile
  <2>3. /\ t \in TaskRun /\ t.index = task[m].index /\ t.entries = task[m].entries
        /\ t.pc = "record" /\ t.readAt = task[m].readAt /\ t.book = task[m].book
        /\ t.content = source[task[m].book].content
    BY <1>2, <2>2 DEF TaskRun
  <2> HIDE DEF t
  <2> QED
    BY <1>1, <1>2, <2>1, <2>2, <2>3, PrintsKeep DEF Holding
<1> QED
  BY <1>3, <1>4

\* The entry of a source that was read: the recorded time is its stat, whichever entry is kept.
LEMMA ObservedEntry ==
    ASSUME NEW t \in TaskRun, t.stat \in Nat, t.content \in Left
    PROVE  /\ Prints!Observed(t) \in IndexEntry
           /\ Prints!Observed(t).mtime = t.stat /\ Prints!Observed(t).md5 = t.content
<1> DEFINE old == IF t.book \in DOMAIN t.index THEN t.index[t.book] ELSE None
           e == [mtime |-> t.stat, md5 |-> t.content, seenAt |-> t.readAt]
<1>1. Prints!Observed(t) = IF old # None /\ old.mtime = e.mtime /\ old.md5 = e.md5 THEN old ELSE e
  BY DEF Prints!Observed
<1>2. e \in IndexEntry /\ e.mtime = t.stat /\ e.md5 = t.content
  BY DEF TaskRun, IndexEntry
<1>3. old # None => old \in IndexEntry
  BY DEF TaskRun, PrintIndex
<1> HIDE DEF old, e
<1> QED
  BY <1>1, <1>2, <1>3

LEMMA WithEntry ==
    ASSUME NEW f \in PrintIndex, NEW x \in PrintedBooks, NEW v \in IndexEntry
    PROVE  /\ Prints!With(f, x, v) \in PrintIndex
           /\ DOMAIN Prints!With(f, x, v) = DOMAIN f \cup {x}
           /\ Prints!With(f, x, v)[x] = v
           /\ \A y \in DOMAIN f : y # x => Prints!With(f, x, v)[y] = f[y]
<1>1. PICK D \in SUBSET PrintedBooks : f \in [D -> IndexEntry]
  BY DEF PrintIndex
<1>2. Prints!With(f, x, v) = [y \in D \cup {x} |-> IF y = x THEN v ELSE f[y]]
  BY <1>1 DEF Prints!With
<1>3. Prints!With(f, x, v) \in [D \cup {x} -> IndexEntry]
  BY <1>1, <1>2
<1>4. Prints!With(f, x, v) \in PrintIndex
  BY <1>3 DEF PrintIndex
<1> QED
  BY <1>1, <1>2, <1>4

LEMMA PrintsRecord == ASSUME PrintInv, NEW m \in Right, Prints!Record(m) PROVE PrintInv'
<1> USE TimesAssumption
<1> DEFINE t == task[m]
           kept == t.stat # None /\ Prints!Settled(t.stat, t.readAt)
           index == IF kept THEN Prints!With(t.index, t.book, Prints!Observed(t)) ELSE t.index
           q == [t EXCEPT !.pc = "books",
                          !.entries = t.entries \cup {t.content}, !.answered = t.answered \cup {t.content},
                          !.index = index, !.content = None, !.stat = None, !.readAt = 0]
<1>1. t.pc = "record" /\ UNCHANGED <<now, source, temp, stored>> /\ Prints!Step(m, q)
  BY DEF Prints!Record, PrintInv, PrintTypes, TaskRun
<1>2. t \in TaskRun /\ now \in Nat /\ Holding(t) /\ t.book \in PrintedBooks /\ t.content \in Left
  BY <1>1 DEF PrintInv, PrintTypes, Reading, Holding
<1>3. Telling(t.index) /\ Sketched(t.index, t.entries)
  BY DEF PrintInv, AllTelling, AllSketched
<1>4. t.index \in PrintIndex /\ t.readAt \in Nat /\ t.stat \in Nat \cup {None} /\ t.readAt <= now
  BY <1>2 DEF TaskRun, Holding
<1>5. index \in PrintIndex /\ Telling(index) /\ Sketched(index, t.entries \cup {t.content})
  <2>1. CASE ~kept
    BY <1>3, <1>4, <2>1 DEF Sketched
  <2>2. CASE kept
    <3>1. t.stat \in Nat /\ t.stat + RacyWindow < now
      BY <1>2, <1>4, <2>2 DEF Prints!Settled
    <3> DEFINE v == Prints!Observed(t)
    <3>2. v \in IndexEntry /\ v.mtime = t.stat /\ v.md5 = t.content
      BY <1>2, <3>1, ObservedEntry
    <3>3. index = Prints!With(t.index, t.book, v)
      BY <2>2
    <3> HIDE DEF v, index, t
    <3>4. /\ index \in PrintIndex /\ DOMAIN index = DOMAIN t.index \cup {t.book} /\ index[t.book] = v
          /\ \A y \in DOMAIN t.index : y # t.book => index[y] = t.index[y]
      <4> DEFINE f == t.index x == t.book
      <4>1. f \in PrintIndex /\ x \in PrintedBooks /\ v \in IndexEntry
        BY <1>2, <1>4, <3>2
      <4> HIDE DEF f, x
      <4>2. /\ Prints!With(f, x, v) \in PrintIndex /\ DOMAIN Prints!With(f, x, v) = DOMAIN f \cup {x}
            /\ Prints!With(f, x, v)[x] = v /\ \A y \in DOMAIN f : y # x => Prints!With(f, x, v)[y] = f[y]
        BY <4>1, WithEntry, Zenon
      <4> QED
        BY <3>3, <4>2 DEF f, x
    <3>5. source[t.book] # None /\ source[t.book].mtime = t.stat => t.content = source[t.book].content
      BY <1>1, <1>2, <2>2 DEF Holding, Prints!Settled
    <3>6. Telling(index)
      BY <1>3, <3>1, <3>2, <3>4, <3>5 DEF Telling
    <3>7. Sketched(index, t.entries \cup {t.content})
      BY <1>3, <3>2, <3>4 DEF Sketched
    <3> QED
      BY <3>4, <3>6, <3>7
  <2> QED
    BY <2>1, <2>2
<1> HIDE DEF index
<1>6. /\ q \in TaskRun /\ q.index = index /\ q.entries = t.entries \cup {t.content}
      /\ q.pc = "books" /\ q.readAt = 0
  BY <1>2, <1>5 DEF TaskRun
<1> HIDE DEF q, t
<1>7. /\ stored \in [index : PrintIndex, entries : SUBSET Left]
      /\ Telling(stored.index) /\ Sketched(stored.index, stored.entries)
  BY DEF PrintInv, PrintTypes, AllTelling, AllSketched
<1>8. Holding(q)
  BY <1>2, <1>6 DEF Holding
<1> QED
  BY <1>1, <1>5, <1>6, <1>7, <1>8, PrintsTask

LEMMA MergedIndex ==
    ASSUME NEW f \in PrintIndex, NEW g \in PrintIndex
    PROVE  /\ Prints!MergeIndex(f, g) \in PrintIndex
           /\ DOMAIN Prints!MergeIndex(f, g) = DOMAIN f \cup DOMAIN g
           /\ \A x \in DOMAIN Prints!MergeIndex(f, g) :
                 \/ x \in DOMAIN f /\ Prints!MergeIndex(f, g)[x] = f[x]
                 \/ x \in DOMAIN g /\ Prints!MergeIndex(f, g)[x] = g[x]
<1> DEFINE h == Prints!MergeIndex(f, g)
<1>1. PICK D \in SUBSET PrintedBooks : f \in [D -> IndexEntry]
  BY DEF PrintIndex
<1>2. PICK E \in SUBSET PrintedBooks : g \in [E -> IndexEntry]
  BY DEF PrintIndex
<1>3. DOMAIN h = D \cup E /\ h = [x \in D \cup E |-> h[x]]
  BY <1>1, <1>2 DEF Prints!MergeIndex
<1>4. ASSUME NEW x \in D \cup E PROVE (x \in D /\ h[x] = f[x]) \/ (x \in E /\ h[x] = g[x])
  <2> DEFINE P == x \in D /\ (x \in E => ~Prints!Supersedes(g[x], f[x]))
  <2>1. h[x] = IF P THEN f[x] ELSE g[x]
    BY <1>1, <1>2 DEF Prints!MergeIndex
  <2>2. (P => x \in D) /\ (~P => x \in E)
    OBVIOUS
  <2> HIDE DEF P, h
  <2> QED
    BY <2>1, <2>2
<1> HIDE DEF h
<1>5. \A x \in D \cup E : h[x] \in IndexEntry
  BY <1>1, <1>2, <1>4
<1>6. h \in [D \cup E -> IndexEntry]
  BY <1>3, <1>5
<1>7. h \in PrintIndex
  BY <1>6 DEF PrintIndex
<1> QED
  BY <1>1, <1>2, <1>3, <1>4, <1>7 DEF h

LEMMA PrunedCache ==
    ASSUME NEW f \in PrintIndex, NEW entries \in SUBSET Left, NEW live, NEW keep
    PROVE  LET p == Prints!PruneCache(f, entries, live, keep) IN
           /\ p.index \in PrintIndex /\ p.entries \subseteq entries
           /\ DOMAIN p.index \subseteq DOMAIN f /\ \A x \in DOMAIN p.index : p.index[x] = f[x]
           /\ Sketched(f, entries) => Sketched(p.index, p.entries)
<1> DEFINE kept == Prints!Restrict(f, DOMAIN f \cap live)
           named == [x \in DOMAIN kept |-> kept[x].md5]
           p == Prints!PruneCache(f, entries, live, keep)
<1>1. PICK D \in SUBSET PrintedBooks : f \in [D -> IndexEntry]
  BY DEF PrintIndex
<1>2. kept \in [D \cap live -> IndexEntry] /\ \A x \in D \cap live : kept[x] = f[x]
  BY <1>1 DEF Prints!Restrict
<1>3. p.index = kept /\ p.entries = entries \cap (keep \cup Prints!Range(named))
  BY DEF Prints!PruneCache
<1> HIDE DEF kept, p
<1>4. kept \in PrintIndex
  BY <1>2 DEF PrintIndex
<1>5. \A x \in DOMAIN kept : kept[x].md5 \in Prints!Range(named)
  BY DEF Prints!Range
<1> HIDE DEF named
<1>6. Sketched(f, entries) => Sketched(p.index, p.entries)
  BY <1>1, <1>2, <1>3, <1>5 DEF Sketched
<1> QED
  BY <1>1, <1>2, <1>3, <1>4, <1>6 DEF p

LEMMA PrintsMerge == ASSUME PrintInv, NEW m \in Right, Prints!Merge(m) PROVE PrintInv'
<1> DEFINE t == task[m]
           merged == Prints!MergeIndex(t.index, stored.index)
           entries == t.entries \cup stored.entries
           p == Prints!PruneCache(merged, entries, Prints!Live, t.answered)
           q == [t EXCEPT !.pc = "save", !.todo = {}, !.index = p.index, !.entries = p.entries]
<1>1. UNCHANGED <<now, source, temp, stored>> /\ Prints!Step(m, q)
  BY DEF Prints!Merge
<1>2. /\ t \in TaskRun /\ Holding(t) /\ stored \in [index : PrintIndex, entries : SUBSET Left]
      /\ Telling(t.index) /\ Sketched(t.index, t.entries)
      /\ Telling(stored.index) /\ Sketched(stored.index, stored.entries)
  BY DEF PrintInv, PrintTypes, Reading, AllTelling, AllSketched
<1>3. t.index \in PrintIndex /\ stored.index \in PrintIndex /\ entries \in SUBSET Left
  BY <1>2 DEF TaskRun
<1>4. /\ merged \in PrintIndex
      /\ \A x \in DOMAIN merged : \/ x \in DOMAIN t.index /\ merged[x] = t.index[x]
                                  \/ x \in DOMAIN stored.index /\ merged[x] = stored.index[x]
  BY <1>3, MergedIndex
<1> HIDE DEF merged
<1>5. Telling(merged) /\ Sketched(merged, entries)
  BY <1>2, <1>4 DEF Telling, Sketched
<1> HIDE DEF entries
<1>6. /\ p.index \in PrintIndex /\ p.entries \subseteq Left /\ Sketched(p.index, p.entries)
      /\ DOMAIN p.index \subseteq DOMAIN merged /\ \A x \in DOMAIN p.index : p.index[x] = merged[x]
  BY <1>3, <1>4, <1>5, PrunedCache
<1> HIDE DEF p
<1>7. Telling(p.index)
  BY <1>5, <1>6 DEF Telling
<1>8. q \in TaskRun /\ q.index = p.index /\ q.entries = p.entries /\ q.pc = "save" /\ q.readAt = t.readAt
  BY <1>2, <1>6 DEF TaskRun
<1> HIDE DEF q, t
<1>9. Holding(q)
  BY <1>2, <1>8 DEF Holding
<1> QED
  BY <1>1, <1>2, <1>6, <1>7, <1>8, <1>9, PrintsTask

LEMMA PrintsEnd ==
    ASSUME PrintInv, NEW m \in Right, Prints!Save(m) \/ Prints!Crash(m)
    PROVE  PrintInv'
<1>1. UNCHANGED <<now, source, temp>> /\ Prints!Step(m, Prints!Idle)
      /\ stored' \in {stored, [index |-> task[m].index, entries |-> task[m].entries]}
  BY DEF Prints!Save, Prints!Crash
<1>2. /\ stored \in [index : PrintIndex, entries : SUBSET Left] /\ now \in Nat
      /\ task[m].index \in PrintIndex /\ task[m].entries \in SUBSET Left
      /\ Telling(task[m].index) /\ Sketched(task[m].index, task[m].entries)
      /\ Telling(stored.index) /\ Sketched(stored.index, stored.entries)
  BY DEF PrintInv, PrintTypes, TaskRun, AllTelling, AllSketched
<1>3. /\ stored' \in [index : PrintIndex, entries : SUBSET Left]
      /\ Telling(stored'.index) /\ Sketched(stored'.index, stored'.entries)
  BY <1>1, <1>2
<1>4. /\ Telling(Prints!Idle.index) /\ Sketched(Prints!Idle.index, Prints!Idle.entries)
      /\ Holding(Prints!Idle)
  BY <1>2, IdleIsRun, EmptyIndex DEF Telling, Sketched, Holding
<1> QED
  BY <1>1, <1>3, <1>4, IdleIsRun, PrintsTask

LEMMA PrintsNext == ASSUME PrintInv, Prints!Next PROVE PrintInv'
BY PrintsFiles, PrintsRun, PrintsFingerprint, PrintsLookup, PrintsRead, PrintsRecord, PrintsMerge, PrintsEnd
DEF Prints!Next

\* For any number of books, contents, machines and runs, and any racy window: a source whose time is
\* recorded has the recorded content, and its sketch is in the same file (fingerprintSourcesTask,
\* Cache.record, PruneCache, Merge).
THEOREM FingerprintsTellContent == MCSpec => []PrintsAreCurrent
<1> DEFINE Inv == part = "prints" => PrintInv
<1>1. MCInit => Inv
  BY PrintsInit DEF MCInit
<1>2. ASSUME Inv, [MCNext]_bookvars PROVE Inv'
  <2>1. CASE part = "prints" /\ Prints!Next /\ UNCHANGED part
    BY <1>2, <2>1, PrintsNext
  <2>2. CASE UNCHANGED <<part, now, printvars>>
    BY <1>2, <2>2
    DEF printvars, PrintInv, PrintTypes, TempsAreNew, AllTelling, Telling, AllSketched, Sketched,
        Reading, Holding
  <2>3. CASE part # "prints" /\ UNCHANGED part
    BY <2>3
  <2> QED
    BY <1>2, <2>1, <2>2, <2>3 DEF MCNext, bookvars
<1>3. Inv => PrintsAreCurrent
  BY DEF PrintsAreCurrent, PrintInv, AllTelling, Telling, AllSketched, Sketched, Prints!StatTellsContent,
         Prints!RecordedHasSketch, Prints!Live
<1> QED
  BY <1>1, <1>2, <1>3, PTL DEF MCSpec, bookvars

-----------------------------------------------------------------------------
(* ScanCache.                                                              *)

FolderListing == [mtime : Nat, kids : SUBSET Kids]
RootListing == [mtime : Nat, kids : SUBSET Left]
ByName(S) == UNION {[D -> S] : D \in SUBSET Left}
FolderListings == ByName(FolderListing)
TreeListings == [root : RootListing \cup {None}, dirs : FolderListings]
WalkState ==
    [pc : {"idle", "root", "readroot", "dirs", "readdir"}, prev : TreeListings, next : TreeListings,
     trusted : BOOLEAN, stat : Nat \cup {None}, readAt : Nat, at : Left \cup {None}, todo : SUBSET Left,
     names : SUBSET Left, found : ByName(SUBSET Kids), failed : BOOLEAN]

TreeTypes ==
    /\ now \in Nat
    /\ root \in [mtime : Nat, entry : [Left -> Right \cup {None}]]
    /\ dirs \in [Right -> FolderListing]
WalkTypes == TreeTypes /\ cache \in TreeListings /\ saved \in TreeListings /\ walk \in WalkState

\* A recorded time is over; while the books folder has it, its listing is right, and the listing of
\* a folder in it is right while that folder has its own recorded time.
Sound(L) ==
    /\ L.root # None => L.root.mtime + RacyWindow < now
    /\ \A x \in DOMAIN L.dirs : L.dirs[x].mtime + RacyWindow < now
    /\ L.root # None /\ root.mtime = L.root.mtime =>
          /\ L.root.kids = Walks!Present
          /\ \A x \in DOMAIN L.dirs :
                x \in Walks!Present /\ dirs[root.entry[x]].mtime = L.dirs[x].mtime
                => L.dirs[x].kids = dirs[root.entry[x]].kids

\* What a walk holds at each step: it trusts listings only below the root listing it reuses.
Steady(w) ==
    /\ w.trusted => w.prev.root # None /\ w.next.root = w.prev.root
    /\ w.pc \in {"root", "readroot"} =>
          w.next = Walks!Listings /\ ~w.trusted /\ w.found = <<>> /\ ~w.failed
    /\ w.readAt <= now
    /\ w.pc \in {"readroot", "readdir"} => w.stat \in Nat
    /\ w.pc = "readdir" => w.at \in Left

\* The folders a walk has still to list.
Ahead(w) == IF w.pc = "readdir" THEN w.todo \cup {w.at} ELSE w.todo

\* What an undisturbed walk has found so far is what is there.
ExactSoFar(w) ==
    quiet =>
       /\ w.trusted => root.mtime = w.prev.root.mtime
       /\ w.pc \in {"dirs", "readdir"} => w.names = Walks!Present /\ Ahead(w) \subseteq Walks!Present
       /\ w.pc = "readdir" => w.at \notin w.todo
       /\ w.pc \in {"dirs", "readdir"} /\ ~w.failed =>
             w.found = [x \in Walks!Present \ Ahead(w) |-> dirs[root.entry[x]].kids]

WalkIsSound(w) == Sound(w.prev) /\ Sound(w.next) /\ Steady(w) /\ ExactSoFar(w)
WalkInv == WalkTypes /\ Sound(cache) /\ Sound(saved) /\ WalkIsSound(walk)

LEMMA EmptyListings ==
    /\ Walks!Listings \in TreeListings /\ Sound(Walks!Listings)
    /\ Walks!Listings.root = None /\ Walks!Listings.dirs = <<>>
<1>1. DOMAIN <<>> = {} /\ <<>> \in [{} -> FolderListing]
  OBVIOUS
<1>2. <<>> \in FolderListings
  BY <1>1 DEF FolderListings, ByName
<1> QED
  BY <1>1, <1>2 DEF Walks!Listings, TreeListings, Sound

LEMMA NoWalkIsSound ==
    ASSUME now \in Nat
    PROVE  Walks!NoWalk \in WalkState /\ Walks!NoWalk.pc = "idle" /\ WalkIsSound(Walks!NoWalk)
<1>1. <<>> \in [{} -> SUBSET Kids] /\ {} \in SUBSET Left
  OBVIOUS
<1>2. <<>> \in ByName(SUBSET Kids)
  BY <1>1 DEF ByName
<1>3. /\ Walks!NoWalk \in WalkState /\ Walks!NoWalk.pc = "idle" /\ Walks!NoWalk.prev = Walks!Listings
      /\ Walks!NoWalk.next = Walks!Listings /\ Walks!NoWalk.trusted = FALSE /\ Walks!NoWalk.readAt = 0
  BY <1>2, EmptyListings DEF Walks!NoWalk, WalkState
<1> QED
  BY <1>3, EmptyListings DEF WalkIsSound, Steady, ExactSoFar

LEMMA WalksInit == Walks!Init => WalkInv
<1> SUFFICES ASSUME Walks!Init PROVE WalkInv
  OBVIOUS
<1>1. now = 0 /\ cache = Walks!Listings /\ saved = Walks!Listings /\ walk = Walks!NoWalk
  BY DEF Walks!Init
<1>2. TreeTypes
  BY DEF Walks!Init, TreeTypes, FolderListing
<1> QED
  BY <1>1, <1>2, EmptyListings, NoWalkIsSound DEF WalkInv, WalkTypes

\* Time passes and the tree changes: no listing comes to be wrong.
LEMMA TreeChanges ==
    ASSUME WalkInv, UNCHANGED <<cache, saved, walk>>, TreeTypes', now <= now',
           root' = root \/ root'.mtime = now,
           \A d \in Right : dirs'[d] = dirs[d] \/ dirs'[d].mtime = now,
           quiet' => quiet /\ UNCHANGED <<root, dirs>>
    PROVE  WalkInv'
<1> USE TimesAssumption
<1>1. WalkTypes'
  BY DEF WalkInv, WalkTypes
<1>2. ASSUME NEW L \in TreeListings, Sound(L) PROVE Sound(L)'
  <2>1. now \in Nat /\ now' \in Nat /\ root \in [mtime : Nat, entry : [Left -> Right \cup {None}]]
    BY DEF WalkInv, WalkTypes, TreeTypes
  <2>2. /\ L.root # None => L.root.mtime \in Nat /\ L.root.mtime + RacyWindow < now
        /\ \A x \in DOMAIN L.dirs : L.dirs[x].mtime \in Nat /\ L.dirs[x].mtime + RacyWindow < now
    BY <1>2 DEF TreeListings, RootListing, FolderListings, ByName, FolderListing, Sound
  <2>3. /\ L.root # None => L.root.mtime + RacyWindow < now'
        /\ \A x \in DOMAIN L.dirs : L.dirs[x].mtime + RacyWindow < now'
    BY <2>1, <2>2
  <2>4. ASSUME L.root # None, root'.mtime = L.root.mtime
        PROVE  /\ L.root.kids = Walks!Present'
               /\ \A x \in DOMAIN L.dirs :
                     x \in Walks!Present' /\ dirs'[root'.entry[x]].mtime = L.dirs[x].mtime
                     => L.dirs[x].kids = dirs'[root'.entry[x]].kids
    <3>1. root' = root
      BY <2>1, <2>2, <2>4
    <3>2. Walks!Present' = Walks!Present /\ \A x \in Walks!Present : root.entry[x] \in Right
      BY <2>1, <3>1 DEF Walks!Present
    <3>3. ASSUME NEW x \in DOMAIN L.dirs, x \in Walks!Present, dirs'[root.entry[x]].mtime = L.dirs[x].mtime
          PROVE  L.dirs[x].kids = dirs'[root.entry[x]].kids
      <4>1. dirs'[root.entry[x]] = dirs[root.entry[x]]
        BY <2>1, <2>2, <3>2, <3>3
      <4> QED
        BY <1>2, <2>4, <3>1, <3>3, <4>1 DEF Sound
    <3>4. L.root.kids = Walks!Present
      BY <1>2, <2>4, <3>1 DEF Sound
    <3> QED
      BY <3>1, <3>2, <3>3, <3>4
  <2> QED
    BY <2>3, <2>4 DEF Sound
<1>3. Sound(cache)' /\ Sound(saved)' /\ Sound(walk.prev)' /\ Sound(walk.next)'
  <2>1. walk.prev \in TreeListings /\ walk.next \in TreeListings
    BY DEF WalkInv, WalkTypes, WalkState
  <2>2. Sound(cache) /\ Sound(saved) /\ Sound(walk.prev) /\ Sound(walk.next)
    BY DEF WalkInv, WalkIsSound
  <2>3. \A L \in TreeListings : Sound(L) => Sound(L)'
    BY <1>2
  <2> QED
    BY <2>1, <2>2, <2>3 DEF WalkInv, WalkTypes, Sound
<1>4. Steady(walk)'
  BY DEF WalkInv, WalkTypes, TreeTypes, WalkState, WalkIsSound, Steady
<1>5. ExactSoFar(walk)'
  BY DEF WalkInv, WalkIsSound, ExactSoFar, Ahead, Walks!Present
<1> QED
  BY <1>1, <1>3, <1>4, <1>5 DEF WalkInv, WalkIsSound

LEMMA WalksTree ==
    ASSUME WalkInv,
           \/ Walks!Tick \/ (\E d \in Right : Walks!ChangeFolder(d)) \/ (\E x \in Left : Walks!Rename(x))
           \/ (\E x \in Left, d \in Right : Walks!MoveIn(x, d))
    PROVE  WalkInv'
<1>1. TreeTypes
  BY DEF WalkInv, WalkTypes
<1>2. CASE Walks!Tick
  BY <1>1, <1>2, TreeChanges DEF Walks!Tick, TreeTypes
<1>3. ASSUME NEW d \in Right, Walks!ChangeFolder(d) PROVE WalkInv'
  <2>1. PICK kids \in SUBSET Kids : dirs' = [dirs EXCEPT ![d] = [mtime |-> now, kids |-> kids]]
    BY <1>3 DEF Walks!ChangeFolder
  <2>2. UNCHANGED <<now, root, cache, saved, walk>> /\ quiet' = FALSE
    BY <1>3 DEF Walks!ChangeFolder, Walks!Changed
  <2>3. TreeTypes' /\ \A c \in Right : dirs'[c] = dirs[c] \/ dirs'[c].mtime = now
    BY <1>1, <2>1, <2>2 DEF TreeTypes, FolderListing
  <2> QED
    BY <1>1, <2>2, <2>3, TreeChanges DEF TreeTypes
<1>4. ASSUME NEW x \in Left, Walks!Rename(x) PROVE WalkInv'
  <2>1. UNCHANGED <<now, dirs, cache, saved, walk>> /\ quiet' = FALSE
    BY <1>4 DEF Walks!Rename, Walks!Changed
  <2>2. root' \in [mtime : {now}, entry : [Left -> Right \cup {None}]]
    BY <1>1, <1>4 DEF Walks!Rename, TreeTypes, Walks!Present
  <2> QED
    BY <1>1, <2>1, <2>2, TreeChanges DEF TreeTypes
<1>5. ASSUME NEW x \in Left, NEW d \in Right, Walks!MoveIn(x, d) PROVE WalkInv'
  <2>1. UNCHANGED <<now, dirs, cache, saved, walk>> /\ quiet' = FALSE
    BY <1>5 DEF Walks!MoveIn, Walks!Changed
  <2>2. root' \in [mtime : {now}, entry : [Left -> Right \cup {None}]]
    BY <1>1, <1>5 DEF Walks!MoveIn, TreeTypes
  <2> QED
    BY <1>1, <2>1, <2>2, TreeChanges DEF TreeTypes
<1> QED
  BY <1>2, <1>3, <1>4, <1>5

\* A step of the walk.
LEMMA WalkMoves ==
    ASSUME WalkInv, NEW w \in WalkState, walk' = w, Walks!WalkStep, WalkIsSound(w)
    PROVE  WalkInv'
<1>1. UNCHANGED <<now, root, dirs, cache, saved, quiet>>
  BY DEF Walks!WalkStep
<1>2. WalkTypes' /\ Sound(cache)' /\ Sound(saved)'
  BY <1>1 DEF WalkInv, WalkTypes, TreeTypes, Sound, Walks!Present
<1>3. WalkIsSound(walk)'
  BY <1>1 DEF WalkIsSound, Sound, Steady, ExactSoFar, Ahead, Walks!Present
<1> QED
  BY <1>2, <1>3 DEF WalkInv

LEMMA WalksStatRoot == ASSUME WalkInv, Walks!StatRoot PROVE WalkInv'
<1>1. /\ walk \in WalkState /\ walk.pc = "root" /\ Walks!WalkStep /\ walk.prev \in TreeListings /\ TreeTypes
      /\ Sound(walk.prev) /\ Sound(walk.next) /\ Steady(walk)
  BY DEF Walks!StatRoot, WalkInv, WalkTypes, WalkIsSound, WalkState
<1>2. CASE Walks!Reuses(walk.prev.root, root.mtime, TRUE)
  <2> DEFINE w == [walk EXCEPT !.pc = "dirs", !.trusted = TRUE, !.next.root = walk.prev.root,
                               !.names = walk.prev.root.kids, !.todo = walk.prev.root.kids]
  <2>1. walk' = w
    BY <1>2 DEF Walks!StatRoot
  <2>2. walk.prev.root # None /\ walk.prev.root \in RootListing /\ root.mtime = walk.prev.root.mtime
    BY <1>1, <1>2 DEF Walks!Reuses, TreeListings
  <2>3. walk.next = Walks!Listings /\ walk.found = <<>> /\ walk.failed = FALSE
    BY <1>1 DEF Steady, WalkState
  <2> DEFINE next == [walk.next EXCEPT !.root = walk.prev.root]
  <2>4. next \in TreeListings /\ next.root = walk.prev.root /\ next.dirs = <<>>
    BY <2>2, <2>3, EmptyListings DEF TreeListings
  <2>5. w = [walk EXCEPT !.pc = "dirs", !.trusted = TRUE, !.next = next,
                         !.names = walk.prev.root.kids, !.todo = walk.prev.root.kids]
    BY <1>1 DEF WalkState
  <2> HIDE DEF next, w
  <2>6. /\ w \in WalkState /\ w.pc = "dirs" /\ w.trusted = TRUE /\ w.next = next /\ w.prev = walk.prev
        /\ w.names = walk.prev.root.kids /\ w.todo = walk.prev.root.kids /\ w.found = <<>>
        /\ w.readAt = walk.readAt
    BY <1>1, <2>2, <2>3, <2>4, <2>5 DEF WalkState, RootListing
  <2>7. walk.prev.root.kids = Walks!Present
    BY <1>1, <2>2 DEF Sound
  <2>8. Sound(next)
    BY <1>1, <2>2, <2>4 DEF Sound
  <2>9. Steady(w)
    BY <1>1, <2>2, <2>4, <2>6 DEF Steady
  <2>10. ExactSoFar(w)
    <3>1. Walks!Present \ Ahead(w) = {} /\ Ahead(w) = Walks!Present
      BY <2>6, <2>7 DEF Ahead
    <3>2. w.found = [x \in Walks!Present \ Ahead(w) |-> dirs[root.entry[x]].kids]
      BY <2>6, <3>1
    <3> QED
      BY <2>2, <2>6, <2>7, <3>1, <3>2 DEF ExactSoFar
  <2> QED
    BY <1>1, <2>1, <2>6, <2>8, <2>9, <2>10, WalkMoves DEF WalkIsSound
<1>3. CASE ~Walks!Reuses(walk.prev.root, root.mtime, TRUE)
  <2> DEFINE w == [walk EXCEPT !.pc = "readroot", !.stat = root.mtime, !.readAt = now]
  <2>1. walk' = w
    BY <1>3 DEF Walks!StatRoot
  <2>2. /\ w \in WalkState /\ w.pc = "readroot" /\ w.trusted = walk.trusted /\ w.prev = walk.prev
        /\ w.next = walk.next /\ w.found = walk.found /\ w.failed = walk.failed
        /\ w.stat = root.mtime /\ w.readAt = now
    BY <1>1 DEF WalkState, TreeTypes
  <2> HIDE DEF w
  <2>3. Steady(w) /\ ExactSoFar(w)
    BY <1>1, <2>2 DEF Steady, ExactSoFar, TreeTypes
  <2> QED
    BY <1>1, <2>1, <2>2, <2>3, WalkMoves DEF WalkIsSound
<1> QED
  BY <1>2, <1>3

LEMMA WalksReadRoot == ASSUME WalkInv, Walks!ReadRoot PROVE WalkInv'
<1> USE TimesAssumption
<1>1. /\ walk \in WalkState /\ walk.pc = "readroot" /\ Walks!WalkStep /\ TreeTypes
      /\ Sound(walk.prev) /\ Steady(walk)
  BY DEF Walks!ReadRoot, WalkInv, WalkTypes, WalkIsSound
<1>2. /\ walk.next = Walks!Listings /\ walk.trusted = FALSE /\ walk.found = <<>> /\ walk.failed = FALSE
      /\ walk.stat \in Nat /\ walk.readAt \in Nat /\ walk.readAt <= now /\ now \in Nat
  BY <1>1 DEF Steady, WalkState, TreeTypes
<1> DEFINE listing == IF Walks!Settled(walk.stat, walk.readAt)
                      THEN [mtime |-> walk.stat, kids |-> Walks!Present] ELSE None
           next == [walk.next EXCEPT !.root = listing]
           w == [walk EXCEPT !.pc = "dirs", !.names = Walks!Present, !.todo = Walks!Present, !.stat = None,
                             !.readAt = 0, !.next = next]
<1>3. walk' = w
  BY <1>1 DEF Walks!ReadRoot, WalkState
<1>4. /\ listing \in RootListing \cup {None}
      /\ listing # None => listing.mtime + RacyWindow < now /\ listing.kids = Walks!Present
  BY <1>2 DEF RootListing, Walks!Settled, Walks!Present
<1> HIDE DEF listing
<1>5. next \in TreeListings /\ next.root = listing /\ next.dirs = <<>>
  BY <1>2, <1>4, EmptyListings DEF TreeListings
<1> HIDE DEF next
<1>6. /\ w \in WalkState /\ w.pc = "dirs" /\ w.trusted = FALSE /\ w.next = next /\ w.prev = walk.prev
      /\ w.names = Walks!Present /\ w.todo = Walks!Present /\ w.found = <<>> /\ w.readAt = 0
  BY <1>1, <1>2, <1>5 DEF WalkState, Walks!Present
<1> HIDE DEF w
<1>7. Sound(next)
  BY <1>4, <1>5 DEF Sound
<1>8. Steady(w)
  BY <1>2, <1>6 DEF Steady
<1>9. ExactSoFar(w)
  <2>1. Walks!Present \ Ahead(w) = {} /\ Ahead(w) = Walks!Present
    BY <1>6 DEF Ahead
  <2>2. w.found = [x \in Walks!Present \ Ahead(w) |-> dirs[root.entry[x]].kids]
    BY <1>6, <2>1
  <2> QED
    BY <1>6, <2>1, <2>2 DEF ExactSoFar
<1> QED
  BY <1>1, <1>3, <1>6, <1>7, <1>8, <1>9, WalkMoves DEF WalkIsSound

\* One more listing.
LEMMA WithListing ==
    ASSUME NEW S, NEW f \in ByName(S), NEW x \in Left, NEW v \in S
    PROVE  Walks!With(f, x, v) \in ByName(S)
<1>1. PICK D \in SUBSET Left : f \in [D -> S]
  BY DEF ByName
<1>2. Walks!With(f, x, v) = [y \in D \cup {x} |-> IF y = x THEN v ELSE f[y]]
  BY <1>1 DEF Walks!With
<1>3. Walks!With(f, x, v) \in [D \cup {x} -> S]
  BY <1>1, <1>2
<1> QED
  BY <1>1, <1>2, <1>3 DEF ByName

\* A right listing keeps what a walk has recorded sound.
LEMMA SoundWith ==
    ASSUME NEW L \in TreeListings, Sound(L), NEW x \in Left, NEW v \in FolderListing,
           v.mtime + RacyWindow < now,
           L.root # None /\ root.mtime = L.root.mtime /\ x \in Walks!Present
              /\ dirs[root.entry[x]].mtime = v.mtime => v.kids = dirs[root.entry[x]].kids
    PROVE  LET M == [L EXCEPT !.dirs = Walks!With(L.dirs, x, v)] IN
           M \in TreeListings /\ Sound(M) /\ M.root = L.root
<1> DEFINE g == Walks!With(L.dirs, x, v) M == [L EXCEPT !.dirs = g]
<1>1. L.dirs \in FolderListings
  BY DEF TreeListings
<1>2. g \in FolderListings /\ g = [y \in DOMAIN L.dirs \cup {x} |-> IF y = x THEN v ELSE L.dirs[y]]
  <2> DEFINE f == L.dirs
  <2>1. f \in ByName(FolderListing)
    BY <1>1 DEF FolderListings
  <2> HIDE DEF f
  <2>2. Walks!With(f, x, v) \in ByName(FolderListing)
    BY <2>1, WithListing
  <2>3. Walks!With(f, x, v) = [y \in DOMAIN f \cup {x} |-> IF y = x THEN v ELSE f[y]]
    BY DEF Walks!With
  <2> QED
    BY <2>2, <2>3 DEF f, FolderListings
<1> HIDE DEF g
<1>3. M \in TreeListings /\ M.root = L.root /\ M.dirs = g
  BY <1>2 DEF TreeListings
<1> HIDE DEF M
<1>4. Sound(M)
  BY <1>2, <1>3 DEF Sound
<1> QED
  BY <1>3, <1>4 DEF M, g

\* One more folder found as it is.
LEMMA ExactWith ==
    ASSUME NEW f, NEW A, NEW x \in Walks!Present, x \in A,
           f = [y \in Walks!Present \ A |-> dirs[root.entry[y]].kids]
    PROVE  Walks!With(f, x, dirs[root.entry[x]].kids)
              = [y \in Walks!Present \ (A \ {x}) |-> dirs[root.entry[y]].kids]
<1>1. DOMAIN f \cup {x} = Walks!Present \ (A \ {x})
  OBVIOUS
<1> QED
  BY <1>1 DEF Walks!With

LEMMA WalksStatDir == ASSUME WalkInv, Walks!StatDir PROVE WalkInv'
<1> USE TimesAssumption
<1>1. PICK n \in walk.todo :
        walk' = IF n \notin Walks!Present THEN [walk EXCEPT !.todo = @ \ {n}]
                ELSE IF Walks!Reuses(Walks!Lookup(walk.prev.dirs, n), dirs[root.entry[n]].mtime, walk.trusted)
                THEN [[walk EXCEPT !.todo = @ \ {n}] EXCEPT
                         !.next.dirs = Walks!With(@, n, Walks!Lookup(walk.prev.dirs, n)),
                         !.found = Walks!With(@, n, Walks!Lookup(walk.prev.dirs, n).kids)]
                ELSE [[walk EXCEPT !.todo = @ \ {n}] EXCEPT
                         !.pc = "readdir", !.at = n, !.readAt = now, !.stat = dirs[root.entry[n]].mtime]
  BY DEF Walks!StatDir
<1>2. /\ walk \in WalkState /\ walk.pc = "dirs" /\ Walks!WalkStep /\ TreeTypes
      /\ Sound(walk.prev) /\ Sound(walk.next) /\ Steady(walk) /\ ExactSoFar(walk)
  BY DEF Walks!StatDir, WalkInv, WalkTypes, WalkIsSound
<1>3. n \in Left /\ now \in Nat /\ Ahead(walk) = walk.todo /\ walk.next \in TreeListings
      /\ walk.prev \in TreeListings
  BY <1>1, <1>2 DEF WalkState, TreeTypes, Ahead
<1> DEFINE next == [walk EXCEPT !.todo = @ \ {n}]
           prev == Walks!Lookup(walk.prev.dirs, n)
<1>4. /\ next \in WalkState /\ next.pc = "dirs" /\ next.prev = walk.prev /\ next.next = walk.next
      /\ next.trusted = walk.trusted /\ next.found = walk.found /\ next.failed = walk.failed
      /\ next.todo = walk.todo \ {n} /\ next.names = walk.names /\ next.readAt = walk.readAt
  BY <1>2 DEF WalkState
<1>5. CASE n \notin Walks!Present
  <2>1. walk' = next
    BY <1>1, <1>5
  <2> HIDE DEF next
  <2>2. Steady(next)
    BY <1>2, <1>4 DEF Steady
  <2>3. ExactSoFar(next)
    BY <1>2, <1>3, <1>5 DEF ExactSoFar
  <2> QED
    BY <1>2, <1>4, <2>1, <2>2, <2>3, WalkMoves DEF WalkIsSound
<1>6. CASE n \in Walks!Present /\ Walks!Reuses(prev, dirs[root.entry[n]].mtime, walk.trusted)
  <2>1. walk.trusted /\ prev # None /\ prev.mtime = dirs[root.entry[n]].mtime
    BY <1>6 DEF Walks!Reuses
  <2>2. n \in DOMAIN walk.prev.dirs /\ prev = walk.prev.dirs[n] /\ prev \in FolderListing
    BY <1>3, <2>1 DEF Walks!Lookup, TreeListings, FolderListings, ByName
  <2>3. walk.prev.root # None /\ walk.next.root = walk.prev.root
    BY <1>2, <2>1 DEF Steady
  <2>4. prev.mtime + RacyWindow < now
        /\ (root.mtime = walk.prev.root.mtime => prev.kids = dirs[root.entry[n]].kids)
    BY <1>2, <1>6, <2>1, <2>2, <2>3 DEF Sound
  <2> HIDE DEF prev
  <2> DEFINE listings == [walk.next EXCEPT !.dirs = Walks!With(walk.next.dirs, n, prev)]
             found == Walks!With(walk.found, n, prev.kids)
             w == [next EXCEPT !.next = listings, !.found = found]
  <2>5. listings \in TreeListings /\ Sound(listings) /\ listings.root = walk.next.root
    BY <1>2, <1>3, <2>2, <2>3, <2>4, SoundWith
  <2>6. found \in ByName(SUBSET Kids)
    <3> DEFINE f == walk.found k == prev.kids
    <3>1. f \in ByName(SUBSET Kids) /\ k \in SUBSET Kids
      BY <1>2, <2>2 DEF WalkState, FolderListing
    <3> HIDE DEF f, k
    <3>2. Walks!With(f, n, k) \in ByName(SUBSET Kids)
      BY <1>3, <3>1, WithListing
    <3> QED
      BY <3>2 DEF f, k
  <2>7. walk' = w
    BY <1>1, <1>2, <1>6 DEF WalkState, prev
  <2> HIDE DEF next, listings, found
  <2>8. /\ w \in WalkState /\ w.pc = "dirs" /\ w.prev = walk.prev /\ w.next = listings
        /\ w.trusted = walk.trusted /\ w.found = found /\ w.failed = walk.failed
        /\ w.todo = walk.todo \ {n} /\ w.names = walk.names /\ w.readAt = walk.readAt
    BY <1>4, <2>5, <2>6 DEF WalkState
  <2> HIDE DEF w
  <2>9. Steady(w)
    BY <1>2, <2>3, <2>5, <2>8 DEF Steady
  <2>10. ASSUME quiet, ~walk.failed
         PROVE  found = [x \in Walks!Present \ Ahead(w) |-> dirs[root.entry[x]].kids]
    <3>1. walk.found = [x \in Walks!Present \ walk.todo |-> dirs[root.entry[x]].kids]
      BY <1>2, <1>3, <2>10 DEF ExactSoFar
    <3>2. prev.kids = dirs[root.entry[n]].kids
      BY <1>2, <2>1, <2>4, <2>10 DEF ExactSoFar
    <3>3. Ahead(w) = walk.todo \ {n}
      BY <2>8 DEF Ahead
    <3>4. Walks!With(walk.found, n, dirs[root.entry[n]].kids)
            = [x \in Walks!Present \ (walk.todo \ {n}) |-> dirs[root.entry[x]].kids]
      <4> DEFINE f == walk.found A == walk.todo
      <4>1. n \in Walks!Present /\ n \in A /\ f = [x \in Walks!Present \ A |-> dirs[root.entry[x]].kids]
        BY <1>6, <3>1
      <4> HIDE DEF f, A
      <4>2. Walks!With(f, n, dirs[root.entry[n]].kids)
              = [x \in Walks!Present \ (A \ {n}) |-> dirs[root.entry[x]].kids]
        BY <4>1, ExactWith
      <4> QED
        BY <4>2 DEF f, A
    <3> QED
      BY <3>2, <3>3, <3>4 DEF found
  <2>11. ExactSoFar(w)
    <3>1. Ahead(w) \subseteq Ahead(walk)
      BY <1>3, <2>8 DEF Ahead
    <3> QED
      BY <1>2, <2>8, <2>10, <3>1 DEF ExactSoFar
  <2> QED
    BY <1>2, <2>5, <2>7, <2>8, <2>9, <2>11, WalkMoves DEF WalkIsSound
<1>7. CASE n \in Walks!Present /\ ~Walks!Reuses(prev, dirs[root.entry[n]].mtime, walk.trusted)
  <2> DEFINE w == [next EXCEPT !.pc = "readdir", !.at = n, !.readAt = now, !.stat = dirs[root.entry[n]].mtime]
  <2>1. walk' = w
    BY <1>1, <1>7
  <2>2. dirs[root.entry[n]].mtime \in Nat
    BY <1>2, <1>3, <1>7 DEF TreeTypes, FolderListing, Walks!Present
  <2> HIDE DEF next
  <2>3. /\ w \in WalkState /\ w.pc = "readdir" /\ w.prev = walk.prev /\ w.next = walk.next
        /\ w.trusted = walk.trusted /\ w.found = walk.found /\ w.failed = walk.failed /\ w.at = n
        /\ w.todo = walk.todo \ {n} /\ w.names = walk.names /\ w.readAt = now /\ w.stat \in Nat
    BY <1>3, <1>4, <2>2 DEF WalkState
  <2> HIDE DEF w
  <2>4. Steady(w)
    BY <1>2, <1>3, <2>3 DEF Steady
  <2>5. Ahead(w) = Ahead(walk)
    BY <1>1, <1>3, <2>3 DEF Ahead
  <2>6. ExactSoFar(w)
    BY <1>2, <2>3, <2>5 DEF ExactSoFar
  <2> QED
    BY <1>2, <2>1, <2>3, <2>4, <2>6, WalkMoves DEF WalkIsSound
<1> QED
  BY <1>5, <1>6, <1>7

LEMMA WalksReadDir == ASSUME WalkInv, Walks!ReadDir PROVE WalkInv'
<1> USE TimesAssumption
<1> DEFINE n == walk.at
           next == [walk EXCEPT !.pc = "dirs", !.at = None, !.stat = None, !.readAt = 0]
           kids == dirs[root.entry[n]].kids
<1>1. /\ walk \in WalkState /\ walk.pc = "readdir" /\ Walks!WalkStep /\ TreeTypes
      /\ Sound(walk.prev) /\ Sound(walk.next) /\ Steady(walk) /\ ExactSoFar(walk)
  BY DEF Walks!ReadDir, WalkInv, WalkTypes, WalkIsSound
<1>2. /\ n \in Left /\ now \in Nat /\ walk.next \in TreeListings /\ walk.stat \in Nat /\ walk.readAt \in Nat
      /\ walk.readAt <= now /\ Ahead(walk) = walk.todo \cup {n}
  BY <1>1 DEF WalkState, TreeTypes, Steady, Ahead
<1>3. /\ next \in WalkState /\ next.pc = "dirs" /\ next.prev = walk.prev /\ next.next = walk.next
      /\ next.trusted = walk.trusted /\ next.found = walk.found /\ next.failed = walk.failed
      /\ next.todo = walk.todo /\ next.names = walk.names /\ next.readAt = 0
  BY <1>1 DEF WalkState
<1>4. CASE walk' = [next EXCEPT !.failed = @ \/ n \in Walks!Present]
  <2> DEFINE failed == walk.failed \/ n \in Walks!Present
             w == [next EXCEPT !.failed = failed]
  <2>1. walk' = w
    BY <1>3, <1>4
  <2> HIDE DEF next
  <2>2. failed \in BOOLEAN
    OBVIOUS
  <2>3. /\ w \in WalkState /\ w.pc = "dirs" /\ w.prev = walk.prev /\ w.next = walk.next
        /\ w.trusted = walk.trusted /\ w.failed = failed
        /\ w.todo = walk.todo /\ w.names = walk.names /\ w.readAt = 0
    BY <1>3, <2>2 DEF WalkState
  <2> HIDE DEF w
  <2>4. Steady(w)
    BY <1>1, <1>2, <2>3 DEF Steady
  <2>5. Ahead(w) = walk.todo
    BY <2>3 DEF Ahead
  <2>6. ExactSoFar(w)
    BY <1>1, <1>2, <2>3, <2>5 DEF ExactSoFar
  <2> QED
    BY <1>1, <2>1, <2>3, <2>4, <2>6, WalkMoves DEF WalkIsSound
<1>5. CASE /\ n \in Walks!Present
           /\ walk' = [next EXCEPT !.found = Walks!With(@, n, kids),
                          !.next.dirs = IF Walks!Settled(walk.stat, walk.readAt)
                                        THEN Walks!With(@, n, [mtime |-> walk.stat, kids |-> kids]) ELSE @]
  <2> DEFINE v == [mtime |-> walk.stat, kids |-> kids]
             with == Walks!With(walk.next.dirs, n, v)
             listings == IF Walks!Settled(walk.stat, walk.readAt)
                         THEN [walk.next EXCEPT !.dirs = with] ELSE walk.next
             found == Walks!With(walk.found, n, kids)
             w == [next EXCEPT !.next = listings, !.found = found]
  <2>1. walk' = w
    BY <1>1, <1>2, <1>5 DEF WalkState, TreeListings
  <2>2. kids \in SUBSET Kids
    BY <1>1, <1>2, <1>5 DEF TreeTypes, FolderListing, Walks!Present
  <2>3. v \in FolderListing /\ v.mtime = walk.stat /\ v.kids = kids
    BY <1>2, <2>2 DEF FolderListing
  <2> HIDE DEF v
  <2>4. listings \in TreeListings /\ Sound(listings) /\ listings.root = walk.next.root
    <3>1. CASE Walks!Settled(walk.stat, walk.readAt)
      <4>1. v.mtime + RacyWindow < now
        BY <1>2, <2>3, <3>1 DEF Walks!Settled
      <4> HIDE DEF n
      <4> QED
        BY <1>1, <1>2, <2>3, <3>1, <4>1, SoundWith
    <3>2. CASE ~Walks!Settled(walk.stat, walk.readAt)
      BY <1>1, <1>2, <3>2
    <3> QED
      BY <3>1, <3>2
  <2>5. found \in ByName(SUBSET Kids)
    <3> DEFINE f == walk.found
    <3>1. f \in ByName(SUBSET Kids)
      BY <1>1 DEF WalkState
    <3> HIDE DEF f, kids, n
    <3>2. Walks!With(f, n, kids) \in ByName(SUBSET Kids)
      BY <1>2, <2>2, <3>1, WithListing
    <3> QED
      BY <3>2 DEF f
  <2> HIDE DEF next, listings, found
  <2>6. /\ w \in WalkState /\ w.pc = "dirs" /\ w.prev = walk.prev /\ w.next = listings
        /\ w.trusted = walk.trusted /\ w.found = found /\ w.failed = walk.failed
        /\ w.todo = walk.todo /\ w.names = walk.names /\ w.readAt = 0
    BY <1>3, <2>4, <2>5 DEF WalkState
  <2> HIDE DEF w
  <2>7. Steady(w)
    BY <1>1, <1>2, <2>4, <2>6 DEF Steady
  <2>8. Ahead(w) = walk.todo
    BY <2>6 DEF Ahead
  <2>9. ASSUME quiet, ~walk.failed
        PROVE  found = [x \in Walks!Present \ walk.todo |-> dirs[root.entry[x]].kids]
    <3> DEFINE f == walk.found A == walk.todo \cup {n}
    <3>1. n \in Walks!Present /\ n \in A /\ f = [x \in Walks!Present \ A |-> dirs[root.entry[x]].kids]
      BY <1>1, <1>2, <1>5, <2>9 DEF ExactSoFar
    <3>2. A \ {n} = walk.todo
      BY <1>1, <2>9 DEF ExactSoFar
    <3> HIDE DEF f, A, n
    <3>3. Walks!With(f, n, dirs[root.entry[n]].kids)
            = [x \in Walks!Present \ (A \ {n}) |-> dirs[root.entry[x]].kids]
      <4>1. DOMAIN f \cup {n} = Walks!Present \ (A \ {n})
        BY <3>1
      <4> QED
        BY <3>1, <4>1 DEF Walks!With
    <3> QED
      BY <3>2, <3>3 DEF f, found
  <2>10. ExactSoFar(w)
    BY <1>1, <1>2, <2>6, <2>8, <2>9 DEF ExactSoFar
  <2> QED
    BY <1>1, <2>1, <2>4, <2>6, <2>7, <2>10, WalkMoves DEF WalkIsSound
<1> QED
  BY <1>4, <1>5 DEF Walks!ReadDir

LEMMA WalksAround ==
    ASSUME WalkInv, Walks!NewWalk \/ Walks!Install \/ Walks!Abandon \/ Walks!Save \/ Walks!Restart
    PROVE  WalkInv'
<1>1. UNCHANGED <<now, root, dirs>> /\ now \in Nat
  BY DEF Walks!NewWalk, Walks!Install, Walks!Abandon, Walks!Save, Walks!Restart, WalkInv, WalkTypes, TreeTypes
<1>2. \A L : Sound(L)' = Sound(L)
  BY <1>1 DEF Sound, Walks!Present
<1>3. WalkTypes /\ Sound(cache) /\ Sound(saved) /\ WalkIsSound(walk)
  BY DEF WalkInv
<1>4. CASE Walks!NewWalk
  <2> DEFINE w == [Walks!NoWalk EXCEPT !.pc = "root", !.prev = cache]
  <2>1. walk' = w /\ UNCHANGED <<cache, saved>>
    BY <1>4 DEF Walks!NewWalk
  <2>2. /\ w \in WalkState /\ w.pc = "root" /\ w.prev = cache /\ w.next = Walks!Listings
        /\ w.trusted = FALSE /\ w.found = <<>> /\ w.failed = FALSE /\ w.readAt = 0
    BY <1>1, <1>3, NoWalkIsSound DEF Walks!NoWalk, WalkState, WalkTypes
  <2> HIDE DEF w
  <2>3. Steady(walk)' /\ ExactSoFar(walk)'
    BY <1>1, <2>1, <2>2 DEF Steady, ExactSoFar
  <2>4. Sound(cache) /\ Sound(saved) /\ Sound(w.prev) /\ Sound(w.next)
    BY <1>3, <2>2, EmptyListings
  <2>5. Sound(cache)' /\ Sound(saved)' /\ Sound(walk.prev)' /\ Sound(walk.next)'
    BY <1>1, <2>1, <2>4 DEF Sound, Walks!Present
  <2> QED
    BY <1>1, <1>3, <2>1, <2>2, <2>3, <2>5 DEF WalkInv, WalkTypes, TreeTypes, WalkIsSound
<1>5. CASE Walks!Install \/ Walks!Abandon \/ Walks!Restart
  <2>1. walk' = Walks!NoWalk /\ cache' \in {cache, saved, walk.next} /\ saved' = saved /\ quiet' = quiet
    BY <1>5 DEF Walks!Install, Walks!Abandon, Walks!Restart
  <2>2. cache' \in TreeListings /\ saved' \in TreeListings /\ Walks!NoWalk \in WalkState
    BY <1>1, <1>3, <2>1, NoWalkIsSound DEF WalkTypes, WalkState
  <2>3. Sound(cache)' /\ Sound(saved)'
    BY <1>1, <1>3, <2>1 DEF WalkIsSound, Sound, Walks!Present
  <2>4. WalkIsSound(Walks!NoWalk)
    BY <1>1, NoWalkIsSound
  <2>5. WalkIsSound(walk)'
    BY <1>1, <2>1, <2>4 DEF WalkIsSound, Sound, Steady, ExactSoFar, Ahead, Walks!Present
  <2> QED
    BY <1>1, <1>3, <2>1, <2>2, <2>3, <2>5 DEF WalkInv, WalkTypes, TreeTypes
<1>6. CASE Walks!Save
  <2>1. saved' = cache /\ UNCHANGED <<cache, walk, quiet>>
    BY <1>6 DEF Walks!Save
  <2>2. Sound(cache)' /\ Sound(saved)'
    BY <1>1, <1>3, <2>1 DEF Sound, Walks!Present
  <2>3. WalkIsSound(walk)'
    BY <1>1, <1>3, <2>1 DEF WalkIsSound, Sound, Steady, ExactSoFar, Ahead, Walks!Present
  <2> QED
    BY <1>1, <1>3, <2>1, <2>2, <2>3 DEF WalkInv, WalkTypes, TreeTypes
<1> QED
  BY <1>4, <1>5, <1>6

LEMMA WalksNext == ASSUME WalkInv, Walks!Next PROVE WalkInv'
BY WalksTree, WalksAround, WalksStatRoot, WalksReadRoot, WalksStatDir, WalksReadDir DEF Walks!Next

\* For any number of folders, directories, walks and changes, and any racy window: a walk that nothing
\* disturbed finds the tree as it is, although the listings it reuses come from walks that were
\* (scancache's Lookup and Record, iterateShelfTree).
THEOREM QuietWalksFindTheTree == MCSpec => []QuietWalkIsExact
<1> DEFINE Inv == part = "walks" => WalkInv
<1>1. MCInit => Inv
  BY WalksInit DEF MCInit
<1>2. ASSUME Inv, [MCNext]_bookvars PROVE Inv'
  <2>1. CASE part = "walks" /\ Walks!Next /\ UNCHANGED part
    BY <1>2, <2>1, WalksNext
  <2>2. CASE UNCHANGED <<part, now, walkvars>>
    BY <1>2, <2>2
    DEF walkvars, WalkInv, WalkTypes, TreeTypes, WalkIsSound, Sound, Steady, ExactSoFar, Ahead, Walks!Present
  <2>3. CASE part # "walks" /\ UNCHANGED part
    BY <2>3
  <2> QED
    BY <1>2, <2>1, <2>2, <2>3 DEF MCNext, bookvars
<1>3. Inv => QuietWalkIsExact
  <2> SUFFICES ASSUME WalkInv, Walks!Finished, quiet, ~walk.failed
               PROVE  /\ walk.names = Walks!Present
                      /\ walk.found = [n \in Walks!Present |-> dirs[root.entry[n]].kids]
    BY DEF QuietWalkIsExact, Walks!QuietWalkIsExact
  <2>1. Ahead(walk) = {}
    BY DEF Walks!Finished, Ahead
  <2>2. Walks!Present \ {} = Walks!Present
    OBVIOUS
  <2> QED
    BY <2>1, <2>2 DEF WalkInv, WalkIsSound, ExactSoFar, Walks!Finished
<1> QED
  BY <1>1, <1>2, <1>3, PTL DEF MCSpec, bookvars

-----------------------------------------------------------------------------
(* BookMeta, one request or scan at a time.                                *)

AloneStage == {"idle", "stat", "count", "publish", "have", "write", "assign", "refresh", "restore", "put"}
AloneMeta == [edits : SUBSET Nat, cur : AloneSources]
AloneCount == (AloneSources \X Nat) \cup {None}

AloneTypes ==
    /\ disk \in [meta : AloneMeta, rev : Nat] /\ heap \in [Objects -> [meta : AloneMeta, rev : Nat]]
    /\ words \in [AloneSources -> Nat]
    /\ entry \in [book : Objects, count : AloneCount, at : Nat]
    /\ pc \in [Actors -> AloneStage] /\ kind \in [Actors -> AllKinds \cup {None}]
    /\ book \in [Actors -> Objects \cup {None}]
    /\ copy \in [Actors -> [edits : SUBSET Nat, cur : AloneSources \cup {None}]]
    /\ stat \in [Actors -> [count : AloneCount, at : Nat]]
    /\ clock \in Nat /\ ops \in Nat /\ crossed = FALSE

Solo == \A a, b \in Actors : pc[a] # "idle" /\ pc[b] # "idle" => a = b

\* An object that remembers the revision of book.json has its metadata.
RevisionTells ==
    \A o \in Objects : heap[o].rev <= disk.rev /\ (heap[o].rev = disk.rev => heap[o].meta = disk.meta)

CountNow == <<disk.meta.cur, words[disk.meta.cur]>>

\* What an actor holds at each step.
AloneAt(a) ==
    /\ pc[a] \in {"idle", "stat"} => book[a] = None
    /\ pc[a] = "stat" => copy[a] = disk.meta
    /\ pc[a] \in {"count", "publish"} =>
          book[a] \in Objects /\ heap[book[a]].rev = disk.rev /\ entry.at <= stat[a].at
    /\ pc[a] \in {"have", "write", "assign", "refresh", "restore", "put"} => a \in Requests
    /\ pc[a] \in {"have", "write", "assign", "restore", "put"} => book[a] = entry.book
    /\ pc[a] = "write" =>
          /\ copy[a] \in AloneMeta /\ disk.meta.edits \subseteq copy[a].edits
          /\ kind[a] = "edit" => copy[a].cur = disk.meta.cur
    /\ pc[a] \in {"write", "assign"} => kind[a] \in {"edit", "point"}
    /\ pc[a] = "assign" => copy[a] = disk.meta
    /\ pc[a] \in {"count", "publish", "restore", "put"} => stat[a].at < clock
    /\ pc[a] \in {"restore", "put"} => entry.at <= stat[a].at
    /\ pc[a] \in {"publish", "put"} => stat[a].count = CountNow

\* The cache entry between a write and what follows it.
AloneEntry ==
    /\ entry.at < clock
    /\ (\A a \in Actors : pc[a] # "assign") => heap[entry.book].rev = disk.rev
    /\ (\A a \in Actors : pc[a] \notin {"refresh", "restore", "put"} /\ ~(pc[a] = "assign" /\ kind[a] = "point"))
       => entry.count = CountNow

AloneInv ==
    /\ AloneTypes /\ Solo /\ RevisionTells /\ AloneEntry /\ acked \subseteq disk.meta.edits
    /\ \A a \in Actors : AloneAt(a)

LEMMA FreeObject ==
    ASSUME entry.book \in Objects, book \in [Actors -> Objects \cup {None}],
           NEW a \in Actors, book[a] = None
    PROVE  (CHOOSE p \in Objects : p \notin Live) \in Objects
<1> DEFINE f == [b \in Actors |-> IF book[b] = None THEN entry.book ELSE book[b]]
<1>1. f \in [Actors -> Objects]
  OBVIOUS
<1>2. PICK p \in Objects : \A b \in Actors : f[b] # p
  BY <1>1, BookAssumption
<1>3. p # entry.book /\ \A b \in Actors : book[b] # p
  BY <1>2, BookAssumption
<1>4. p \notin Live
  BY <1>3 DEF Live
<1> QED
  BY <1>4

LEMMA AloneIsHere == Alone!Actors = Actors /\ Alone!Live = Live /\ Alone!AllKinds = AllKinds
BY DEF Alone!Actors, Alone!Live, Live, Actors, Alone!AllKinds, AllKinds

LEMMA AloneInitInv == Alone!Init => AloneInv
<1> SUFFICES ASSUME Alone!Init PROVE AloneInv
  OBVIOUS
<1> USE BookAssumption, AloneIsHere
<1> DEFINE o == CHOOSE p \in Objects : TRUE
<1>1. o \in Objects
  OBVIOUS
<1>2. PICK src \in AloneSources :
        /\ disk = [meta |-> [edits |-> {}, cur |-> src], rev |-> 0]
        /\ words = [s \in AloneSources |-> 0]
        /\ heap = [p \in Objects |-> disk]
        /\ entry = [book |-> o, count |-> <<src, 0>>, at |-> 0]
        /\ pc = [a \in Actors |-> "idle"] /\ kind = [a \in Actors |-> None]
        /\ book = [a \in Actors |-> None] /\ copy = [a \in Actors |-> Alone!NoMeta]
        /\ stat = [a \in Actors |-> Alone!NoStat] /\ clock = 1 /\ ops = 0 /\ acked = {} /\ crossed = FALSE
  BY DEF Alone!Init
<1> HIDE DEF o
<1>3. disk \in [meta : AloneMeta, rev : Nat] /\ disk.meta.cur = src /\ disk.rev = 0
  BY <1>2 DEF AloneMeta
<1>4. entry \in [book : Objects, count : AloneCount, at : Nat] /\ words \in [AloneSources -> Nat]
  BY <1>1, <1>2 DEF AloneCount
<1>5. AloneTypes
  BY <1>2, <1>3, <1>4 DEF AloneTypes, AloneStage, AloneMeta, AloneCount, Alone!NoMeta, Alone!NoStat
<1>6. AloneEntry
  BY <1>1, <1>2, <1>3 DEF AloneEntry, CountNow
<1>7. Solo /\ RevisionTells /\ acked \subseteq disk.meta.edits
  <2>1. \A p \in Objects : heap[p] = disk
    BY <1>2
  <2>2. RevisionTells
    BY <1>3, <2>1 DEF RevisionTells
  <2>3. Solo
    BY <1>2 DEF Solo
  <2> QED
    BY <1>2, <2>2, <2>3
<1>8. \A a \in Actors : AloneAt(a)
  BY <1>2 DEF AloneAt
<1> QED
  BY <1>5, <1>6, <1>7, <1>8 DEF AloneInv

\* Only one actor is under way: what is left to show of a step of a.
LEMMA AloneMoves ==
    ASSUME AloneInv, NEW a \in Actors, pc[a] # "idle" \/ \A b \in Actors : pc[b] = "idle",
           NEW s \in AloneStage, pc' = [pc EXCEPT ![a] = s],
           \A b \in Actors : b # a => book'[b] = book[b]
    PROVE  /\ pc' \in [Actors -> AloneStage] /\ pc'[a] = s /\ Solo'
           /\ \A b \in Actors : b # a => pc'[b] = "idle" /\ pc[b] = "idle" /\ AloneAt(b)'
<1>1. pc \in [Actors -> AloneStage] /\ Solo /\ \A b \in Actors : AloneAt(b)
  BY DEF AloneInv, AloneTypes
<1>2. \A b \in Actors : b # a => pc'[b] = "idle" /\ pc[b] = "idle"
  BY <1>1 DEF Solo
<1>3. ASSUME NEW b \in Actors, b # a PROVE AloneAt(b)'
  BY <1>1, <1>2, <1>3 DEF AloneAt
<1> QED
  BY <1>1, <1>2, <1>3 DEF Solo

LEMMA AloneScan == ASSUME AloneInv, NEW a \in Actors, Alone!Scan(a) PROVE AloneInv'
<1> USE AloneIsHere
<1>1. /\ pc[a] = "idle" /\ \A b \in Actors : pc[b] = "idle"
      /\ copy' = [copy EXCEPT ![a] = disk.meta] /\ pc' = [pc EXCEPT ![a] = "stat"] /\ ops' = ops + 1
      /\ UNCHANGED <<disk, words, heap, entry, kind, book, stat, clock, acked, crossed>>
  BY DEF Alone!Scan, Alone!MayBegin, Alone!ReadMeta, Alone!Goto, Alone!files
<1>2. AloneTypes /\ RevisionTells /\ AloneEntry /\ AloneAt(a) /\ acked \subseteq disk.meta.edits
  BY DEF AloneInv
<1>3. /\ pc' \in [Actors -> AloneStage] /\ pc'[a] = "stat" /\ Solo'
      /\ \A b \in Actors : b # a => pc'[b] = "idle" /\ AloneAt(b)'
  BY <1>1, AloneMoves DEF AloneStage
<1>4. AloneTypes' /\ copy'[a] = disk.meta
  BY <1>1, <1>2, <1>3 DEF AloneTypes, AloneMeta
<1>5. RevisionTells' /\ AloneEntry' /\ acked' \subseteq disk'.meta.edits
  BY <1>1, <1>2, <1>3 DEF RevisionTells, AloneEntry, CountNow
<1>6. AloneAt(a)'
  BY <1>1, <1>2, <1>3, <1>4 DEF AloneAt
<1> QED
  BY <1>3, <1>4, <1>5, <1>6 DEF AloneInv

LEMMA AloneScanStat == ASSUME AloneInv, NEW a \in Actors, Alone!ScanStat(a) PROVE AloneInv'
<1> USE AloneIsHere
<1> DEFINE o == CHOOSE p \in Objects : p \notin Live
<1>1. /\ pc[a] = "stat" /\ heap' = [heap EXCEPT ![o] = [meta |-> copy[a], rev |-> disk.rev]]
      /\ book' = [book EXCEPT ![a] = o] /\ stat' = [stat EXCEPT ![a] = [count |-> None, at |-> clock]]
      /\ clock' = clock + 1 /\ pc' = [pc EXCEPT ![a] = "count"]
      /\ UNCHANGED <<disk, words, entry, kind, copy, ops, acked, crossed>>
  BY DEF Alone!ScanStat, Alone!StatMeta, Alone!DateStat, Alone!Goto, Alone!files
<1>2. AloneTypes /\ RevisionTells /\ AloneEntry /\ AloneAt(a) /\ acked \subseteq disk.meta.edits
  BY DEF AloneInv
<1>3. o \in Objects /\ copy[a] = disk.meta
  BY <1>1, <1>2, FreeObject DEF AloneTypes, AloneAt
<1> HIDE DEF o
<1>4. AloneTypes' /\ book'[a] = o /\ stat'[a].at = clock /\ \A b \in Actors : b # a => book'[b] = book[b]
  BY <1>1, <1>2, <1>3 DEF AloneTypes, AloneMeta, AloneCount, AloneStage
<1>5. /\ pc' \in [Actors -> AloneStage] /\ pc'[a] = "count" /\ Solo'
      /\ \A b \in Actors : b # a => pc'[b] = "idle" /\ pc[b] = "idle" /\ AloneAt(b)'
  BY <1>1, <1>4, AloneMoves DEF AloneStage
<1>6. \A p \in Objects : heap'[p] = heap[p] \/ (heap'[p].meta = disk.meta /\ heap'[p].rev = disk.rev)
  BY <1>1, <1>2, <1>3 DEF AloneTypes
<1>7. heap'[o].rev = disk.rev /\ heap[entry.book].rev = disk.rev /\ entry.count = CountNow
  BY <1>1, <1>2, <1>3, <1>5 DEF AloneTypes, AloneEntry
<1>8. RevisionTells'
  BY <1>1, <1>2, <1>6 DEF RevisionTells, AloneTypes
<1>9. AloneEntry'
  BY <1>1, <1>2, <1>6, <1>7 DEF AloneEntry, CountNow, AloneTypes
<1>10. AloneAt(a)'
  BY <1>1, <1>2, <1>3, <1>4, <1>5, <1>7 DEF AloneAt, AloneEntry, AloneTypes
<1> QED
  BY <1>1, <1>2, <1>4, <1>5, <1>8, <1>9, <1>10 DEF AloneInv

\* Counting the current source of a's object, which is the one of book.json.
LEMMA AloneCounts ==
    ASSUME AloneInv, NEW a \in Actors, NEW s \in {"publish", "put"}, Alone!CountSource(a, s),
           pc[a] = IF s = "publish" THEN "count" ELSE "restore",
           UNCHANGED <<disk, words, heap, entry, kind, book, copy, clock, ops, acked, crossed>>
    PROVE  AloneInv'
<1> DEFINE src == heap[book[a]].meta.cur
<1>1. stat' = [stat EXCEPT ![a].count = <<src, words[src]>>] /\ pc' = [pc EXCEPT ![a] = s]
  BY DEF Alone!CountSource, Alone!Goto
<1>2. AloneTypes /\ RevisionTells /\ AloneEntry /\ AloneAt(a) /\ acked \subseteq disk.meta.edits
  BY DEF AloneInv
<1>3. /\ pc' \in [Actors -> AloneStage] /\ pc'[a] = s /\ Solo'
      /\ \A b \in Actors : b # a => pc'[b] = "idle" /\ pc[b] = "idle" /\ AloneAt(b)'
  BY <1>1, AloneMoves DEF AloneStage
<1>4. book[a] \in Objects /\ heap[book[a]].rev = disk.rev
  BY <1>2, <1>3 DEF AloneAt, AloneTypes, AloneEntry
<1>5. src = disk.meta.cur
  BY <1>2, <1>4 DEF RevisionTells
<1>6. <<src, words[src]>> \in AloneCount /\ <<src, words[src]>> = CountNow
  BY <1>2, <1>5 DEF AloneTypes, AloneMeta, AloneCount, CountNow
<1> HIDE DEF src
<1>7. AloneTypes' /\ stat'[a].count = CountNow /\ stat'[a].at = stat[a].at
  <2> DEFINE q == [stat[a] EXCEPT !.count = <<src, words[src]>>]
  <2>1. q \in [count : AloneCount, at : Nat] /\ q.count = <<src, words[src]>> /\ q.at = stat[a].at
    BY <1>2, <1>6 DEF AloneTypes
  <2>2. stat' = [stat EXCEPT ![a] = q]
    BY <1>1, <1>2 DEF AloneTypes
  <2> HIDE DEF q
  <2>3. stat' \in [Actors -> [count : AloneCount, at : Nat]] /\ stat'[a] = q
    BY <1>2, <2>1, <2>2 DEF AloneTypes
  <2> QED
    BY <1>2, <1>3, <1>6, <2>1, <2>3 DEF AloneTypes
<1>8. RevisionTells' /\ AloneEntry'
  BY <1>1, <1>2, <1>3 DEF RevisionTells, AloneEntry, CountNow
<1>9. AloneAt(a)'
  BY <1>2, <1>3, <1>4, <1>7 DEF AloneAt, CountNow
<1> QED
  BY <1>2, <1>3, <1>7, <1>8, <1>9 DEF AloneInv

\* The actor ends, and the entry is one that shows book.json.
LEMMA AloneEnds ==
    ASSUME AloneInv, NEW a \in Actors, pc[a] # "idle", Alone!Release(a), UNCHANGED <<disk, words, clock, ops, crossed>>,
           heap' \in [Objects -> [meta : AloneMeta, rev : Nat]], RevisionTells',
           entry' \in [book : Objects, count : AloneCount, at : Nat],
           entry'.at < clock, heap'[entry'.book].rev = disk.rev, entry'.count = CountNow,
           acked' \subseteq disk.meta.edits
    PROVE  AloneInv'
<1> USE AloneIsHere
<1>1. /\ pc' = [pc EXCEPT ![a] = "idle"] /\ book' = [book EXCEPT ![a] = None]
      /\ kind' = [kind EXCEPT ![a] = None] /\ stat' = [stat EXCEPT ![a] = Alone!NoStat]
      /\ copy' = [copy EXCEPT ![a] = Alone!NoMeta]
  BY DEF Alone!Release, Alone!Goto
<1>2. AloneTypes /\ AloneAt(a)
  BY DEF AloneInv
<1>3. \A b \in Actors : b # a => book'[b] = book[b]
  BY <1>1, <1>2 DEF AloneTypes
<1>4. /\ pc' \in [Actors -> AloneStage] /\ pc'[a] = "idle" /\ Solo'
      /\ \A b \in Actors : b # a => pc'[b] = "idle" /\ pc[b] = "idle" /\ AloneAt(b)'
  BY <1>1, <1>3, AloneMoves DEF AloneStage
<1>5. AloneTypes' /\ book'[a] = None
  BY <1>1, <1>2, <1>4 DEF AloneTypes, AloneMeta, AloneCount, Alone!NoMeta, Alone!NoStat
<1>6. AloneEntry' /\ AloneAt(a)'
  BY <1>4, <1>5 DEF AloneEntry, AloneAt, CountNow
<1> QED
  BY <1>4, <1>5, <1>6 DEF AloneInv

LEMMA AlonePublish == ASSUME AloneInv, NEW a \in Actors, Alone!Publish(a) PROVE AloneInv'
<1>1. /\ pc[a] = "publish" /\ Alone!Release(a) /\ entry' = Alone!KeepNewer(Alone!Found(a))
      /\ UNCHANGED <<disk, words, heap, clock, ops, acked, crossed>>
  BY DEF Alone!Publish, Alone!files
<1>2. AloneTypes /\ RevisionTells /\ AloneEntry /\ AloneAt(a) /\ acked \subseteq disk.meta.edits
  BY DEF AloneInv
<1>3. /\ book[a] \in Objects /\ heap[book[a]].rev = disk.rev /\ entry.at <= stat[a].at
      /\ stat[a].count = CountNow
  BY <1>1, <1>2 DEF AloneAt
<1>4. entry.at \in Nat /\ stat[a].at \in Nat /\ stat[a] \in [count : AloneCount, at : Nat]
  BY <1>2 DEF AloneTypes
<1>5. entry' = [book |-> book[a], count |-> stat[a].count, at |-> stat[a].at]
  BY <1>1, <1>3, <1>4 DEF Alone!KeepNewer, Alone!Found
<1>6. stat[a].at < clock
  BY <1>1, <1>2 DEF AloneAt
<1>7. /\ entry' \in [book : Objects, count : AloneCount, at : Nat] /\ entry'.book = book[a]
      /\ entry'.count = CountNow /\ entry'.at < clock
  BY <1>3, <1>4, <1>5, <1>6
<1>8. heap' \in [Objects -> [meta : AloneMeta, rev : Nat]] /\ RevisionTells'
  BY <1>1, <1>2 DEF AloneTypes, RevisionTells
<1> QED
  BY <1>1, <1>2, <1>3, <1>7, <1>8, AloneEnds

LEMMA AloneLookup ==
    ASSUME AloneInv, NEW r \in Requests, NEW k \in AllKinds, Alone!Lookup(r, k)
    PROVE  AloneInv'
<1> USE AloneIsHere
<1>1. /\ pc[r] = "idle" /\ \A b \in Actors : pc[b] = "idle"
      /\ book' = [book EXCEPT ![r] = entry.book] /\ kind' = [kind EXCEPT ![r] = k]
      /\ ops' = ops + 1 /\ pc' = [pc EXCEPT ![r] = "have"]
      /\ UNCHANGED <<disk, words, heap, entry, copy, stat, clock, acked, crossed>>
  BY DEF Alone!Lookup, Alone!MayBegin, Alone!Goto, Alone!files
<1>2. AloneTypes /\ RevisionTells /\ AloneEntry /\ AloneAt(r) /\ acked \subseteq disk.meta.edits /\ r \in Actors
  BY DEF AloneInv, Actors
<1>3. AloneTypes' /\ book'[r] = entry.book /\ \A b \in Actors : b # r => book'[b] = book[b]
  BY <1>1, <1>2 DEF AloneTypes, AloneStage
<1>4. /\ pc' \in [Actors -> AloneStage] /\ pc'[r] = "have" /\ Solo'
      /\ \A b \in Actors : b # r => pc'[b] = "idle" /\ AloneAt(b)'
  BY <1>1, <1>2, <1>3, AloneMoves DEF AloneStage
<1>5. RevisionTells' /\ AloneEntry' /\ acked' \subseteq disk'.meta.edits
  BY <1>1, <1>2, <1>4 DEF RevisionTells, AloneEntry, CountNow
<1>6. AloneAt(r)'
  BY <1>1, <1>2, <1>3, <1>4 DEF AloneAt
<1> QED
  BY <1>3, <1>4, <1>5, <1>6 DEF AloneInv

\* The object of a request has the metadata of book.json until the request writes.
LEMMA AloneHas ==
    ASSUME AloneInv, NEW r \in Actors, pc[r] \in {"have", "write", "refresh", "restore"}
    PROVE  /\ entry.book \in Objects /\ heap[entry.book].rev = disk.rev /\ heap[entry.book].meta = disk.meta
           /\ pc[r] \in {"have", "write"} => entry.count = CountNow
<1>1. AloneTypes /\ RevisionTells /\ AloneEntry /\ Solo
  BY DEF AloneInv
<1>2. \A b \in Actors : b # r => pc[b] = "idle"
  BY <1>1 DEF Solo
<1>3. \A b \in Actors : pc[b] # "assign"
  BY <1>2
<1>4. heap[entry.book].rev = disk.rev /\ entry.book \in Objects
  BY <1>1, <1>3 DEF AloneEntry, AloneTypes
<1>5. pc[r] \in {"have", "write"} => entry.count = CountNow
  BY <1>1, <1>2 DEF AloneEntry
<1> QED
  BY <1>1, <1>4, <1>5 DEF RevisionTells

LEMMA AloneRewrite == ASSUME AloneInv, NEW r \in Requests, Alone!Rewrite(r) PROVE AloneInv'
<1> DEFINE src == heap[book[r]].meta.cur
<1>1. /\ pc[r] = "have" /\ words' = [words EXCEPT ![src] = @ + 1] /\ pc' = [pc EXCEPT ![r] = "refresh"]
      /\ UNCHANGED <<disk, heap, entry, kind, book, copy, stat, clock, ops, acked, crossed>>
  BY DEF Alone!Rewrite, Alone!Goto, Alone!local
<1>2. AloneTypes /\ RevisionTells /\ AloneEntry /\ AloneAt(r) /\ acked \subseteq disk.meta.edits /\ r \in Actors
  BY DEF AloneInv, Actors
<1>3. /\ pc' \in [Actors -> AloneStage] /\ pc'[r] = "refresh" /\ Solo'
      /\ \A b \in Actors : b # r => pc'[b] = "idle" /\ AloneAt(b)'
  BY <1>1, <1>2, AloneMoves DEF AloneStage
<1>4. words' \in [AloneSources -> Nat]
  <2>1. book[r] = entry.book /\ heap[entry.book].meta = disk.meta
    BY <1>1, <1>2, AloneHas DEF AloneAt
  <2>2. src \in AloneSources /\ words \in [AloneSources -> Nat]
    BY <1>2, <2>1 DEF AloneTypes, AloneMeta
  <2> HIDE DEF src
  <2> QED
    BY <1>1, <2>2
<1>5. AloneTypes'
  BY <1>1, <1>2, <1>3, <1>4 DEF AloneTypes
<1>6. heap[entry.book].rev = disk.rev
  BY <1>1, <1>2, AloneHas
<1>7. RevisionTells' /\ AloneEntry' /\ acked' \subseteq disk'.meta.edits
  BY <1>1, <1>2, <1>3, <1>6 DEF RevisionTells, AloneEntry
<1>8. AloneAt(r)'
  BY <1>1, <1>2, <1>3 DEF AloneAt
<1> QED
  BY <1>3, <1>5, <1>7, <1>8 DEF AloneInv

LEMMA AlonePatch == ASSUME AloneInv, NEW r \in Requests, Alone!Patch(r) PROVE AloneInv'
<1>1. /\ pc[r] = "have" /\ pc' = [pc EXCEPT ![r] = "write"]
      /\ UNCHANGED <<disk, words, heap, entry, kind, book, stat, clock, ops, acked, crossed>>
  BY DEF Alone!Patch, Alone!Goto, Alone!files
<1>2. AloneTypes /\ RevisionTells /\ AloneEntry /\ AloneAt(r) /\ acked \subseteq disk.meta.edits /\ r \in Actors
  BY DEF AloneInv, Actors
<1>3. /\ heap[entry.book].rev = disk.rev /\ heap[entry.book].meta = disk.meta /\ entry.count = CountNow
      /\ book[r] = entry.book
  BY <1>1, <1>2, AloneHas DEF AloneAt
<1>4. disk.meta \in AloneMeta /\ ops \in Nat
  BY <1>2 DEF AloneTypes
<1>5. PICK m \in AloneMeta :
        /\ copy' = [copy EXCEPT ![r] = m] /\ disk.meta.edits \subseteq m.edits
        /\ kind[r] \in {"edit", "point"} /\ (kind[r] = "edit" => m.cur = disk.meta.cur)
  <2> DEFINE m == disk.meta
  <2>1. CASE kind[r] = "edit" /\ copy' = [copy EXCEPT ![r] = [m EXCEPT !.edits = @ \cup {ops}]]
    <3> DEFINE q == [m EXCEPT !.edits = @ \cup {ops}]
    <3>1. q \in AloneMeta /\ m.edits \subseteq q.edits /\ q.cur = m.cur
      BY <1>4 DEF AloneMeta
    <3> QED
      BY <2>1, <3>1
  <2>2. ASSUME kind[r] = "point", NEW src \in AloneSources \ {m.cur},
               copy' = [copy EXCEPT ![r] = [m EXCEPT !.cur = src]]
        PROVE  \E n \in AloneMeta :
                  /\ copy' = [copy EXCEPT ![r] = n] /\ disk.meta.edits \subseteq n.edits
                  /\ kind[r] \in {"edit", "point"} /\ (kind[r] = "edit" => n.cur = disk.meta.cur)
    <3> DEFINE q == [m EXCEPT !.cur = src]
    <3>1. q \in AloneMeta /\ m.edits \subseteq q.edits
      BY <1>4 DEF AloneMeta
    <3> QED
      BY <2>2, <3>1
  <2> QED
    BY <1>3, <2>1, <2>2 DEF Alone!Patch
<1>6. /\ pc' \in [Actors -> AloneStage] /\ pc'[r] = "write" /\ Solo'
      /\ \A b \in Actors : b # r => pc'[b] = "idle" /\ AloneAt(b)'
  BY <1>1, <1>2, AloneMoves DEF AloneStage
<1>7. AloneTypes' /\ copy'[r] = m
  BY <1>1, <1>2, <1>5, <1>6 DEF AloneTypes, AloneMeta
<1>8. RevisionTells' /\ AloneEntry' /\ acked' \subseteq disk'.meta.edits
  BY <1>1, <1>2, <1>3, <1>6 DEF RevisionTells, AloneEntry, CountNow
<1>9. AloneAt(r)'
  BY <1>1, <1>2, <1>5, <1>6, <1>7 DEF AloneAt
<1> QED
  BY <1>6, <1>7, <1>8, <1>9 DEF AloneInv

LEMMA AloneWriteMeta == ASSUME AloneInv, NEW r \in Requests, Alone!WriteMeta(r) PROVE AloneInv'
<1>1. /\ pc[r] = "write" /\ disk' = [meta |-> copy[r], rev |-> disk.rev + 1]
      /\ pc' = [pc EXCEPT ![r] = "assign"]
      /\ crossed' = (crossed \/ Alone!Crosses(r))
      /\ UNCHANGED <<words, heap, entry, kind, book, copy, stat, clock, ops, acked>>
  BY DEF Alone!WriteMeta, Alone!Goto, Alone!local
<1>2. AloneTypes /\ RevisionTells /\ AloneEntry /\ AloneAt(r) /\ acked \subseteq disk.meta.edits /\ r \in Actors
  BY DEF AloneInv, Actors
<1>3. /\ copy[r] \in AloneMeta /\ disk.meta.edits \subseteq copy[r].edits /\ kind[r] \in {"edit", "point"}
      /\ (kind[r] = "edit" => copy[r].cur = disk.meta.cur) /\ entry.count = CountNow
  BY <1>1, <1>2, AloneHas DEF AloneAt
<1>4. /\ pc' \in [Actors -> AloneStage] /\ pc'[r] = "assign" /\ Solo'
      /\ \A b \in Actors : b # r => pc'[b] = "idle" /\ AloneAt(b)'
  BY <1>1, <1>2, AloneMoves DEF AloneStage
<1>x. crossed' = FALSE
  <2>1. book[r] = entry.book /\ \A a \in Actors : a # r => pc[a] = "idle"
    BY <1>1, <1>2, <1>4 DEF AloneAt, AloneInv, Solo
  <2>2. ~Alone!Crosses(r)
    BY <2>1, AloneIsHere DEF Alone!Crosses, Alone!Holds
  <2> QED
    BY <1>1, <1>2, <2>2 DEF AloneTypes
<1>5. AloneTypes' /\ disk'.meta = copy[r] /\ disk'.rev = disk.rev + 1
  BY <1>1, <1>2, <1>3, <1>4, <1>x DEF AloneTypes
<1>6. RevisionTells'
  BY <1>1, <1>2, <1>5 DEF RevisionTells, AloneTypes
<1>7. AloneEntry'
  BY <1>1, <1>2, <1>3, <1>4, <1>5 DEF AloneEntry, CountNow
<1>8. AloneAt(r)'
  BY <1>1, <1>2, <1>3, <1>4, <1>5 DEF AloneAt
<1> QED
  BY <1>1, <1>2, <1>3, <1>4, <1>5, <1>6, <1>7, <1>8 DEF AloneInv

LEMMA AloneAssign == ASSUME AloneInv, NEW r \in Requests, Alone!Assign(r) PROVE AloneInv'
<1>1. /\ pc[r] = "assign" /\ heap' = [heap EXCEPT ![book[r]] = [meta |-> copy[r], rev |-> disk.rev]]
      /\ UNCHANGED <<disk, words, entry, clock, ops, crossed>>
      /\ IF kind[r] = "edit"
           THEN Alone!Release(r) /\ acked' = acked \cup copy[r].edits
           ELSE pc' = [pc EXCEPT ![r] = "refresh"] /\ UNCHANGED <<kind, book, copy, stat, acked>>
  BY DEF Alone!Assign, Alone!Goto, Alone!local, Alone!files
<1>2. AloneTypes /\ RevisionTells /\ AloneEntry /\ AloneAt(r) /\ acked \subseteq disk.meta.edits /\ r \in Actors
      /\ Solo
  BY DEF AloneInv, Actors
<1>3. book[r] = entry.book /\ copy[r] = disk.meta /\ entry.book \in Objects /\ kind[r] \in {"edit", "point"}
  BY <1>1, <1>2 DEF AloneAt, AloneTypes
<1>4. /\ heap' \in [Objects -> [meta : AloneMeta, rev : Nat]] /\ heap'[entry.book].rev = disk.rev
      /\ \A p \in Objects : heap'[p] = heap[p] \/ (heap'[p].meta = disk.meta /\ heap'[p].rev = disk.rev)
  BY <1>1, <1>2, <1>3 DEF AloneTypes
<1>5. RevisionTells'
  BY <1>1, <1>2, <1>4 DEF RevisionTells, AloneTypes
<1>6. CASE kind[r] = "edit"
  <2>1. \A b \in Actors : b # r => pc[b] = "idle"
    BY <1>1, <1>2 DEF Solo
  <2>2. entry.count = CountNow /\ entry.at < clock
    BY <1>1, <1>2, <1>6, <2>1 DEF AloneEntry
  <2>3. acked' \subseteq disk.meta.edits /\ entry' \in [book : Objects, count : AloneCount, at : Nat]
    BY <1>1, <1>2, <1>3, <1>6 DEF AloneTypes
  <2> QED
    BY <1>1, <1>2, <1>4, <1>5, <1>6, <2>2, <2>3, AloneEnds
<1>7. CASE kind[r] # "edit"
  <2>1. pc' = [pc EXCEPT ![r] = "refresh"] /\ UNCHANGED <<kind, book, copy, stat, acked>>
    BY <1>1, <1>7
  <2>2. /\ pc' \in [Actors -> AloneStage] /\ pc'[r] = "refresh" /\ Solo'
        /\ \A b \in Actors : b # r => pc'[b] = "idle" /\ AloneAt(b)'
    BY <1>1, <1>2, <2>1, AloneMoves DEF AloneStage
  <2>3. AloneTypes'
    BY <1>1, <1>2, <1>4, <2>1, <2>2 DEF AloneTypes
  <2>4. AloneEntry'
    BY <1>1, <1>2, <1>4, <2>2 DEF AloneEntry
  <2>5. AloneAt(r)'
    BY <1>1, <1>2, <2>1, <2>2 DEF AloneAt
  <2> QED
    BY <1>1, <1>2, <1>5, <2>1, <2>2, <2>3, <2>4, <2>5 DEF AloneInv
<1> QED
  BY <1>6, <1>7

LEMMA AloneRefresh == ASSUME AloneInv, NEW r \in Requests, Alone!Refresh(r) PROVE AloneInv'
<1>1. /\ pc[r] = "refresh" /\ book' = [book EXCEPT ![r] = entry.book]
      /\ stat' = [stat EXCEPT ![r] = [count |-> None, at |-> clock]] /\ clock' = clock + 1
      /\ pc' = [pc EXCEPT ![r] = "restore"]
      /\ UNCHANGED <<disk, words, heap, entry, kind, copy, ops, acked, crossed>>
  BY DEF Alone!Refresh, Alone!DateStat, Alone!Goto, Alone!files
<1>2. AloneTypes /\ RevisionTells /\ AloneEntry /\ AloneAt(r) /\ acked \subseteq disk.meta.edits /\ r \in Actors
  BY DEF AloneInv, Actors
<1>3. /\ AloneTypes' /\ book'[r] = entry.book /\ stat'[r].at = clock
      /\ \A b \in Actors : b # r => book'[b] = book[b]
  BY <1>1, <1>2 DEF AloneTypes, AloneStage, AloneCount
<1>4. /\ pc' \in [Actors -> AloneStage] /\ pc'[r] = "restore" /\ Solo'
      /\ \A b \in Actors : b # r => pc'[b] = "idle" /\ AloneAt(b)'
  BY <1>1, <1>2, <1>3, AloneMoves DEF AloneStage
<1>5. heap[entry.book].rev = disk.rev
  BY <1>1, <1>2, AloneHas
<1>6. RevisionTells' /\ AloneEntry' /\ acked' \subseteq disk'.meta.edits
  BY <1>1, <1>2, <1>4, <1>5 DEF RevisionTells, AloneEntry, AloneTypes
<1>7. AloneAt(r)'
  BY <1>1, <1>2, <1>3, <1>4 DEF AloneAt, AloneEntry, AloneTypes
<1> QED
  BY <1>3, <1>4, <1>6, <1>7 DEF AloneInv

LEMMA AlonePut == ASSUME AloneInv, NEW r \in Requests, Alone!Put(r) PROVE AloneInv'
<1>1. /\ pc[r] = "put" /\ Alone!Release(r) /\ UNCHANGED <<disk, words, heap, clock, ops, acked, crossed>>
      /\ entry' = IF entry.at > stat[r].at THEN entry
                  ELSE [entry EXCEPT !.count = stat[r].count, !.at = stat[r].at]
  BY DEF Alone!Put, Alone!files
<1>2. AloneTypes /\ RevisionTells /\ AloneEntry /\ AloneAt(r) /\ acked \subseteq disk.meta.edits /\ r \in Actors
      /\ Solo
  BY DEF AloneInv, Actors
<1>3. entry.at <= stat[r].at /\ stat[r].count = CountNow /\ stat[r].at < clock
  BY <1>1, <1>2 DEF AloneAt
<1>4. entry.at \in Nat /\ stat[r] \in [count : AloneCount, at : Nat]
      /\ entry \in [book : Objects, count : AloneCount, at : Nat]
  BY <1>2 DEF AloneTypes
<1>5. entry' = [entry EXCEPT !.count = stat[r].count, !.at = stat[r].at]
  BY <1>1, <1>3, <1>4
<1>6. /\ entry' \in [book : Objects, count : AloneCount, at : Nat] /\ entry'.book = entry.book
      /\ entry'.count = CountNow /\ entry'.at < clock
  BY <1>3, <1>4, <1>5
<1>7. heap[entry.book].rev = disk.rev
  BY <1>1, <1>2 DEF Solo, AloneEntry
<1>8. heap' \in [Objects -> [meta : AloneMeta, rev : Nat]] /\ RevisionTells'
  BY <1>1, <1>2 DEF AloneTypes, RevisionTells
<1> QED
  BY <1>1, <1>2, <1>6, <1>7, <1>8, AloneEnds

LEMMA AloneNextInv == ASSUME AloneInv, Alone!Next PROVE AloneInv'
<1> USE AloneIsHere
<1>1. /\ Readers \subseteq Actors /\ Requests \subseteq Actors
      /\ \A a \in Actors : pc[a] \in AloneStage
  BY DEF Actors, AloneInv, AloneTypes
<1>2. ASSUME NEW r \in Requests, NEW k \in AllKinds, Alone!Reopen(r, k) PROVE FALSE
  <2>1. \A b \in Actors : pc[b] = "idle"
    BY <1>2 DEF Alone!Reopen, Alone!MayBegin
  <2>2. heap[entry.book].rev = disk.rev
    BY <2>1 DEF AloneInv, AloneEntry
  <2> QED
    BY <1>2, <2>2 DEF Alone!Reopen, Alone!IsStale
<1>3. ASSUME NEW r \in Requests, Alone!ReopenStat(r) \/ Alone!ReopenCount(r) \/ Alone!Readd(r) PROVE FALSE
  BY <1>1, <1>3 DEF Alone!ReopenStat, Alone!ReopenCount, Alone!Readd, AloneStage
<1>4. ASSUME NEW a \in Readers,
             Alone!Scan(a) \/ Alone!Check(a) \/ Alone!ScanStat(a) \/ Alone!ScanCount(a) \/ Alone!Publish(a)
      PROVE  AloneInv'
  <2>1. CASE Alone!Scan(a) \/ Alone!Check(a)
    BY <1>1, <2>1, AloneScan DEF Alone!Check
  <2>2. CASE Alone!ScanStat(a) \/ Alone!Publish(a)
    BY <1>1, <2>2, AloneScanStat, AlonePublish
  <2>3. CASE Alone!ScanCount(a)
    BY <1>1, <2>3, AloneCounts DEF Alone!ScanCount, Alone!files
  <2> QED
    BY <1>4, <2>1, <2>2, <2>3
<1>5. ASSUME NEW r \in Requests,
             Alone!Rewrite(r) \/ Alone!Patch(r) \/ Alone!WriteMeta(r) \/ Alone!Assign(r) \/ Alone!Refresh(r)
                \/ Alone!RefreshCount(r) \/ Alone!Put(r)
      PROVE  AloneInv'
  <2>1. CASE Alone!RefreshCount(r)
    BY <1>1, <2>1, AloneCounts DEF Alone!RefreshCount, Alone!files
  <2> QED
    BY <1>5, <2>1, AloneRewrite, AlonePatch, AloneWriteMeta, AloneAssign, AloneRefresh, AlonePut
<1> QED
  BY <1>2, <1>3, <1>4, <1>5, AloneLookup DEF Alone!Next

LEMMA AloneInvariant == MCSpec => [](part = "alone" => AloneInv)
<1> DEFINE Inv == part = "alone" => AloneInv
<1>1. MCInit => Inv
  BY AloneInitInv DEF MCInit
<1>2. ASSUME Inv, [MCNext]_bookvars PROVE Inv'
  <2>1. CASE part = "alone" /\ Alone!Next /\ UNCHANGED part
    BY <1>2, <2>1, AloneNextInv
  <2>2. CASE UNCHANGED <<part, vars>>
    BY <1>2, <2>2
    DEF vars, files, local, AloneInv, AloneTypes, Solo, RevisionTells, AloneEntry, AloneAt, CountNow
  <2>3. CASE part # "alone" /\ UNCHANGED part
    BY <2>3
  <2> QED
    BY <1>2, <2>1, <2>2, <2>3 DEF MCNext, bookvars
<1> QED
  BY <1>1, <1>2, PTL DEF MCSpec, bookvars

\* For any number of requests, scans, objects, sources and edits that follow one another: what a
\* request was told is saved is in book.json, and lookups and listings show it (setMeta,
\* SetCurrentSource, getUpdatedBookFromBookID).
THEOREM EditsOneAfterAnother == MCSpec => []EditsBuildUp
<1>1. AloneInv => Alone!EditsKept /\ Alone!CacheCurrent
  <2> SUFFICES ASSUME AloneInv, \A a \in Alone!Actors : pc[a] = "idle"
               PROVE  heap[entry.book].meta = disk.meta
    BY DEF AloneInv, Alone!EditsKept, Alone!CacheCurrent
  <2>1. heap[entry.book].rev = disk.rev /\ entry.book \in Objects
    BY AloneIsHere DEF AloneInv, AloneEntry, AloneTypes
  <2> QED
    BY <2>1 DEF AloneInv, RevisionTells
<1>2. (part = "alone" => AloneInv) => EditsBuildUp
  BY <1>1 DEF EditsBuildUp
<1> QED
  BY <1>2, AloneInvariant, PTL

-----------------------------------------------------------------------------
(* BookMeta, requests and scans that overlap.                              *)

CountsLock == {"restat", "recount", "readd"}
CountsStage == AloneStage \cup CountsLock
CountsMeta == [edits : SUBSET Nat, cur : Sources]
CountsPair == (Sources \X Nat) \cup {None}

CountsTypes ==
    /\ disk \in [meta : CountsMeta, rev : Nat] /\ heap \in [Objects -> [meta : CountsMeta, rev : Nat]]
    /\ \A o \in Objects : heap[o].rev <= disk.rev
    /\ words \in [Sources -> Nat]
    /\ entry \in [book : Objects, count : CountsPair, at : Nat]
    /\ pc \in [Actors -> CountsStage] /\ kind \in [Actors -> Kinds \cup {None}]
    /\ book \in [Actors -> Objects \cup {None}]
    /\ copy \in [Actors -> [edits : SUBSET Nat, cur : Sources \cup {None}]]
    /\ stat \in [Actors -> [count : CountsPair, at : Nat]]
    /\ clock \in Nat /\ ops \in Nat /\ crossed \in BOOLEAN

OneLookup == \A a, b \in Actors : pc[a] \in CountsLock /\ pc[b] \in CountsLock => a = b

\* What an actor holds at each step.
BaseAt(a) ==
    /\ stat[a].at < clock
    /\ pc[a] \in {"idle", "stat", "restat"} => book[a] = None
    /\ pc[a] \notin {"idle", "stat", "restat"} => book[a] \in Objects
    /\ pc[a] \in {"stat", "restat", "write", "assign"} => copy[a] \in CountsMeta
    /\ pc[a] \in CountsLock \cup {"have", "write", "assign", "refresh", "restore", "put"} => a \in Requests
    /\ pc[a] \in {"recount", "readd"} => entry.at < stat[a].at

CountsBase ==
    /\ CountsTypes /\ OneLookup /\ entry.at < clock
    /\ \A a \in Actors : BaseAt(a)

\* A request has written a new pointer, and its object does not have it yet.
Moves(a) == pc[a] = "assign" /\ kind[a] = "point"
Moving == \E a \in Actors : Moves(a)

Follows(o) == heap[o].meta.cur = disk.meta.cur

\* What an actor will use of book.json has the pointer of today.
PointerAt(a) ==
    /\ pc[a] \in {"stat", "restat", "assign"} \/ (pc[a] = "write" /\ kind[a] # "point")
         => copy[a].cur = disk.meta.cur
    /\ pc[a] \in {"count", "publish", "recount", "readd", "have"} => Follows(book[a])

\* So has the entry's object, unless it is the one that the pointer's request will update;
\* until then it is stale, and no lookup uses it.
EntryFollows ==
    \/ Follows(entry.book)
    \/ heap[entry.book].rev # disk.rev /\ \E a \in Actors : Moves(a) /\ book[a] = entry.book

\* A request that will still refresh the count.
Awaits(a, W) == pc[a] = "refresh" \/ (pc[a] \in {"restore", "put"} /\ W <= stat[a].at)

\* W is when a source was last rewritten or the pointer moved: a count that was dated since
\* then is current.
CountedAt(a, W) ==
    /\ pc[a] \in {"publish", "readd", "put"} /\ W <= stat[a].at => stat[a].count = CountNow
    /\ pc[a] = "restore" /\ W <= stat[a].at => Follows(book[a])

CountedEntry(W) ==
    /\ W <= entry.at => entry.count = CountNow
    /\ entry.at < W => \E a \in Actors : Awaits(a, W)

\* No pointer move has crossed what another actor had read.
Calm(W) ==
    /\ W <= clock /\ EntryFollows
    /\ \A a \in Actors : PointerAt(a)
    /\ ~Moving => CountedEntry(W) /\ \A a \in Actors : CountedAt(a, W)

LEMMA CountsInit == Init => CountsBase /\ ~crossed /\ Calm(0)
<1> SUFFICES ASSUME Init PROVE CountsBase /\ ~crossed /\ Calm(0)
  OBVIOUS
<1> USE BookAssumption
<1> DEFINE o == CHOOSE p \in Objects : TRUE
<1>1. o \in Objects
  OBVIOUS
<1>2. PICK src \in Sources :
        /\ disk = [meta |-> [edits |-> {}, cur |-> src], rev |-> 0]
        /\ words = [s \in Sources |-> 0]
        /\ heap = [p \in Objects |-> disk]
        /\ entry = [book |-> o, count |-> <<src, 0>>, at |-> 0]
        /\ pc = [a \in Actors |-> "idle"] /\ kind = [a \in Actors |-> None]
        /\ book = [a \in Actors |-> None] /\ copy = [a \in Actors |-> NoMeta]
        /\ stat = [a \in Actors |-> NoStat] /\ clock = 1 /\ ops = 0 /\ acked = {} /\ crossed = FALSE
  BY DEF Init
<1> HIDE DEF o
<1>3. disk \in [meta : CountsMeta, rev : Nat] /\ disk.rev = 0 /\ disk.meta.cur = src
  BY <1>2 DEF CountsMeta
<1>4. entry \in [book : Objects, count : CountsPair, at : Nat] /\ words \in [Sources -> Nat]
  BY <1>1, <1>2 DEF CountsPair
<1>5. CountsTypes
  <2>1. heap \in [Objects -> [meta : CountsMeta, rev : Nat]] /\ \A p \in Objects : heap[p].rev <= disk.rev
    BY <1>2, <1>3
  <2>2. /\ pc \in [Actors -> CountsStage] /\ kind \in [Actors -> Kinds \cup {None}]
        /\ book \in [Actors -> Objects \cup {None}]
    BY <1>2 DEF CountsStage, AloneStage
  <2>3. copy \in [Actors -> [edits : SUBSET Nat, cur : Sources \cup {None}]]
    BY <1>2 DEF NoMeta
  <2>4. stat \in [Actors -> [count : CountsPair, at : Nat]]
    BY <1>2 DEF CountsPair, NoStat
  <2>5. clock \in Nat /\ ops \in Nat /\ crossed \in BOOLEAN
    BY <1>2
  <2> QED
    BY <1>3, <1>4, <2>1, <2>2, <2>3, <2>4, <2>5 DEF CountsTypes
<1>6. OneLookup /\ \A a \in Actors : BaseAt(a)
  BY <1>2 DEF OneLookup, BaseAt, CountsLock, NoStat
<1>7. EntryFollows /\ CountedEntry(0) /\ entry.at < clock /\ 0 <= clock
  BY <1>1, <1>2, <1>3 DEF EntryFollows, Follows, CountedEntry, CountNow
<1>8. \A a \in Actors : PointerAt(a) /\ CountedAt(a, 0)
  BY <1>2 DEF PointerAt, CountedAt
<1> QED
  BY <1>2, <1>5, <1>6, <1>7, <1>8 DEF CountsBase, Calm

\* What is left to show of a step of a.
LEMMA BaseMoves ==
    ASSUME CountsBase, NEW a \in Actors, NEW s \in CountsStage,
           pc' = [pc EXCEPT ![a] = s], clock <= clock', CountsTypes',
           \A b \in Actors : b # a => book'[b] = book[b] /\ copy'[b] = copy[b] /\ stat'[b] = stat[b],
           entry'.at <= entry.at \/ pc[a] \in CountsLock \/ ~Locked,
           s \in CountsLock => pc[a] \in CountsLock \/ ~Locked,
           entry'.at < clock', BaseAt(a)'
    PROVE  CountsBase'
<1>1. CountsTypes /\ OneLookup /\ \A b \in Actors : BaseAt(b)
  BY DEF CountsBase
<1>2. pc'[a] = s /\ \A b \in Actors : b # a => pc'[b] = pc[b]
  BY <1>1 DEF CountsTypes
<1>3. ~Locked => \A b \in Actors : pc[b] \notin CountsLock
  BY <1>1 DEF Locked, BaseAt, CountsLock
<1>4. OneLookup'
  BY <1>1, <1>2, <1>3 DEF OneLookup
<1>5. clock \in Nat /\ clock' \in Nat /\ entry.at \in Nat /\ entry'.at \in Nat
  BY <1>1 DEF CountsTypes
<1>6. ASSUME NEW b \in Actors, b # a PROVE BaseAt(b)'
  <2>1. BaseAt(b) /\ stat[b].at \in Nat
    BY <1>1 DEF CountsTypes
  <2>2. pc[b] \in {"recount", "readd"} => entry'.at < stat[b].at
    <3>1. pc[b] \in {"recount", "readd"} => entry'.at <= entry.at
      BY <1>1, <1>3, <1>6 DEF OneLookup, CountsLock
    <3> QED
      BY <1>5, <2>1, <3>1 DEF BaseAt
  <2> QED
    BY <1>2, <1>5, <1>6, <2>1, <2>2 DEF BaseAt
<1> QED
  BY <1>4, <1>6 DEF CountsBase

\* The same for a step that keeps the entry.
LEMMA BaseKeep ==
    ASSUME CountsBase, NEW a \in Actors, NEW s \in CountsStage,
           pc' = [pc EXCEPT ![a] = s], UNCHANGED entry, clock <= clock', CountsTypes',
           \A b \in Actors : b # a => book'[b] = book[b] /\ copy'[b] = copy[b] /\ stat'[b] = stat[b],
           s \in CountsLock => pc[a] \in CountsLock \/ ~Locked, BaseAt(a)'
    PROVE  CountsBase'
<1>1. entry.at \in Nat /\ clock \in Nat /\ clock' \in Nat /\ entry.at < clock
  BY DEF CountsBase, CountsTypes
<1>2. entry'.at <= entry.at /\ entry'.at < clock'
  BY <1>1
<1> QED
  BY <1>2, BaseMoves

\* What is left to show of a step of a, none of whose objects loses the pointer, while no
\* source is rewritten and the pointer stays.
LEMMA CalmMoves ==
    ASSUME CountsBase, CountsBase', NEW W \in Nat, Calm(W), NEW a \in Actors, NEW s \in CountsStage,
           pc' = [pc EXCEPT ![a] = s], UNCHANGED words, clock <= clock',
           disk'.meta.cur = disk.meta.cur, disk.rev <= disk'.rev,
           \A o \in Objects : heap'[o] = heap[o] \/ heap'[o].meta.cur = disk.meta.cur,
           \A b \in Actors : b # a => /\ book'[b] = book[b] /\ copy'[b] = copy[b]
                                      /\ stat'[b] = stat[b] /\ kind'[b] = kind[b],
           ~Moves(a), ~Moves(a)',
           entry'.book = entry.book \/ heap'[entry'.book].meta.cur = disk.meta.cur,
           PointerAt(a)',
           ~Moving => /\ W <= entry'.at => entry'.count = CountNow
                      /\ entry'.at < W => entry.at < W
                      /\ Awaits(a, W) => W <= entry'.at \/ Awaits(a, W)'
                      /\ CountedAt(a, W)'
    PROVE  Calm(W)'
<1>1. /\ CountsTypes /\ EntryFollows /\ W <= clock /\ \A b \in Actors : PointerAt(b) /\ BaseAt(b)
      /\ ~Moving => CountedEntry(W) /\ \A b \in Actors : CountedAt(b, W)
  BY DEF CountsBase, Calm
<1>2. pc'[a] = s /\ \A b \in Actors : b # a => pc'[b] = pc[b]
  BY <1>1 DEF CountsTypes
<1>3. \A b \in Actors : Moves(b)' <=> Moves(b)
  BY <1>2 DEF Moves
<1>4. /\ clock \in Nat /\ clock' \in Nat /\ entry.at \in Nat /\ entry'.at \in Nat
      /\ entry.book \in Objects /\ entry'.book \in Objects /\ disk.rev \in Nat /\ disk'.rev \in Nat
      /\ \A o \in Objects : heap[o].rev \in Nat /\ heap[o].rev <= disk.rev
  BY <1>1 DEF CountsBase, CountsTypes
<1>5. \A o \in Objects : Follows(o) => Follows(o)'
  BY DEF Follows
<1>6. EntryFollows'
  <2>1. CASE entry'.book # entry.book \/ Follows(entry.book)
    BY <1>4, <1>5, <2>1 DEF EntryFollows, Follows
  <2>2. CASE entry'.book = entry.book /\ ~Follows(entry.book)
    <3>1. heap[entry.book].rev # disk.rev
      BY <1>1, <2>2 DEF EntryFollows
    <3>2. PICK b \in Actors : Moves(b) /\ book[b] = entry.book
      BY <1>1, <2>2 DEF EntryFollows
    <3>3. Moves(b)' /\ book'[b] = entry'.book
      BY <1>3, <2>2, <3>2
    <3>4. CASE heap'[entry.book] = heap[entry.book]
      <4>1. heap'[entry'.book].rev # disk'.rev
        BY <1>4, <2>2, <3>1, <3>4
      <4> QED
        BY <3>3, <4>1 DEF EntryFollows
    <3>5. CASE heap'[entry.book].meta.cur = disk.meta.cur
      BY <2>2, <3>5 DEF EntryFollows, Follows
    <3> QED
      BY <1>4, <3>4, <3>5
  <2> QED
    BY <2>1, <2>2
<1>7. ASSUME NEW b \in Actors, b # a PROVE PointerAt(b)' /\ (CountedAt(b, W) => CountedAt(b, W)')
  <2>1. PointerAt(b) /\ BaseAt(b) /\ CountNow' = CountNow
    BY <1>1 DEF CountNow
  <2> QED
    BY <1>2, <1>5, <1>7, <2>1 DEF PointerAt, BaseAt, CountedAt
<1>8. ASSUME ~Moving PROVE CountedEntry(W)'
  <2>1. CountNow' = CountNow
    BY DEF CountNow
  <2>2. ASSUME entry'.at < W PROVE \E b \in Actors : Awaits(b, W)'
    <3>1. PICK b \in Actors : Awaits(b, W)
      BY <1>1, <1>8, <2>2 DEF CountedEntry
    <3>2. CASE b = a
      BY <1>4, <1>8, <2>2, <3>1, <3>2
    <3>3. CASE b # a
      BY <1>2, <3>1, <3>3 DEF Awaits
    <3> QED
      BY <3>2, <3>3
  <2> QED
    BY <1>8, <2>1, <2>2 DEF CountedEntry
<1>9. Moving' <=> Moving
  BY <1>3 DEF Moving
<1>10. W <= clock'
  BY <1>1, <1>4
<1> QED
  BY <1>1, <1>6, <1>7, <1>8, <1>9, <1>10 DEF Calm

LEMMA CountsBegin ==
    ASSUME CountsBase, NEW W \in Nat, NEW a \in Actors,
           \/ Scan(a)
           \/ a \in Requests /\ \E k \in Kinds : Reopen(a, k)
           \/ a \in Requests /\ \E k \in Kinds : Lookup(a, k)
    PROVE  CountsBase' /\ (Calm(W) => Calm(W)')
<1>1. CountsTypes /\ entry.at < clock /\ BaseAt(a)
  BY DEF CountsBase
<1>2. /\ UNCHANGED <<disk, words, heap, entry, stat, clock, crossed>> /\ ops' = ops + 1 /\ pc[a] = "idle"
      /\ kind' \in [Actors -> Kinds \cup {None}] /\ \A b \in Actors : b # a => kind'[b] = kind[b]
  BY <1>1 DEF Scan, Reopen, Lookup, files, CountsTypes
<1>3. /\ entry \in [book : Objects, count : CountsPair, at : Nat] /\ disk.meta \in CountsMeta
      /\ clock \in Nat /\ disk.rev \in Nat
  BY <1>1 DEF CountsTypes
<1>4. PICK s \in {"stat", "restat", "have"} :
        /\ pc' = [pc EXCEPT ![a] = s] /\ (s # "stat" => ~Locked /\ a \in Requests)
        /\ s # "have" => copy' = [copy EXCEPT ![a] = disk.meta] /\ book' = book
        /\ s = "have" => copy' = copy /\ book' = [book EXCEPT ![a] = entry.book] /\ ~IsStale(entry.book)
  BY DEF Scan, Reopen, Lookup, ReadMeta, Goto
<1>5. /\ copy' \in [Actors -> [edits : SUBSET Nat, cur : Sources \cup {None}]]
      /\ book' \in [Actors -> Objects \cup {None}]
      /\ \A b \in Actors : b # a => copy'[b] = copy[b] /\ book'[b] = book[b] /\ stat'[b] = stat[b]
      /\ s # "have" => copy'[a] = disk.meta /\ book'[a] = None
      /\ s = "have" => book'[a] = entry.book
  BY <1>1, <1>2, <1>3, <1>4 DEF CountsTypes, CountsMeta, BaseAt
<1>6. /\ pc' \in [Actors -> CountsStage] /\ pc'[a] = s /\ s \in CountsStage
      /\ s \in CountsLock => ~Locked
  BY <1>1, <1>4 DEF CountsTypes, CountsStage, AloneStage, CountsLock
<1>7. CountsTypes'
  BY <1>1, <1>2, <1>5, <1>6 DEF CountsTypes
<1>8. BaseAt(a)'
  BY <1>1, <1>2, <1>3, <1>4, <1>5, <1>6 DEF BaseAt, CountsLock
<1>9. CountsBase'
  <2>1. /\ pc' = [pc EXCEPT ![a] = s] /\ entry' = entry /\ clock <= clock' /\ s \in CountsStage
        /\ s \in CountsLock => pc[a] \in CountsLock \/ ~Locked
    BY <1>2, <1>3, <1>4, <1>6
  <2> QED
    BY <1>5, <1>7, <1>8, <2>1, BaseKeep
<1>10. ASSUME Calm(W) PROVE Calm(W)'
  <2>1. PointerAt(a)'
    <3>1. s = "have" => Follows(entry.book)
      BY <1>4, <1>10 DEF Calm, EntryFollows, IsStale
    <3> QED
      BY <1>2, <1>5, <1>6, <3>1 DEF PointerAt, Follows
  <2>2. CountedAt(a, W)' /\ ~Awaits(a, W) /\ ~Moves(a) /\ ~Moves(a)'
    BY <1>2, <1>6 DEF CountedAt, Awaits, Moves
  <2>3. ~Moving => /\ W <= entry'.at => entry'.count = CountNow
                   /\ entry'.at < W => entry.at < W
    BY <1>2, <1>10 DEF Calm, CountedEntry
  <2>4. pc' = [pc EXCEPT ![a] = s] /\ words' = words /\ clock <= clock' /\ disk'.meta.cur = disk.meta.cur
        /\ disk.rev <= disk'.rev /\ entry'.book = entry.book /\ heap' = heap
    BY <1>2, <1>3, <1>4
  <2> QED
    BY <1>2, <1>5, <1>6, <1>9, <1>10, <2>1, <2>2, <2>3, <2>4, CalmMoves
<1> QED
  BY <1>9, <1>10

LEMMA CountsStat ==
    ASSUME CountsBase, NEW W \in Nat, NEW a \in Actors, ScanStat(a) \/ ReopenStat(a)
    PROVE  CountsBase' /\ (Calm(W) => Calm(W)')
<1>1. CountsTypes /\ entry.at < clock /\ BaseAt(a)
  BY DEF CountsBase
<1> DEFINE o == CHOOSE p \in Objects : p \notin Live
<1>2. PICK s \in {"count", "recount"} :
        /\ pc[a] = IF s = "count" THEN "stat" ELSE "restat"
        /\ heap' = [heap EXCEPT ![o] = [meta |-> copy[a], rev |-> disk.rev]]
        /\ book' = [book EXCEPT ![a] = o] /\ stat' = [stat EXCEPT ![a] = [count |-> None, at |-> clock]]
        /\ clock' = clock + 1 /\ pc' = [pc EXCEPT ![a] = s]
        /\ UNCHANGED <<disk, words, entry, kind, copy, ops, crossed>>
  BY DEF ScanStat, ReopenStat, StatMeta, DateStat, Goto, files
<1>3. o \in Objects /\ copy[a] \in CountsMeta
  BY <1>1, <1>2, FreeObject DEF CountsTypes, BaseAt
<1> HIDE DEF o
<1>4. /\ heap' \in [Objects -> [meta : CountsMeta, rev : Nat]]
      /\ heap'[o] = [meta |-> copy[a], rev |-> disk.rev] /\ \A p \in Objects \ {o} : heap'[p] = heap[p]
      /\ \A p \in Objects : heap'[p].rev <= disk.rev
  BY <1>1, <1>2, <1>3 DEF CountsTypes
<1>5. /\ stat' \in [Actors -> [count : CountsPair, at : Nat]] /\ stat'[a].at = clock /\ book'[a] = o
      /\ book' \in [Actors -> Objects \cup {None}]
      /\ \A b \in Actors : b # a => stat'[b] = stat[b] /\ book'[b] = book[b]
  BY <1>1, <1>2, <1>3 DEF CountsTypes, CountsPair
<1>6. pc' \in [Actors -> CountsStage] /\ pc'[a] = s /\ s \in CountsStage
  BY <1>1, <1>2 DEF CountsTypes, CountsStage, AloneStage, CountsLock
<1>7. CountsTypes'
  BY <1>1, <1>2, <1>4, <1>5, <1>6 DEF CountsTypes
<1>8. /\ entry.at \in Nat /\ clock \in Nat /\ disk.rev \in Nat /\ clock <= clock'
      /\ s = "recount" => a \in Requests
  BY <1>1, <1>2 DEF CountsTypes, BaseAt, CountsLock
<1>9. BaseAt(a)'
  BY <1>1, <1>2, <1>3, <1>5, <1>6, <1>8 DEF BaseAt, CountsLock
<1>10. s \in CountsLock => pc[a] \in CountsLock
  BY <1>2 DEF CountsLock
<1>11. CountsBase'
  BY <1>2, <1>5, <1>6, <1>7, <1>8, <1>9, <1>10, BaseKeep
<1>12. ASSUME Calm(W) PROVE Calm(W)'
  <2>1. copy[a].cur = disk.meta.cur
    BY <1>2, <1>12 DEF Calm, PointerAt
  <2>2. heap'[o].meta.cur = disk.meta.cur
    BY <1>4, <2>1
  <2>3. PointerAt(a)' /\ CountedAt(a, W)' /\ ~Awaits(a, W) /\ ~Moves(a) /\ ~Moves(a)'
    BY <1>2, <1>5, <1>6, <2>2 DEF PointerAt, CountedAt, Awaits, Moves, Follows
  <2>4. \A p \in Objects : heap'[p] = heap[p] \/ heap'[p].meta.cur = disk.meta.cur
    BY <1>4, <2>2
  <2>5. ~Moving => /\ W <= entry'.at => entry'.count = CountNow
                   /\ entry'.at < W => entry.at < W
    BY <1>2, <1>12 DEF Calm, CountedEntry
  <2>6. pc' = [pc EXCEPT ![a] = s] /\ words' = words /\ disk'.meta.cur = disk.meta.cur
        /\ disk.rev <= disk'.rev /\ entry'.book = entry.book /\ kind' = kind /\ copy' = copy
    BY <1>2, <1>8
  <2> QED
    BY <1>5, <1>6, <1>8, <1>11, <1>12, <2>3, <2>4, <2>5, <2>6, CalmMoves
<1> QED
  BY <1>11, <1>12

LEMMA CountsCount ==
    ASSUME CountsBase, NEW W \in Nat, NEW a \in Actors, ScanCount(a) \/ ReopenCount(a) \/ RefreshCount(a)
    PROVE  CountsBase' /\ (Calm(W) => Calm(W)')
<1>1. CountsTypes /\ entry.at < clock /\ BaseAt(a)
  BY DEF CountsBase
<1> DEFINE src == heap[book[a]].meta.cur
<1>2. PICK s \in {"publish", "readd", "put"} :
        /\ pc[a] = CASE s = "publish" -> "count" [] s = "readd" -> "recount" [] OTHER -> "restore"
        /\ stat' = [stat EXCEPT ![a].count = <<src, words[src]>>] /\ pc' = [pc EXCEPT ![a] = s]
        /\ UNCHANGED <<disk, words, heap, entry, kind, book, copy, clock, ops, crossed>>
  BY DEF ScanCount, ReopenCount, RefreshCount, CountSource, Goto, files
<1>3. book[a] \in Objects
  BY <1>1, <1>2 DEF BaseAt
<1>4. src \in Sources /\ words[src] \in Nat
  BY <1>1, <1>3 DEF CountsTypes, CountsMeta
<1> HIDE DEF src
<1> DEFINE q == [stat[a] EXCEPT !.count = <<src, words[src]>>]
<1>5. q \in [count : CountsPair, at : Nat] /\ q.count = <<src, words[src]>> /\ q.at = stat[a].at
  BY <1>1, <1>4 DEF CountsTypes, CountsPair
<1>6. stat' = [stat EXCEPT ![a] = q]
  BY <1>1, <1>2 DEF CountsTypes
<1> HIDE DEF q
<1>7. stat' \in [Actors -> [count : CountsPair, at : Nat]] /\ stat'[a] = q
      /\ \A b \in Actors : b # a => stat'[b] = stat[b]
  BY <1>1, <1>5, <1>6 DEF CountsTypes
<1>8. pc' \in [Actors -> CountsStage] /\ pc'[a] = s /\ s \in CountsStage
  BY <1>1, <1>2 DEF CountsTypes, CountsStage, AloneStage, CountsLock
<1>9. CountsTypes'
  BY <1>1, <1>2, <1>7, <1>8 DEF CountsTypes
<1>10. BaseAt(a)'
  BY <1>1, <1>2, <1>3, <1>5, <1>7, <1>8 DEF BaseAt, CountsLock
<1>11. s \in CountsLock => pc[a] \in CountsLock
  BY <1>2 DEF CountsLock
<1>12. /\ clock <= clock' /\ pc' = [pc EXCEPT ![a] = s] /\ disk.rev <= disk'.rev
       /\ \A b \in Actors : b # a => book'[b] = book[b] /\ copy'[b] = copy[b] /\ stat'[b] = stat[b]
  BY <1>1, <1>2, <1>7 DEF CountsTypes
<1>13. CountsBase'
  BY <1>2, <1>8, <1>9, <1>10, <1>11, <1>12, BaseKeep
<1>14. ASSUME Calm(W) PROVE Calm(W)'
  <2>1. ~Moving /\ (s = "put" => W <= stat[a].at) => src = disk.meta.cur
    BY <1>2, <1>14 DEF Calm, PointerAt, CountedAt, Follows, src
  <2>2. ~Moving => CountedAt(a, W)' /\ (Awaits(a, W) => Awaits(a, W)')
    BY <1>2, <1>5, <1>7, <1>8, <2>1 DEF CountedAt, CountNow, Awaits
  <2>3. PointerAt(a)' /\ ~Moves(a) /\ ~Moves(a)'
    BY <1>2, <1>8, <1>14 DEF Calm, PointerAt, Moves, Follows
  <2>4. ~Moving => /\ W <= entry'.at => entry'.count = CountNow
                   /\ entry'.at < W => entry.at < W
    BY <1>2, <1>14 DEF Calm, CountedEntry
  <2> QED
    BY <1>2, <1>8, <1>12, <1>13, <1>14, <2>2, <2>3, <2>4, CalmMoves
<1> QED
  BY <1>13, <1>14

LEMMA BaseReleased ==
    ASSUME CountsBase, NEW a \in Actors, Release(a),
           UNCHANGED <<disk, words, clock, ops, crossed>>,
           heap' \in [Objects -> [meta : CountsMeta, rev : Nat]],
           \A o \in Objects : heap'[o].rev <= disk.rev,
           entry' \in [book : Objects, count : CountsPair, at : Nat],
           entry' = entry \/ ~Locked, entry'.at < clock
    PROVE  /\ CountsBase' /\ pc' = [pc EXCEPT ![a] = "idle"] /\ pc'[a] = "idle" /\ "idle" \in CountsStage
           /\ \A b \in Actors : b # a => /\ book'[b] = book[b] /\ copy'[b] = copy[b]
                                         /\ stat'[b] = stat[b] /\ kind'[b] = kind[b]
<1>1. CountsTypes
  BY DEF CountsBase
<1>2. /\ pc' = [pc EXCEPT ![a] = "idle"] /\ book' = [book EXCEPT ![a] = None]
      /\ kind' = [kind EXCEPT ![a] = None] /\ stat' = [stat EXCEPT ![a] = NoStat]
      /\ copy' = [copy EXCEPT ![a] = NoMeta]
  BY DEF Release, Goto
<1>3. /\ pc' \in [Actors -> CountsStage] /\ pc'[a] = "idle" /\ "idle" \in CountsStage
      /\ "idle" \notin CountsLock
  BY <1>1, <1>2 DEF CountsTypes, CountsStage, AloneStage, CountsLock
<1>4. /\ stat' \in [Actors -> [count : CountsPair, at : Nat]] /\ stat'[a].at = 0 /\ book'[a] = None
      /\ book' \in [Actors -> Objects \cup {None}] /\ kind' \in [Actors -> Kinds \cup {None}]
      /\ copy' \in [Actors -> [edits : SUBSET Nat, cur : Sources \cup {None}]]
      /\ \A b \in Actors : b # a => /\ stat'[b] = stat[b] /\ book'[b] = book[b]
                                    /\ copy'[b] = copy[b] /\ kind'[b] = kind[b]
  BY <1>1, <1>2 DEF CountsTypes, CountsPair, NoStat, NoMeta
<1>5. CountsTypes'
  BY <1>1, <1>3, <1>4 DEF CountsTypes
<1>6. clock \in Nat /\ clock <= clock' /\ entry.at \in Nat /\ entry'.at \in Nat
      /\ (entry'.at <= entry.at \/ ~Locked) /\ entry'.at < clock'
  BY <1>1 DEF CountsTypes
<1>7. BaseAt(a)'
  BY <1>3, <1>4, <1>6 DEF BaseAt, CountsLock
<1> QED
  BY <1>2, <1>3, <1>4, <1>5, <1>6, <1>7, BaseMoves

LEMMA CountsPublish ==
    ASSUME CountsBase, NEW W \in Nat, NEW a \in Actors, Publish(a) \/ Put(a)
    PROVE  CountsBase' /\ (Calm(W) => Calm(W)')
<1>1. CountsTypes /\ entry.at < clock /\ BaseAt(a)
  BY DEF CountsBase
<1>2. /\ pc[a] \in {"publish", "put"} /\ ~Locked /\ Release(a)
      /\ UNCHANGED <<disk, words, heap, clock, ops, crossed>>
  BY DEF Publish, Put, files
<1>3. /\ entry \in [book : Objects, count : CountsPair, at : Nat]
      /\ stat[a] \in [count : CountsPair, at : Nat] /\ book[a] \in Objects /\ clock \in Nat
  BY <1>1, <1>2 DEF CountsTypes, BaseAt
<1>4. entry.at \in Nat /\ stat[a].at \in Nat /\ stat[a].at < clock /\ entry.at < clock
  BY <1>1, <1>3 DEF BaseAt
<1>5. /\ entry' \in [book : Objects, count : CountsPair, at : Nat]
      /\ entry'.book = IF pc[a] = "put" THEN entry.book ELSE book[a]
      /\ \/ entry'.at = entry.at /\ entry'.count = entry.count /\ stat[a].at < entry.at
         \/ entry'.at = stat[a].at /\ entry'.count = stat[a].count /\ entry.at <= stat[a].at
  <2>1. CASE Put(a)
    <3>1. /\ pc[a] = "put"
          /\ entry' = IF entry.at > stat[a].at THEN entry
                      ELSE [entry EXCEPT !.count = stat[a].count, !.at = stat[a].at]
      BY <2>1 DEF Put
    <3>2. CASE entry.at > stat[a].at
      BY <1>3, <1>4, <3>1, <3>2
    <3>3. CASE ~(entry.at > stat[a].at)
      <4>1. entry' = [entry EXCEPT !.count = stat[a].count, !.at = stat[a].at] /\ entry.at <= stat[a].at
        BY <1>4, <3>1, <3>3
      <4> QED
        BY <1>3, <3>1, <4>1
    <3> QED
      BY <3>2, <3>3
  <2>2. CASE Publish(a)
    <3> DEFINE new == [book |-> book[a], count |-> stat[a].count, at |-> stat[a].at]
    <3>1. /\ pc[a] = "publish"
          /\ entry' = IF entry.at > new.at THEN [new EXCEPT !.count = entry.count, !.at = entry.at] ELSE new
      BY <2>2 DEF Publish, KeepNewer, Found
    <3>2. CASE entry.at > new.at
      <4>1. entry' = [new EXCEPT !.count = entry.count, !.at = entry.at] /\ stat[a].at < entry.at
        BY <1>4, <3>1, <3>2
      <4> QED
        BY <1>3, <3>1, <4>1
    <3>3. CASE ~(entry.at > new.at)
      <4>1. entry' = new /\ entry.at <= stat[a].at
        BY <1>4, <3>1, <3>3
      <4> QED
        BY <1>3, <3>1, <4>1
    <3> QED
      BY <3>2, <3>3
  <2> QED
    BY <2>1, <2>2
<1>6. entry'.at < clock /\ heap' \in [Objects -> [meta : CountsMeta, rev : Nat]]
      /\ \A o \in Objects : heap'[o].rev <= disk.rev
  BY <1>1, <1>2, <1>4, <1>5 DEF CountsTypes
<1>7. /\ CountsBase' /\ pc' = [pc EXCEPT ![a] = "idle"] /\ pc'[a] = "idle" /\ "idle" \in CountsStage
      /\ \A b \in Actors : b # a => /\ book'[b] = book[b] /\ copy'[b] = copy[b]
                                    /\ stat'[b] = stat[b] /\ kind'[b] = kind[b]
  BY <1>2, <1>5, <1>6, BaseReleased
<1>8. ASSUME Calm(W) PROVE Calm(W)'
  <2>1. PointerAt(a)' /\ CountedAt(a, W)' /\ ~Moves(a) /\ ~Moves(a)'
    BY <1>2, <1>7 DEF PointerAt, CountedAt, Moves
  <2>2. entry'.book = entry.book \/ heap'[entry'.book].meta.cur = disk.meta.cur
    BY <1>2, <1>5, <1>8 DEF Calm, PointerAt, Follows
  <2>3. ~Moving => /\ W <= entry'.at => entry'.count = CountNow
                   /\ entry'.at < W => entry.at < W
                   /\ Awaits(a, W) => W <= entry'.at
    <3>1. ~Moving => CountedAt(a, W) /\ CountedEntry(W)
      BY <1>8 DEF Calm
    <3> QED
      BY <1>2, <1>4, <1>5, <3>1 DEF CountedAt, CountedEntry, Awaits
  <2>4. clock <= clock' /\ disk.rev <= disk'.rev /\ disk'.meta.cur = disk.meta.cur /\ words' = words
        /\ heap' = heap
    BY <1>1, <1>2 DEF CountsTypes
  <2> QED
    BY <1>7, <1>8, <2>1, <2>2, <2>3, <2>4, CalmMoves
<1> QED
  BY <1>7, <1>8

LEMMA CountsReadd ==
    ASSUME CountsBase, NEW W \in Nat, NEW a \in Actors, Readd(a)
    PROVE  CountsBase' /\ (Calm(W) => Calm(W)')
<1>1. CountsTypes /\ entry.at < clock /\ BaseAt(a)
  BY DEF CountsBase
<1>2. /\ pc[a] = "readd" /\ entry' = [book |-> book[a], count |-> stat[a].count, at |-> stat[a].at]
      /\ pc' = [pc EXCEPT ![a] = "have"]
      /\ UNCHANGED <<disk, words, heap, kind, book, copy, stat, clock, ops, crossed>>
  BY DEF Readd, Found, Goto, files, local
<1>3. /\ stat[a] \in [count : CountsPair, at : Nat] /\ book[a] \in Objects /\ clock \in Nat /\ entry.at \in Nat
      /\ stat[a].at < clock /\ entry.at < stat[a].at /\ a \in Requests /\ disk.rev \in Nat
  BY <1>1, <1>2 DEF CountsTypes, BaseAt, CountsLock
<1>4. /\ entry' \in [book : Objects, count : CountsPair, at : Nat] /\ entry'.at = stat[a].at
      /\ entry'.count = stat[a].count /\ entry'.book = book[a]
  BY <1>2, <1>3
<1>5. pc' \in [Actors -> CountsStage] /\ pc'[a] = "have" /\ "have" \in CountsStage
      /\ pc[a] \in CountsLock /\ "have" \notin CountsLock
  BY <1>1, <1>2 DEF CountsTypes, CountsStage, AloneStage, CountsLock
<1>6. CountsTypes'
  BY <1>1, <1>2, <1>4, <1>5 DEF CountsTypes
<1>7. BaseAt(a)'
  BY <1>1, <1>2, <1>3, <1>5 DEF BaseAt, CountsLock
<1>8. /\ entry'.at < clock' /\ clock <= clock' /\ disk.rev <= disk'.rev /\ pc' = [pc EXCEPT ![a] = "have"]
      /\ \A b \in Actors : b # a => book'[b] = book[b] /\ copy'[b] = copy[b] /\ stat'[b] = stat[b]
  BY <1>2, <1>3, <1>4
<1>9. CountsBase'
  BY <1>5, <1>6, <1>7, <1>8, BaseMoves
<1>10. ASSUME Calm(W) PROVE Calm(W)'
  <2>1. Follows(book[a])
    BY <1>2, <1>10 DEF Calm, PointerAt
  <2>2. PointerAt(a)' /\ CountedAt(a, W)' /\ ~Moves(a) /\ ~Moves(a)' /\ ~Awaits(a, W)
    BY <1>2, <1>5, <2>1 DEF PointerAt, CountedAt, Moves, Awaits, Follows
  <2>3. heap'[entry'.book].meta.cur = disk.meta.cur
    BY <1>2, <1>4, <2>1 DEF Follows
  <2>4. ~Moving => /\ W <= entry'.at => entry'.count = CountNow
                   /\ entry'.at < W => entry.at < W
    BY <1>2, <1>3, <1>4, <1>10 DEF Calm, CountedAt
  <2> QED
    BY <1>2, <1>5, <1>8, <1>9, <1>10, <2>2, <2>3, <2>4, CalmMoves
<1> QED
  BY <1>9, <1>10

LEMMA CountsPatch ==
    ASSUME CountsBase, NEW W \in Nat, NEW a \in Actors, a \in Requests, Patch(a)
    PROVE  CountsBase' /\ (Calm(W) => Calm(W)')
<1>1. CountsTypes /\ entry.at < clock /\ BaseAt(a)
  BY DEF CountsBase
<1>2. /\ pc[a] = "have" /\ pc' = [pc EXCEPT ![a] = "write"]
      /\ UNCHANGED <<disk, words, heap, entry, kind, book, stat, clock, ops, crossed>>
  BY DEF Patch, Goto, files
<1> DEFINE m == heap[book[a]].meta
<1>3. book[a] \in Objects /\ m \in CountsMeta /\ ops \in Nat
  BY <1>1, <1>2 DEF CountsTypes, BaseAt
<1>4. PICK q \in CountsMeta : copy' = [copy EXCEPT ![a] = q] /\ (kind[a] # "point" => q.cur = m.cur)
  <2>1. \/ kind[a] = "edit" /\ copy' = [copy EXCEPT ![a] = [m EXCEPT !.edits = @ \cup {ops}]]
        \/ kind[a] = "point" /\ \E src \in Sources \ {m.cur} :
                                   copy' = [copy EXCEPT ![a] = [m EXCEPT !.cur = src]]
    BY DEF Patch
  <2> HIDE DEF m
  <2>2. CASE kind[a] = "edit" /\ copy' = [copy EXCEPT ![a] = [m EXCEPT !.edits = @ \cup {ops}]]
    <3> DEFINE q == [m EXCEPT !.edits = @ \cup {ops}]
    <3>1. q \in CountsMeta /\ q.cur = m.cur
      BY <1>3 DEF CountsMeta
    <3> QED
      BY <2>2, <3>1
  <2>3. ASSUME kind[a] = "point", NEW src \in Sources \ {m.cur},
               copy' = [copy EXCEPT ![a] = [m EXCEPT !.cur = src]]
        PROVE  \E q \in CountsMeta : copy' = [copy EXCEPT ![a] = q] /\ (kind[a] # "point" => q.cur = m.cur)
    <3> DEFINE q == [m EXCEPT !.cur = src]
    <3>1. q \in CountsMeta
      BY <1>3 DEF CountsMeta
    <3> QED
      BY <2>3, <3>1
  <2> QED
    BY <2>1, <2>2, <2>3
<1> HIDE DEF m
<1>5. /\ copy' \in [Actors -> [edits : SUBSET Nat, cur : Sources \cup {None}]] /\ copy'[a] = q
      /\ \A b \in Actors : b # a => copy'[b] = copy[b]
  BY <1>1, <1>4 DEF CountsTypes, CountsMeta
<1>6. pc' \in [Actors -> CountsStage] /\ pc'[a] = "write" /\ "write" \in CountsStage
      /\ "write" \notin CountsLock
  BY <1>1, <1>2 DEF CountsTypes, CountsStage, AloneStage, CountsLock
<1>7. CountsTypes'
  BY <1>1, <1>2, <1>5, <1>6 DEF CountsTypes
<1>8. BaseAt(a)'
  BY <1>1, <1>2, <1>3, <1>4, <1>5, <1>6 DEF BaseAt, CountsLock
<1>9. /\ clock <= clock' /\ disk.rev <= disk'.rev
      /\ \A b \in Actors : b # a => book'[b] = book[b] /\ copy'[b] = copy[b] /\ stat'[b] = stat[b]
  BY <1>1, <1>2, <1>5 DEF CountsTypes
<1>10. CountsBase'
  BY <1>2, <1>6, <1>7, <1>8, <1>9, BaseKeep
<1>11. ASSUME Calm(W) PROVE Calm(W)'
  <2>1. m.cur = disk.meta.cur
    BY <1>2, <1>11 DEF Calm, PointerAt, Follows, m
  <2>2. PointerAt(a)' /\ CountedAt(a, W)' /\ ~Moves(a) /\ ~Moves(a)' /\ ~Awaits(a, W)
    BY <1>2, <1>4, <1>5, <1>6, <2>1 DEF PointerAt, CountedAt, Moves, Awaits
  <2>3. ~Moving => /\ W <= entry'.at => entry'.count = CountNow
                   /\ entry'.at < W => entry.at < W
    BY <1>2, <1>11 DEF Calm, CountedEntry
  <2> QED
    BY <1>2, <1>6, <1>9, <1>10, <1>11, <2>2, <2>3, CalmMoves
<1> QED
  BY <1>10, <1>11

\* book.json is written: with the pointer it had, or with another one, while no other actor
\* holds the old one and the entry has the request's object; or the move crosses.
LEMMA CountsWrite ==
    ASSUME CountsBase, NEW W \in Nat, NEW a \in Actors, a \in Requests, WriteMeta(a)
    PROVE  CountsBase' /\ (~crossed' => ~crossed /\ (Calm(W) => Calm(W)'))
<1>1. CountsTypes /\ entry.at < clock /\ BaseAt(a)
  BY DEF CountsBase
<1>2. /\ pc[a] = "write" /\ pc' = [pc EXCEPT ![a] = "assign"]
      /\ disk' = [meta |-> copy[a], rev |-> disk.rev + 1] /\ crossed' = (crossed \/ Crosses(a))
      /\ UNCHANGED <<words, heap, entry, kind, book, copy, stat, clock, ops>>
  BY DEF WriteMeta, Goto, local
<1>3. copy[a] \in CountsMeta /\ book[a] \in Objects
  BY <1>1, <1>2 DEF BaseAt
<1>4. disk' \in [meta : CountsMeta, rev : Nat] /\ disk'.meta = copy[a] /\ disk'.rev = disk.rev + 1
      /\ disk.rev \in Nat /\ clock \in Nat /\ \A o \in Objects : heap[o].rev \in Nat /\ heap[o].rev <= disk.rev
  BY <1>1, <1>2, <1>3 DEF CountsTypes
<1>5. pc' \in [Actors -> CountsStage] /\ pc'[a] = "assign" /\ "assign" \in CountsStage
      /\ "assign" \notin CountsLock /\ \A b \in Actors : b # a => pc'[b] = pc[b]
  BY <1>1, <1>2 DEF CountsTypes, CountsStage, AloneStage, CountsLock
<1>6. crossed' \in BOOLEAN
  BY <1>1, <1>2 DEF CountsTypes, Crosses
<1>7. CountsTypes'
  <2>1. \A o \in Objects : heap'[o].rev <= disk'.rev
    BY <1>2, <1>4
  <2> QED
    BY <1>1, <1>2, <1>4, <1>5, <1>6, <2>1 DEF CountsTypes
<1>8. BaseAt(a)'
  BY <1>1, <1>2, <1>3, <1>5 DEF BaseAt, CountsLock
<1>9. /\ clock <= clock' /\ disk.rev <= disk'.rev
      /\ \A b \in Actors : b # a => book'[b] = book[b] /\ copy'[b] = copy[b] /\ stat'[b] = stat[b]
  BY <1>2, <1>4
<1>10. CountsBase'
  BY <1>2, <1>5, <1>7, <1>8, <1>9, BaseKeep
<1>11. ASSUME ~crossed', Calm(W), kind[a] # "point" PROVE Calm(W)'
  <2>1. disk'.meta.cur = disk.meta.cur
    BY <1>2, <1>4, <1>11 DEF Calm, PointerAt
  <2>2. PointerAt(a)' /\ CountedAt(a, W)' /\ ~Moves(a) /\ ~Moves(a)' /\ ~Awaits(a, W)
    BY <1>2, <1>4, <1>5, <1>11 DEF PointerAt, CountedAt, Moves, Awaits
  <2>3. ~Moving => /\ W <= entry'.at => entry'.count = CountNow
                   /\ entry'.at < W => entry.at < W
    BY <1>2, <1>11 DEF Calm, CountedEntry
  <2> QED
    BY <1>2, <1>5, <1>9, <1>10, <1>11, <2>1, <2>2, <2>3, CalmMoves
<1>12. ASSUME ~crossed', Calm(W), kind[a] = "point" PROVE Calm(W)'
  <2>1. book[a] = entry.book /\ \A b \in Actors : b # a => pc[b] \in {"idle", "refresh", "restore", "put"}
    BY <1>2, <1>12 DEF Crosses, Holds
  <2>2. Moves(a)' /\ Moving'
    BY <1>2, <1>5, <1>12 DEF Moves, Moving
  <2>3. heap'[entry'.book].rev # disk'.rev
    BY <1>2, <1>3, <1>4, <2>1
  <2>4. EntryFollows'
    BY <1>2, <2>1, <2>2, <2>3 DEF EntryFollows
  <2>5. \A b \in Actors : PointerAt(b)'
    BY <1>2, <1>4, <1>5, <2>1 DEF PointerAt
  <2>6. W <= clock'
    BY <1>2, <1>12 DEF Calm
  <2> QED
    BY <2>2, <2>4, <2>5, <2>6 DEF Calm
<1>13. ~crossed' => ~crossed
  BY <1>2
<1> QED
  BY <1>10, <1>11, <1>12, <1>13

\* An edit ends; a pointer that has moved is in the entry's object again, and what was counted
\* until now does not count.
LEMMA CountsAssign ==
    ASSUME CountsBase, NEW W \in Nat, NEW a \in Actors, a \in Requests, Assign(a)
    PROVE  CountsBase' /\ clock \in Nat /\ clock' = clock /\ (Calm(W) => Calm(W)' \/ Calm(clock)')
<1>1. CountsTypes /\ entry.at < clock /\ BaseAt(a)
  BY DEF CountsBase
<1>2. /\ pc[a] = "assign" /\ heap' = [heap EXCEPT ![book[a]] = [meta |-> copy[a], rev |-> disk.rev]]
      /\ UNCHANGED <<disk, words, entry, clock, ops, crossed>>
  BY DEF Assign, files
<1>3. book[a] \in Objects /\ copy[a] \in CountsMeta
  BY <1>1, <1>2 DEF BaseAt
<1>4. /\ heap' \in [Objects -> [meta : CountsMeta, rev : Nat]]
      /\ heap'[book[a]] = [meta |-> copy[a], rev |-> disk.rev]
      /\ \A o \in Objects : o # book[a] => heap'[o] = heap[o]
  BY <1>1, <1>2, <1>3 DEF CountsTypes
<1>5. /\ entry' \in [book : Objects, count : CountsPair, at : Nat] /\ clock \in Nat /\ clock <= clock'
      /\ disk.rev \in Nat /\ disk.rev <= disk'.rev /\ \A o \in Objects : heap'[o].rev <= disk.rev
  BY <1>1, <1>2, <1>4 DEF CountsTypes
<1>6. Calm(W) => \A o \in Objects : heap'[o] = heap[o] \/ heap'[o].meta.cur = disk.meta.cur
  BY <1>2, <1>4 DEF Calm, PointerAt
<1>7. CASE kind[a] = "edit"
  <2>1. Release(a) /\ UNCHANGED <<disk, words, clock, ops, crossed>> /\ entry' = entry
    BY <1>2, <1>7 DEF Assign
  <2>2. /\ CountsBase' /\ pc' = [pc EXCEPT ![a] = "idle"] /\ pc'[a] = "idle" /\ "idle" \in CountsStage
        /\ \A b \in Actors : b # a => /\ book'[b] = book[b] /\ copy'[b] = copy[b]
                                      /\ stat'[b] = stat[b] /\ kind'[b] = kind[b]
    BY <1>1, <1>4, <1>5, <2>1, BaseReleased
  <2>3. ASSUME Calm(W) PROVE Calm(W)'
    <3>1. PointerAt(a)' /\ CountedAt(a, W)' /\ ~Moves(a) /\ ~Moves(a)' /\ ~Awaits(a, W)
      BY <1>2, <1>7, <2>2 DEF PointerAt, CountedAt, Moves, Awaits
    <3>2. ~Moving => /\ W <= entry'.at => entry'.count = CountNow
                     /\ entry'.at < W => entry.at < W
      BY <1>2, <2>3 DEF Calm, CountedEntry
    <3>3. entry'.book = entry.book /\ words' = words /\ disk'.meta.cur = disk.meta.cur
      BY <1>2
    <3> QED
      BY <1>5, <1>6, <2>2, <2>3, <3>1, <3>2, <3>3, CalmMoves
  <2> QED
    BY <1>2, <1>5, <2>2, <2>3
<1>8. CASE kind[a] # "edit"
  <2>1. pc' = [pc EXCEPT ![a] = "refresh"] /\ UNCHANGED <<kind, book, copy, stat>>
    BY <1>8 DEF Assign, Goto, local
  <2>2. /\ pc' \in [Actors -> CountsStage] /\ pc'[a] = "refresh" /\ "refresh" \in CountsStage
        /\ "refresh" \notin CountsLock /\ \A b \in Actors : b # a => pc'[b] = pc[b]
    BY <1>1, <2>1 DEF CountsTypes, CountsStage, AloneStage, CountsLock
  <2>3. CountsTypes'
    BY <1>1, <1>2, <1>4, <1>5, <2>1, <2>2 DEF CountsTypes
  <2>4. BaseAt(a)'
    BY <1>1, <1>2, <1>3, <2>1, <2>2 DEF BaseAt, CountsLock
  <2>5. CountsBase'
    BY <1>2, <1>5, <2>1, <2>2, <2>3, <2>4, BaseKeep
  <2>6. ASSUME Calm(W) PROVE Calm(clock)'
    <3>1. heap'[book[a]].meta.cur = disk.meta.cur
      BY <1>2, <1>4, <2>6 DEF Calm, PointerAt
    <3>2. \A o \in Objects : Follows(o) => Follows(o)'
      BY <1>2, <1>6, <2>6 DEF Follows
    <3>3. EntryFollows'
      <4>1. CASE Follows(entry.book)
        BY <1>1, <1>2, <3>2, <4>1 DEF EntryFollows, CountsTypes
      <4>2. CASE entry.book = book[a]
        BY <1>2, <3>1, <4>2 DEF EntryFollows, Follows
      <4>3. CASE ~Follows(entry.book) /\ entry.book # book[a]
        <5>1. heap[entry.book].rev # disk.rev
          BY <2>6, <4>3 DEF Calm, EntryFollows
        <5>2. PICK b \in Actors : Moves(b) /\ book[b] = entry.book
          BY <2>6, <4>3 DEF Calm, EntryFollows
        <5>3. b # a /\ Moves(b)' /\ heap'[entry.book] = heap[entry.book]
          BY <1>1, <1>4, <2>1, <2>2, <4>3, <5>2 DEF Moves, CountsTypes
        <5> QED
          BY <1>2, <2>1, <5>1, <5>2, <5>3 DEF EntryFollows
      <4> QED
        BY <4>1, <4>2, <4>3
    <3>4. ASSUME NEW b \in Actors PROVE PointerAt(b)' /\ CountedAt(b, clock)'
      <4>1. PointerAt(b) /\ BaseAt(b) /\ stat[b].at \in Nat
        BY <1>1, <2>6 DEF Calm, CountsBase, CountsTypes
      <4>2. CASE b = a
        BY <2>2, <4>2 DEF PointerAt, CountedAt
      <4>3. CASE b # a
        <5>1. PointerAt(b)'
          BY <1>2, <2>1, <2>2, <3>2, <4>1, <4>3 DEF PointerAt, BaseAt
        <5>2. ~(clock' <= stat'[b].at)
          BY <1>2, <1>5, <2>1, <4>1 DEF BaseAt
        <5> QED
          BY <5>1, <5>2 DEF CountedAt
      <4> QED
        BY <4>2, <4>3
    <3>5. CountedEntry(clock)'
      <4>1. Awaits(a, clock)'
        BY <2>2 DEF Awaits
      <4>2. ~(clock' <= entry'.at)
        BY <1>1, <1>2, <1>5 DEF CountsTypes
      <4> QED
        BY <4>1, <4>2 DEF CountedEntry
    <3>6. clock' <= clock'
      BY <1>2, <1>5
    <3> QED
      BY <3>3, <3>4, <3>5, <3>6 DEF Calm
  <2> QED
    BY <1>2, <1>5, <2>5, <2>6
<1> QED
  BY <1>7, <1>8

LEMMA CountsRefresh ==
    ASSUME CountsBase, NEW W \in Nat, NEW a \in Actors, a \in Requests, Refresh(a)
    PROVE  CountsBase' /\ (Calm(W) => Calm(W)')
<1>1. CountsTypes /\ entry.at < clock /\ BaseAt(a)
  BY DEF CountsBase
<1>2. /\ pc[a] = "refresh" /\ book' = [book EXCEPT ![a] = entry.book]
      /\ stat' = [stat EXCEPT ![a] = [count |-> None, at |-> clock]] /\ clock' = clock + 1
      /\ pc' = [pc EXCEPT ![a] = "restore"] /\ UNCHANGED <<disk, words, heap, entry, kind, copy, ops, crossed>>
  BY DEF Refresh, DateStat, Goto, files
<1>3. /\ stat' \in [Actors -> [count : CountsPair, at : Nat]] /\ stat'[a].at = clock /\ book'[a] = entry.book
      /\ book' \in [Actors -> Objects \cup {None}] /\ entry.book \in Objects /\ clock \in Nat
      /\ \A b \in Actors : b # a => stat'[b] = stat[b] /\ book'[b] = book[b]
  BY <1>1, <1>2 DEF CountsTypes, CountsPair
<1>4. /\ pc' \in [Actors -> CountsStage] /\ pc'[a] = "restore" /\ "restore" \in CountsStage
      /\ "restore" \notin CountsLock
  BY <1>1, <1>2 DEF CountsTypes, CountsStage, AloneStage, CountsLock
<1>5. CountsTypes'
  BY <1>1, <1>2, <1>3, <1>4 DEF CountsTypes
<1>6. BaseAt(a)'
  BY <1>2, <1>3, <1>4 DEF BaseAt, CountsLock
<1>7. /\ clock <= clock' /\ disk.rev <= disk'.rev
      /\ \A b \in Actors : b # a => book'[b] = book[b] /\ copy'[b] = copy[b] /\ stat'[b] = stat[b]
  BY <1>1, <1>2, <1>3 DEF CountsTypes
<1>8. CountsBase'
  BY <1>2, <1>4, <1>5, <1>6, <1>7, BaseKeep
<1>9. ASSUME Calm(W) PROVE Calm(W)'
  <2>1. ~Moving => Follows(entry.book)
    BY <1>9 DEF Calm, EntryFollows, Moving
  <2>2. ~Moving => CountedAt(a, W)'
    BY <1>2, <1>3, <1>4, <2>1 DEF CountedAt, Follows
  <2>3. PointerAt(a)' /\ ~Moves(a) /\ ~Moves(a)'
    BY <1>2, <1>4 DEF PointerAt, Moves
  <2>4. Awaits(a, W)'
    BY <1>3, <1>4, <1>9 DEF Awaits, Calm
  <2>5. ~Moving => /\ W <= entry'.at => entry'.count = CountNow
                   /\ entry'.at < W => entry.at < W
    BY <1>2, <1>9 DEF Calm, CountedEntry
  <2> QED
    BY <1>2, <1>4, <1>7, <1>8, <1>9, <2>2, <2>3, <2>4, <2>5, CalmMoves
<1> QED
  BY <1>8, <1>9

\* A source is rewritten: no count that is dated yet is current, and the request will refresh it.
LEMMA CountsRewrite ==
    ASSUME CountsBase, NEW W \in Nat, NEW a \in Actors, a \in Requests, Rewrite(a)
    PROVE  CountsBase' /\ clock \in Nat /\ clock' = clock /\ (Calm(W) => Calm(clock)')
<1>1. CountsTypes /\ entry.at < clock /\ BaseAt(a)
  BY DEF CountsBase
<1> DEFINE src == heap[book[a]].meta.cur
<1>2. /\ pc[a] = "have" /\ words' = [words EXCEPT ![src] = @ + 1] /\ pc' = [pc EXCEPT ![a] = "refresh"]
      /\ UNCHANGED <<disk, heap, entry, kind, book, copy, stat, clock, ops, crossed>>
  BY DEF Rewrite, Goto, local
<1>3. book[a] \in Objects /\ src \in Sources /\ clock \in Nat /\ entry.at \in Nat
  BY <1>1, <1>2 DEF CountsTypes, CountsMeta, BaseAt
<1> HIDE DEF src
<1>4. words' \in [Sources -> Nat]
  BY <1>1, <1>2, <1>3 DEF CountsTypes
<1>5. /\ pc' \in [Actors -> CountsStage] /\ pc'[a] = "refresh" /\ "refresh" \in CountsStage
      /\ "refresh" \notin CountsLock /\ \A b \in Actors : b # a => pc'[b] = pc[b]
  BY <1>1, <1>2 DEF CountsTypes, CountsStage, AloneStage, CountsLock
<1>6. CountsTypes'
  BY <1>1, <1>2, <1>4, <1>5 DEF CountsTypes
<1>7. BaseAt(a)'
  BY <1>1, <1>2, <1>3, <1>5 DEF BaseAt, CountsLock
<1>8. CountsBase'
  <2>1. /\ pc' = [pc EXCEPT ![a] = "refresh"] /\ entry' = entry /\ clock <= clock'
        /\ \A b \in Actors : b # a => book'[b] = book[b] /\ copy'[b] = copy[b] /\ stat'[b] = stat[b]
    BY <1>2, <1>3
  <2> QED
    BY <1>5, <1>6, <1>7, <2>1, BaseKeep
<1>9. ASSUME Calm(W) PROVE Calm(clock)'
  <2>1. \A b \in Actors : Moves(b)' <=> Moves(b)
    BY <1>2, <1>5 DEF Moves
  <2>2. EntryFollows'
    BY <1>2, <1>9, <2>1 DEF Calm, EntryFollows, Follows
  <2>3. ASSUME NEW b \in Actors PROVE PointerAt(b)' /\ CountedAt(b, clock)'
    <3>1. PointerAt(b) /\ BaseAt(b) /\ stat[b].at \in Nat
      BY <1>1, <1>9 DEF Calm, CountsBase, CountsTypes
    <3>2. ~(clock' <= stat'[b].at)
      BY <1>2, <1>3, <3>1 DEF BaseAt
    <3>3. PointerAt(b)'
      BY <1>2, <1>5, <3>1 DEF PointerAt, Follows
    <3> QED
      BY <3>2, <3>3 DEF CountedAt
  <2>4. CountedEntry(clock)'
    <3>1. Awaits(a, clock)' /\ ~(clock' <= entry'.at)
      BY <1>1, <1>2, <1>3, <1>5 DEF Awaits
    <3> QED
      BY <3>1 DEF CountedEntry
  <2>5. clock' <= clock'
    BY <1>2, <1>3
  <2> QED
    BY <2>2, <2>3, <2>4, <2>5 DEF Calm
<1> QED
  BY <1>2, <1>3, <1>8, <1>9

CountsHold == CountsBase /\ (~crossed => \E W \in Nat : Calm(W))

LEMMA CountsNext == ASSUME CountsHold, Next PROVE CountsHold'
<1>1. Readers \subseteq Actors /\ Requests \subseteq Actors /\ CountsBase
  BY DEF Actors, CountsHold
<1>2. ASSUME NEW W \in Nat PROVE CountsBase' /\ (~crossed' => ~crossed /\ (Calm(W) => \E V \in Nat : Calm(V)'))
  <2>1. ASSUME NEW a \in Readers, Scan(a) \/ Check(a) \/ ScanStat(a) \/ ScanCount(a) \/ Publish(a)
        PROVE  CountsBase' /\ crossed' = crossed /\ (Calm(W) => Calm(W)')
    <3>1. CASE Scan(a) \/ Check(a)
      BY <1>1, <3>1, CountsBegin DEF Check, Scan
    <3>2. CASE ScanStat(a)
      BY <1>1, <3>2, CountsStat DEF ScanStat
    <3>3. CASE ScanCount(a)
      BY <1>1, <3>3, CountsCount DEF ScanCount
    <3>4. CASE Publish(a)
      BY <1>1, <3>4, CountsPublish DEF Publish
    <3> QED
      BY <2>1, <3>1, <3>2, <3>3, <3>4
  <2>2. ASSUME NEW r \in Requests, ReopenStat(r) \/ ReopenCount(r) \/ RefreshCount(r) \/ Readd(r)
        PROVE  CountsBase' /\ crossed' = crossed /\ (Calm(W) => Calm(W)')
    <3>1. CASE ReopenStat(r)
      BY <1>1, <3>1, CountsStat DEF ReopenStat
    <3>2. CASE ReopenCount(r) \/ RefreshCount(r)
      BY <1>1, <3>2, CountsCount DEF ReopenCount, RefreshCount
    <3>3. CASE Readd(r)
      BY <1>1, <3>3, CountsReadd DEF Readd
    <3> QED
      BY <2>2, <3>1, <3>2, <3>3
  <2>3. ASSUME NEW r \in Requests, Patch(r) \/ Refresh(r) \/ Put(r)
        PROVE  CountsBase' /\ crossed' = crossed /\ (Calm(W) => Calm(W)')
    <3>1. CASE Patch(r)
      BY <1>1, <3>1, CountsPatch DEF Patch
    <3>2. CASE Refresh(r)
      BY <1>1, <3>2, CountsRefresh DEF Refresh
    <3>3. CASE Put(r)
      BY <1>1, <3>3, CountsPublish DEF Put
    <3> QED
      BY <2>3, <3>1, <3>2, <3>3
  <2>4. ASSUME NEW r \in Requests, NEW k \in Kinds, Lookup(r, k) \/ Reopen(r, k)
        PROVE  CountsBase' /\ crossed' = crossed /\ (Calm(W) => Calm(W)')
    BY <1>1, <2>4, CountsBegin DEF Lookup, Reopen
  <2>5. ASSUME NEW r \in Requests, WriteMeta(r)
        PROVE  CountsBase' /\ (~crossed' => ~crossed /\ (Calm(W) => Calm(W)'))
    BY <1>1, <2>5, CountsWrite
  <2>6. ASSUME NEW r \in Requests, Assign(r) \/ Rewrite(r)
        PROVE  CountsBase' /\ crossed' = crossed /\ (Calm(W) => \E V \in Nat : Calm(V)')
    <3>1. /\ CountsBase' /\ clock \in Nat /\ clock' = clock
          /\ Calm(W) => Calm(W)' \/ Calm(clock)'
      BY <1>1, <2>6, CountsAssign, CountsRewrite
    <3>2. crossed' = crossed
      BY <2>6 DEF Assign, Rewrite
    <3>3. Calm(clock)' => \E V \in Nat : Calm(V)'
      BY <3>1
    <3> QED
      BY <3>1, <3>2, <3>3
  <2> QED
    BY <2>1, <2>2, <2>3, <2>4, <2>5, <2>6 DEF Next
<1>3. CountsBase' /\ (~crossed' => ~crossed)
  BY <1>2
<1>4. ASSUME ~crossed' PROVE \E V \in Nat : Calm(V)'
  <2>1. PICK W \in Nat : Calm(W)
    BY <1>3, <1>4 DEF CountsHold
  <2> QED
    BY <1>2, <1>4, <2>1
<1> QED
  BY <1>3, <1>4 DEF CountsHold

LEMMA CountsFollow == ASSUME CountsHold PROVE CountCurrent
<1> SUFFICES ASSUME ~crossed, \A r \in Requests : ~Refreshing(r)
             PROVE  entry.count = CountNow
  BY DEF CountCurrent, CountNow
<1>1. PICK W \in Nat : Calm(W)
  BY DEF CountsHold
<1>2. CountsBase /\ entry.at \in Nat
  BY DEF CountsHold, CountsBase, CountsTypes
<1>3. \A a \in Actors : ~Awaits(a, W) /\ ~Moves(a)
  BY <1>2 DEF CountsBase, BaseAt, Awaits, Moves, Refreshing
<1>4. CountedEntry(W)
  BY <1>1, <1>3 DEF Calm, Moving
<1> QED
  BY <1>2, <1>3, <1>4 DEF CountedEntry

\* For any number of requests, scans, objects, sources and pointer moves, overlapping in any
\* way: once the requests are answered the cached count is that of the current source, unless
\* a pointer moved across what another actor had read of book.json, which it never does when
\* requests and scans follow one another (RefreshBookCharCount, keepNewerCharCount).
THEOREM CountsCatchUp == MCSpec => []CountIsCurrent
<1> DEFINE Inv == part = "counts" => CountsHold
<1>1. MCInit => Inv
  BY CountsInit DEF MCInit, CountsHold
<1>2. ASSUME Inv, [MCNext]_bookvars PROVE Inv'
  <2>1. CASE part = "counts" /\ Next /\ UNCHANGED part
    BY <1>2, <2>1, CountsNext
  <2>2. CASE UNCHANGED <<part, vars>>
    BY <1>2, <2>2
    DEF vars, files, local, CountsHold, CountsBase, CountsTypes, OneLookup, BaseAt, Calm, EntryFollows,
        PointerAt, Moving, Moves, CountedEntry, CountedAt, Awaits, Follows, CountNow
  <2>3. CASE part # "counts" /\ UNCHANGED part
    BY <2>3
  <2> QED
    BY <1>2, <2>1, <2>2, <2>3 DEF MCNext, bookvars
<1>3. AloneInv => ~crossed /\ Alone!CountCurrent
  <2> SUFFICES ASSUME AloneInv
               PROVE  /\ ~crossed
                      /\ (\A r \in Requests : ~Alone!Refreshing(r))
                            => entry.count = <<disk.meta.cur, words[disk.meta.cur]>>
    BY DEF Alone!CountCurrent
  <2>1. (\A r \in Requests : ~Alone!Refreshing(r)) =>
          \A a \in Actors : pc[a] \notin {"refresh", "restore", "put"} /\ ~(pc[a] = "assign" /\ kind[a] = "point")
    BY DEF Alone!Refreshing, AloneInv, AloneAt
  <2> QED
    BY <2>1 DEF AloneInv, AloneEntry, AloneTypes, CountNow
<1>4. Inv /\ (part = "alone" => AloneInv) => CountIsCurrent
  BY <1>3, CountsFollow DEF CountIsCurrent
<1> QED
  BY <1>1, <1>2, <1>4, AloneInvariant, PTL DEF MCSpec, bookvars

=============================================================================
