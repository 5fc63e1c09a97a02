---------------------------- MODULE BookSources ----------------------------
(***************************************************************************)
(* One book package on disk: how it is imported, its sources and its       *)
(* cover (shelf/bookpkg/book.go and source.go, and the handlers of         *)
(* server/handle_import.go, import_epub.go, import_cbz.go, handle_books.go,*)
(* handle_book_sources.go and handle_book_cover.go).                       *)
(*                                                                         *)
(* A package is built in the shelf's temporary folder and renamed into     *)
(* place when it is finished.  After that every request changes it one     *)
(* file at a time, under no lock, and the process may end between any two  *)
(* of those files.  BookMeta has the Book objects' copies of book.json;    *)
(* here a request reads book.json as it is on disk.                        *)
(***************************************************************************)
EXTENDS Naturals, FiniteSets, FiniteSetsExt

CONSTANTS SourceIds,   \* source IDs, ordered as the time stamps they are
          Exts,        \* file extensions of a cover
          Requests,    \* requests in flight
          MaxRequests, \* bound: requests in one behaviour
          None

VARIABLES place,    \* where the package is: "absent", "staged" or "listed"
          sources,  \* each source directory: see Directories
          temps,    \* the sources with a staging directory ".<id>-<random>.tmp"
          images,   \* the sources that have their images in assets/
          bookJson, \* current_source and cover
          covers,   \* the cover files of the package
          at, rq,   \* where each request is, and what it was asked and found
          begun     \* requests begun

package == <<place, sources, temps, images, bookJson, covers>>
bvars == <<package, at, rq, begun>>

(***************************************************************************)
(* A directory that RemoveAll was cut off in has lost its meta.json, and   *)
(* no longer opens, or its source.txt, and opens all the same.             *)
(***************************************************************************)
Directories == {"none", "whole", "gutted", "unopenable"}
Imports == {"blank", "text", "epub", "cbz"}
Operations == Imports \union {"create", "delete", "point", "cover", "uncover"}
NoRequest == [kind |-> "none", id |-> None, set |-> FALSE, new |-> None, ext |-> None, prev |-> None]
NoBook == [current |-> None, cover |-> None]

EmptyPackage(where) ==
  /\ place' = where
  /\ sources' = [i \in SourceIds |-> "none"]
  /\ temps' = {} /\ images' = {} /\ covers' = {}
  /\ bookJson' = NoBook

Init ==
  /\ place = "absent"
  /\ sources = [i \in SourceIds |-> "none"]
  /\ temps = {} /\ images = {} /\ covers = {}
  /\ bookJson = NoBook
  /\ at = [r \in Requests |-> "idle"]
  /\ rq = [r \in Requests |-> NoRequest]
  /\ begun = 0

Opens(i) == i \in SourceIds /\ sources[i] \in {"whole", "gutted"}

\* ListSource: a staging directory is not a source, nor is what fails to open.
ListSource == {i \in SourceIds : Opens(i)}
Newest(ids) == IF ids = {} THEN None ELSE Max(ids)

\* What reading the book serves.
ResolveCurrentSource == IF Opens(bookJson.current) THEN bookJson.current ELSE Newest(ListSource)

Goto(r, label) == at' = [at EXCEPT ![r] = label]
Done(r) == Goto(r, "idle") /\ rq' = [rq EXCEPT ![r] = NoRequest]

(***************************************************************************)
(* A request begins.  An import creates the staged package with its        *)
(* book.json (bookpkg.Create); the other requests need a listed book, and  *)
(* setCurrentSource a source that opens.                                   *)
(***************************************************************************)
FirstStep(kind) ==
  CASE kind \in Imports \union {"create"} -> "stage"
    [] kind = "delete" -> "check"
    [] kind = "point" -> "open"
    [] kind = "cover" -> "coverFile"
    [] kind = "uncover" -> "unlinkCover"

Import(r, kind) ==
  /\ kind \in Imports
  /\ place = "absent"
  /\ EmptyPackage("staged")
  /\ rq' = [rq EXCEPT ![r] = [NoRequest EXCEPT !.kind = kind, !.set = TRUE]]

Edit(r, kind) ==
  /\ kind \notin Imports
  /\ place = "listed"
  /\ \E i \in SourceIds, e \in Exts, set \in BOOLEAN :
       /\ kind = "point" => Opens(i)
       /\ kind = "uncover" => bookJson.cover # None
       /\ rq' = [rq EXCEPT ![r] =
            [kind |-> kind, set |-> set,
             id |-> IF kind = "delete" THEN i ELSE None,
             new |-> IF kind = "point" THEN i ELSE None,
             ext |-> IF kind = "cover" THEN e ELSE None,
             prev |-> IF kind \in {"cover", "uncover"} THEN bookJson.cover ELSE None]]
  /\ UNCHANGED package

Begin(r) ==
  /\ at[r] = "idle"
  /\ begun < MaxRequests
  /\ begun' = begun + 1
  /\ \E kind \in Operations :
       /\ Import(r, kind) \/ Edit(r, kind)
       /\ Goto(r, FirstStep(kind))

(***************************************************************************)
(* NewSourceWithOptions: the source is written to a staging directory and  *)
(* renamed to an ID that was free when it was chosen.                      *)
(***************************************************************************)
StageSource(r) ==
  /\ at[r] = "stage"
  /\ \E i \in {j \in SourceIds : sources[j] = "none"} :
       /\ rq' = [rq EXCEPT ![r].new = i]
       /\ temps' = temps \union {i}
  /\ Goto(r, "publish")
  /\ UNCHANGED <<place, sources, images, bookJson, covers, begun>>

AfterPublish(q) ==
  CASE q.kind \in {"epub", "cbz"} -> "assets"
    [] q.kind = "create" /\ ~q.set -> "idle"
    [] OTHER -> "open"

PublishSource(r) ==
  /\ at[r] = "publish"
  /\ sources[rq[r].new] = "none"
  /\ sources' = [sources EXCEPT ![rq[r].new] = "whole"]
  /\ temps' = temps \ {rq[r].new}
  /\ images' = images \ {rq[r].new}
  /\ IF AfterPublish(rq[r]) = "idle"
     THEN Done(r)
     ELSE Goto(r, AfterPublish(rq[r])) /\ UNCHANGED rq
  /\ UNCHANGED <<place, bookJson, covers, begun>>

(***************************************************************************)
(* The imports' other steps.  An EPUB's images are stored as far as that   *)
(* succeeds, as is its cover; a CBZ fails without any of its pages, and    *)
(* sets its cover once the first is there.                                 *)
(***************************************************************************)
\* Fault: pages that fail are skipped, as an EPUB's images are.
MayLackImagesAlways(q) == TRUE
MayLackImages(q) == q.kind = "epub"

WriteImages(r) ==
  /\ at[r] = "assets"
  /\ images' = images \union {rq[r].new} \/ (MayLackImages(rq[r]) /\ UNCHANGED images)
  /\ IF rq[r].kind = "cbz"
     THEN \E e \in Exts : rq' = [rq EXCEPT ![r].ext = e] /\ Goto(r, "coverFile")
     ELSE UNCHANGED rq /\ Goto(r, "open")
  /\ UNCHANGED <<place, sources, temps, bookJson, covers, begun>>

(***************************************************************************)
(* SetCurrentSource: GetSource, then book.json.  The hint file beside it   *)
(* is never read back.                                                     *)
(***************************************************************************)
GetSource(r) ==
  /\ at[r] = "open"
  /\ Opens(rq[r].new)
  /\ Goto(r, "write") /\ UNCHANGED rq
  /\ UNCHANGED <<package, begun>>

AfterWrite(q) ==
  CASE q.kind = "delete" -> "remove"
    [] q.kind = "blank" -> "list"
    [] q.kind \in {"text", "cbz"} -> "meta"
    [] q.kind = "epub" -> "comment"
    [] OTHER -> "idle"

WriteCurrentSource(r) ==
  /\ at[r] = "write"
  /\ bookJson' = [bookJson EXCEPT !.current = rq[r].new]
  /\ IF AfterWrite(rq[r]) = "idle" THEN Done(r) ELSE Goto(r, AfterWrite(rq[r])) /\ UNCHANGED rq
  /\ UNCHANGED <<place, sources, temps, images, covers, begun>>

CommentSource(r) == \* UpdateComment, and whether the EPUB has a cover
  /\ at[r] = "comment"
  /\ \/ \E e \in Exts : rq' = [rq EXCEPT ![r].ext = e] /\ Goto(r, "coverFile")
     \/ UNCHANGED rq /\ Goto(r, "meta")
  /\ UNCHANGED <<package, begun>>

WriteMeta(r) == \* SetMeta of what the file itself says of the book
  /\ at[r] = "meta"
  /\ Goto(r, "list") /\ UNCHANGED rq
  /\ UNCHANGED <<package, begun>>

ListBook(r) == \* NewBookWith renames the staged package into its folder
  /\ at[r] = "list"
  /\ place' = "listed"
  /\ Done(r)
  /\ UNCHANGED <<sources, temps, images, bookJson, covers, begun>>

(***************************************************************************)
(* DeleteSource.  If the source is the current one, another takes over     *)
(* first: the newest left, or else a new and empty one.                    *)
(***************************************************************************)
\* Fault: the pointer is not handed over.
HandOverNever(id) == FALSE
HandOver(id) == id = bookJson.current

CheckSource(r) ==
  /\ at[r] = "check"
  /\ Opens(rq[r].id)
  /\ LET next == Newest(ListSource \ {rq[r].id}) IN
     IF HandOver(rq[r].id)
     THEN /\ Goto(r, IF next = None THEN "stage" ELSE "open")
          /\ rq' = [rq EXCEPT ![r].new = next]
     ELSE Goto(r, "remove") /\ UNCHANGED rq
  /\ UNCHANGED <<package, begun>>

RemoveSource(r) ==
  /\ at[r] = "remove"
  /\ sources' = [sources EXCEPT ![rq[r].id] = "none"]
  /\ images' = images \ {rq[r].id}
  /\ Done(r)
  /\ UNCHANGED <<place, temps, bookJson, covers, begun>>

RemovePart(r) == \* RemoveAll, in the directory's own order, cut off or failing later
  /\ at[r] = "remove"
  /\ sources[rq[r].id] = "whole"
  /\ \E d \in {"gutted", "unopenable"} : sources' = [sources EXCEPT ![rq[r].id] = d]
  /\ UNCHANGED rq
  /\ UNCHANGED <<place, temps, images, bookJson, covers, at, begun>>

(***************************************************************************)
(* SetCover: the new file, then book.json, then the file that book.json    *)
(* named before, if it still does not name it.  DeleteCover removes the    *)
(* file first.                                                             *)
(***************************************************************************)
WriteCover(r) ==
  /\ at[r] = "coverFile"
  /\ covers' = covers \union {rq[r].ext}
  /\ Goto(r, "coverMeta") /\ UNCHANGED rq
  /\ UNCHANGED <<place, sources, temps, images, bookJson, begun>>

AfterCover(q) ==
  CASE q.kind = "epub" -> "meta"
    [] q.kind = "cbz" -> "open"
    [] q.kind = "cover" /\ q.prev \notin {None, q.ext} -> "reread"
    [] OTHER -> "idle"

NameCover(r) ==
  /\ at[r] = "coverMeta"
  /\ bookJson' = [bookJson EXCEPT !.cover = rq[r].ext]
  /\ IF AfterCover(rq[r]) = "idle" THEN Done(r) ELSE Goto(r, AfterCover(rq[r])) /\ UNCHANGED rq
  /\ UNCHANGED <<place, sources, temps, images, covers, begun>>

RereadCover(r) ==
  /\ at[r] = "reread"
  /\ IF bookJson.cover = rq[r].prev THEN Done(r) ELSE Goto(r, "unlink") /\ UNCHANGED rq
  /\ UNCHANGED <<package, begun>>

RemoveCover(r) ==
  /\ at[r] = "unlink"
  /\ covers' = covers \ {rq[r].prev}
  /\ Done(r)
  /\ UNCHANGED <<place, sources, temps, images, bookJson, begun>>

DeleteCover(r) ==
  /\ at[r] = "unlinkCover"
  /\ rq[r].prev \in covers
  /\ covers' = covers \ {rq[r].prev}
  /\ Goto(r, "unnameCover") /\ UNCHANGED rq
  /\ UNCHANGED <<place, sources, temps, images, bookJson, begun>>

UnnameCover(r) ==
  /\ at[r] = "unnameCover"
  /\ bookJson' = [bookJson EXCEPT !.cover = None]
  /\ Done(r)
  /\ UNCHANGED <<place, sources, temps, images, covers, begun>>

(***************************************************************************)
(* Any step may fail.  An EPUB goes on without its cover; an import that   *)
(* fails leaves nothing (NewBookWith's deferred RemoveAll); a source that  *)
(* was to become current and did not is deleted again; the staging         *)
(* directory of a source is removed in any case.                           *)
(***************************************************************************)
Fail(r) ==
  /\ at[r] # "idle"
  /\ IF rq[r].kind \in Imports
     THEN IF rq[r].kind = "epub" /\ at[r] \in {"coverFile", "coverMeta"}
          THEN Goto(r, "meta") /\ UNCHANGED rq /\ UNCHANGED package
          ELSE Done(r) /\ EmptyPackage("absent")
     ELSE /\ temps' = IF at[r] = "publish" THEN temps \ {rq[r].new} ELSE temps
          /\ IF rq[r].kind = "create" /\ at[r] \in {"open", "write"}
             THEN /\ Goto(r, "check")
                  /\ rq' = [rq EXCEPT ![r] = [NoRequest EXCEPT !.kind = "delete", !.id = rq[r].new]]
             ELSE Done(r)
          /\ UNCHANGED <<place, sources, images, bookJson, covers>>
  /\ UNCHANGED begun

\* The process ends; makeStructure empties the shelf's temporary folder when
\* the shelf is opened again, and a source's staging directory stays.
Crash ==
  /\ \E r \in Requests : at[r] # "idle"
  /\ at' = [r \in Requests |-> "idle"]
  /\ rq' = [r \in Requests |-> NoRequest]
  /\ IF place = "staged" THEN EmptyPackage("absent") ELSE UNCHANGED package
  /\ UNCHANGED begun

Step(r) ==
  \/ Begin(r) \/ StageSource(r) \/ PublishSource(r) \/ WriteImages(r)
  \/ GetSource(r) \/ WriteCurrentSource(r) \/ CommentSource(r) \/ WriteMeta(r) \/ ListBook(r)
  \/ CheckSource(r) \/ RemoveSource(r) \/ RemovePart(r)
  \/ WriteCover(r) \/ NameCover(r) \/ RereadCover(r) \/ RemoveCover(r)
  \/ DeleteCover(r) \/ UnnameCover(r) \/ Fail(r)

Next == Crash \/ \E r \in Requests : Step(r)
Spec == Init /\ [][Next]_bvars

TypeOK ==
  /\ place \in {"absent", "staged", "listed"}
  /\ sources \in [SourceIds -> Directories]
  /\ temps \subseteq SourceIds /\ images \subseteq SourceIds /\ covers \subseteq Exts
  /\ bookJson \in [current : SourceIds \union {None}, cover : Exts \union {None}]
  /\ begun \in 0 .. MaxRequests

-----------------------------------------------------------------------------
(***************************************************************************)
(* The pointer of a listed book always names a source that opens, in the   *)
(* middle of every request and wherever a request failed or the process    *)
(* ended (handOverCurrentSource runs before RemoveAll, NewSourceWithOptions*)
(* publishes a source by its last rename, an import lists a book last).    *)
(***************************************************************************)
CurrentIsThere ==
  place = "listed" => ResolveCurrentSource = bookJson.current /\ Opens(bookJson.current)

(***************************************************************************)
(* A book is listed by an import only when it can be read: its current     *)
(* source is whole, a CBZ has its pages and a cover, and a cover that      *)
(* book.json names is there, whichever steps failed on the way             *)
(* (newPlainTextBook, initEPUBBook, importCBZ).                            *)
(***************************************************************************)
ImportsWhole ==
  \A r \in Requests : at[r] = "list" /\ place' = "listed" =>
    /\ sources[bookJson.current] = "whole"
    /\ rq[r].kind = "cbz" => bookJson.current \in images /\ bookJson.cover # None
    /\ bookJson.cover # None => bookJson.cover \in covers

(***************************************************************************)
(* Only DeleteCover takes away the cover that book.json names: replacing   *)
(* it, whatever fails and wherever the process ends, leaves a book that    *)
(* had a cover with the old one or the new one (SetCover,                  *)
(* removeCoverIfUnreferenced).                                             *)
(***************************************************************************)
KeepsCover ==
  place = "listed" /\ bookJson.cover \in covers /\ bookJson'.cover \notin covers' =>
    \E r \in Requests : at[r] \in {"unlinkCover", "unnameCover"}

(***************************************************************************)
(* "A book always has at least one source": docs/concepts/data-model.md.   *)
(* Requests to one book take no lock, so that it fails for two of them.    *)
(***************************************************************************)
AlwaysHasSource == place = "listed" => ListSource # {}
=============================================================================
