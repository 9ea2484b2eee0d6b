------------------------------ MODULE WikiPages ------------------------------
(***********************************************************************************)
(* A wiki knowledge base: each uploaded document is compiled by the model into     *)
(* pages with links to other pages (internal/wiki/compiler.go), stored statement   *)
(* by statement (internal/database/repository/wiki_repo.go).  A link names a path; *)
(* its target is found afterwards.  Compilations of several requests overlap, and  *)
(* documents are deleted meanwhile.                                                *)
(***********************************************************************************)
EXTENDS Integers, Sequences, FiniteSets

CONSTANTS WikiSources,  \* the documents that are uploaded
          Wikis,
          WikiOf,       \* [WikiSources -> Wikis]
          Outputs,      \* [WikiSources -> what the model may answer: sequences of pages, each
                        \*  of them [path |-> , links |-> a set of paths]]
          IndexPath,    \* index.md
          MaxWikiFaults \* bound: statements and calls that fail, and deletions

VARIABLES pages,       \* wiki_pages: [id |->, kb |->, path |->, source |->]
          links,       \* wiki_links: [from |->, path |->, target |-> the id of a page, or 0]
          upload,      \* [WikiSources -> the upload of the document]
          deletedDocs, \* documents that have been deleted
          nextId,
          pending,     \* history: the knowledge bases where an upload ended without ResolveLinks
          wikiFaults

wikiVars == <<pages, links, upload, deletedDocs, nextId, pending, wikiFaults>>

NoPage == 0
NewUpload == [pc |-> "new", pages |-> <<>>, id |-> NoPage, links |-> {}]

WikiInit == /\ pages = {} /\ links = {} /\ nextId = 1
            /\ upload = [d \in WikiSources |-> NewUpload]
            /\ deletedDocs = {}
            /\ pending = {} /\ wikiFaults = 0

Statement(ok) ==
  IF ok THEN UNCHANGED wikiFaults
  ELSE wikiFaults < MaxWikiFaults /\ wikiFaults' = wikiFaults + 1

UploadEnded == {"completed", "failed"}

-----------------------------------------------------------------------------
PageAt(kb, path) == {p \in pages : p.kb = kb /\ p.path = path}

(* INSERT .. ON CONFLICT DO UPDATE: a page that is there keeps its id. *)
UpsertPage(kb, path, source) ==
  LET there == PageAt(kb, path)
      id == IF there = {} THEN nextId ELSE (CHOOSE p \in there : TRUE).id
  IN /\ pages' = (pages \ there) \cup {[id |-> id, kb |-> kb, path |-> path, source |-> source]}
     /\ nextId' = IF there = {} THEN nextId + 1 ELSE nextId

(* The foreign keys: the links from a page go with it, those to it lose their target. *)
DeletePages(gone) ==
  LET ids == {p.id : p \in gone}
  IN /\ pages' = pages \ gone
     /\ links' = {[l EXCEPT !.target = IF @ \in ids THEN NoPage ELSE @] :
                    l \in {k \in links : k.from \notin ids}}

(* A page found by its path alone. *)
ResolveAnywhere(kb) ==
  LET Found(l) == {p \in pages : p.path = l.path}
      mine == {p.id : p \in {q \in pages : q.kb = kb}}
  IN links' = {IF l.target = NoPage /\ l.from \in mine /\ Found(l) # {}
               THEN [l EXCEPT !.target = (CHOOSE p \in Found(l) : TRUE).id] ELSE l : l \in links}

ResolveLinks(kb) ==
  LET mine == {p.id : p \in {q \in pages : q.kb = kb}}
  IN links' = {IF l.target = NoPage /\ l.from \in mine /\ PageAt(kb, l.path) # {}
               THEN [l EXCEPT !.target = (CHOOSE p \in PageAt(kb, l.path) : TRUE).id] ELSE l :
                 l \in links}

-----------------------------------------------------------------------------
UploadAt(d, pc) == upload[d].pc = pc
Record(d, u) == upload' = [upload EXCEPT ![d] = u]
GoOn(d, pc) == Record(d, [upload[d] EXCEPT !.pc = pc])
FailUpload(d) == GoOn(d, "failed") /\ pending' = pending \cup {WikiOf[d]}

(* uploadWikiDocument, uploadWikiDocumentURL: the record, the content, and the model's       *)
(* answer; an answer that cannot be parsed makes the content one page, an empty one no page. *)
UploadWikiDoc(d) ==
  /\ UploadAt(d, "new")
  /\ \/ /\ \E out \in Outputs[d] :
             Record(d, [NewUpload EXCEPT !.pc = IF out = <<>> THEN "completed" ELSE "page",
                                      !.pages = out])
        /\ UNCHANGED wikiFaults
     \/ GoOn(d, "failed") /\ Statement(FALSE)
  /\ UNCHANGED <<pages, links, deletedDocs, nextId, pending>>

AfterPage(d) == IF Len(upload[d].pages) = 1 THEN "list" ELSE "page"

StorePage(d) ==
  LET page == Head(upload[d].pages) IN
  /\ UploadAt(d, "page")
  /\ \/ /\ UpsertPage(WikiOf[d], page.path, d)
        /\ LET stored == CHOOSE p \in pages' : p.kb = WikiOf[d] /\ p.path = page.path IN
           Record(d, [upload[d] EXCEPT !.id = stored.id, !.links = page.links,
                                    !.pages = IF page.links = {} THEN Tail(@) ELSE @,
                                    !.pc = IF page.links = {} THEN AfterPage(d) ELSE "unlink"])
        /\ UNCHANGED <<pending, wikiFaults>>
     \/ /\ FailUpload(d) /\ Statement(FALSE)
        /\ UNCHANGED <<pages, nextId>>
  /\ UNCHANGED <<links, deletedDocs>>

NextPage(d) ==
  Record(d, [upload[d] EXCEPT !.pages = Tail(@), !.links = {}, !.pc = AfterPage(d)])

(* UpsertLinks: the old ones are deleted, the new ones inserted; an error, as when the page *)
(* has been deleted in the meantime, is logged.                                             *)
Unlink(d) ==
  /\ UploadAt(d, "unlink")
  /\ \/ /\ links' = {l \in links : l.from # upload[d].id}
        /\ GoOn(d, "link") /\ UNCHANGED wikiFaults
     \/ NextPage(d) /\ Statement(FALSE) /\ UNCHANGED links
  /\ UNCHANGED <<pages, deletedDocs, nextId, pending>>

Link(d) ==
  /\ UploadAt(d, "link")
  /\ \E path \in upload[d].links :
       \/ /\ \E p \in pages : p.id = upload[d].id
          /\ links' = links \cup {[from |-> upload[d].id, path |-> path, target |-> NoPage]}
          /\ IF upload[d].links = {path} THEN NextPage(d)
             ELSE Record(d, [upload[d] EXCEPT !.links = @ \ {path}])
          /\ UNCHANGED wikiFaults
       \/ /\ \A p \in pages : p.id # upload[d].id
          /\ NextPage(d) /\ UNCHANGED <<links, wikiFaults>>
       \/ NextPage(d) /\ Statement(FALSE) /\ UNCHANGED links
  /\ UNCHANGED <<pages, deletedDocs, nextId, pending>>

(* updateIndex: the pages are listed, the index page is written; errors are logged. *)
ListPages(d) ==
  /\ UploadAt(d, "list")
  /\ \/ GoOn(d, "index") /\ UNCHANGED wikiFaults
     \/ GoOn(d, "resolve") /\ Statement(FALSE)
  /\ UNCHANGED <<pages, links, deletedDocs, nextId, pending>>

WriteIndex(d) ==
  /\ UploadAt(d, "index") /\ GoOn(d, "resolve")
  /\ \/ UpsertPage(WikiOf[d], IndexPath, NoPage) /\ UNCHANGED wikiFaults
     \/ Statement(FALSE) /\ UNCHANGED <<pages, nextId>>
  /\ UNCHANGED <<links, deletedDocs, pending>>

Resolve(d) ==
  /\ UploadAt(d, "resolve") /\ GoOn(d, "completed")
  /\ \/ ResolveLinks(WikiOf[d]) /\ pending' = pending \ {WikiOf[d]} /\ UNCHANGED wikiFaults
     \/ Statement(FALSE) /\ pending' = pending \cup {WikiOf[d]} /\ UNCHANGED links
  /\ UNCHANGED <<pages, deletedDocs, nextId>>

(* DeleteDocument, MCPDeleteDocument, perhaps while the document is being compiled: *)
(* DeletePagesBySourceKnowledge, whose error is logged.                             *)
DeleteWikiDoc(d) ==
  /\ ~UploadAt(d, "new") /\ d \notin deletedDocs /\ deletedDocs' = deletedDocs \cup {d}
  /\ Statement(FALSE)
  /\ DeletePages({p \in pages : p.source = d}) \/ UNCHANGED <<pages, links>>
  /\ UNCHANGED <<upload, nextId, pending>>

WikiOver == (\A d \in WikiSources : upload[d].pc \in UploadEnded) /\ UNCHANGED wikiVars

WikiNext ==
  \/ \E d \in WikiSources : \/ UploadWikiDoc(d) \/ StorePage(d) \/ Unlink(d) \/ Link(d)
                            \/ ListPages(d) \/ WriteIndex(d) \/ Resolve(d) \/ DeleteWikiDoc(d)
  \/ WikiOver

WikiSpec == WikiInit /\ [][WikiNext]_wikiVars

-----------------------------------------------------------------------------
FromPage(l) == CHOOSE p \in pages : p.id = l.from

(* A link that has a target leads to the page its path names in its own knowledge base; and  *)
(* when no upload is at work, every link whose page exists has its target, in whatever order *)
(* the pages and links of several uploads were written and pages deleted, unless the last    *)
(* upload to end there ended before ResolveLinks or could not run it.                        *)
(* (wiki_repo.go, ResolveLinks; compiler.go, Compile.)                                       *)
LinksResolved ==
  \A l \in links :
    LET named == PageAt(FromPage(l).kb, l.path)
    IN /\ l.target # NoPage => \E p \in named : p.id = l.target
       /\ (/\ \A d \in WikiSources : upload[d].pc \in UploadEnded \cup {"new"}
           /\ FromPage(l).kb \notin pending
           /\ named # {}) => l.target # NoPage
=============================================================================
