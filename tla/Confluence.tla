------------------------------ MODULE Confluence ------------------------------
(***************************************************************************)
(* syncConfluenceToDocs (packages/confluence): a documentation tree is     *)
(* mirrored below a target page, one request at a time, while users edit   *)
(* the same space.  A run may fail or be killed at every request, a write  *)
(* whose answer is lost may land late, and the next run starts from what   *)
(* it finds.  The server is external: it checks the version of an update,  *)
(* and a deleted page takes the pages below it into the trash.             *)
(***************************************************************************)
EXTENDS Naturals, FiniteSets, Sequences, SequencesExt

CONSTANTS
    Files,       \* the Markdown files, in the order of their paths
    Segments,    \* of each: the titles on its path, folders first
    Kind,        \* of each: "text", "image" or "mermaid"
    Text,        \* the contents of a file
    Unrenderable, \* the contents with a diagram that the renderer refuses
    Gone, Broken, \* a file that is not there, or that preflight refuses
    First,       \* the files and the pages that a first run may find
    UserTitle,   \* titles a user gives to a page
    MaxPage,     \* pages the space ever has, the target aside
    MaxEvents,   \* changes by users and failing requests
    MaxVersion   \* version at which no more runs are started for nothing

VARIABLES
    tree,        \* the files
    mmdc,        \* whether the Mermaid renderer is installed
    page,        \* the space
    sync,        \* the run
    inflight,    \* writes whose caller gave up
    events,      \* changes and faults left
    touched,     \* history: pages changed by others since the run began,
    fresh,       \* since it listed the descendants,
    unread,      \* and pages with an edit that the run has not read
    calm         \* history: "yes" when nothing happened since a run that succeeded

space == <<tree, mmdc, inflight, events>>
history == <<touched, fresh, unread, calm>>
vars == <<tree, mmdc, page, sync, inflight, events, touched, fresh, unread, calm>>

Doc == Range(Files)
Target == 0
Id == 0..MaxPage
NoId == MaxPage + 1

Empty == [form |-> "empty"]
Edited == [form |-> "edited"]
Body(d, text, form) == [doc |-> d, text |-> text, form |-> form]
ParentBody(own, marks, docs) == [form |-> "parent", own |-> own, marks |-> marks, docs |-> docs]

NoPage == [type |-> "absent"]
Trashed == [type |-> "trash"]
PageAt(type, up, above, title, body) ==
    [type |-> type, up |-> up, above |-> above, title |-> title, body |-> body,
     version |-> 1, label |-> FALSE, files |-> {}]
NewPage(type, up, title, body) == PageAt(type, up, page[up].above \cup {up}, title, body)
TargetPage == PageAt("page", NoId, {}, "target", ParentBody(0, "none", {}))

PageFields == {"type", "up", "above", "title", "body", "version", "label", "files"}
BodyFields == {"form", "own", "marks", "docs"}

LiveIn(pages) == {p \in Id : pages[p].type \in {"page", "folder"}}
Live == LiveIn(page)
Unused == {p \in Id : page[p] = NoPage}
NextId == CHOOSE p \in Unused : \A q \in Unused : p <= q

Below(p) == {q \in Live : p \in page[q].above}

\* The live pages are a tree below the target, and each knows the way to it.
IsTree(pages) ==
    LET live == LiveIn(pages) IN
    /\ Target \in live /\ pages[Target].type = "page"
    /\ pages[Target].up = NoId /\ pages[Target].above = {}
    /\ \A p \in live \ {Target} :
         /\ pages[p].up \in live /\ pages[p].above = pages[pages[p].up].above \cup {pages[p].up}
         /\ p \notin pages[p].above /\ Target \in pages[p].above
         /\ \A q \in pages[p].above : q \in live /\ pages[q].above \subseteq pages[p].above
         /\ \A q, r \in pages[p].above : q = r \/ q \in pages[r].above \/ r \in pages[q].above

\* What the server keeps: pages that are there have their fields, the others are no pages.
IsPage(p) ==
    /\ p = [x \in PageFields |-> p[x]]
    /\ p.type \in {"page", "folder"} /\ p.version \in Nat
IsParent(body) == body = [x \in BodyFields |-> body[x]]
IsSpace(pages) ==
    /\ pages = [p \in Id |-> pages[p]]
    /\ \A p \in Id : pages[p] = NoPage \/ pages[p] = Trashed \/ IsPage(pages[p])
    /\ IsParent(pages[Target].body) /\ IsTree(pages)

\* Every file has a path and a kind, and what a first run finds is a space.
ConfluenceAssumption ==
    /\ Files \in Seq(Doc)
    /\ \A d \in Doc : /\ Segments[d] \in Seq(Range(Segments[d])) \ {<<>>}
                      /\ Kind[d] \in {"text", "image", "mermaid"}
    /\ Unrenderable \subseteq Text /\ Gone # Broken /\ Gone \notin Text /\ Broken \notin Text
    /\ \A f \in First : IsSpace(f.page) /\ f.tree \in [Doc -> Text \cup {Gone, Broken}]
    /\ MaxPage \in Nat /\ MaxEvents \in Nat /\ MaxVersion \in Nat

Idle == [pc |-> "idle", clean |-> FALSE, text |-> [d \in Doc |-> Gone], todo |-> {},
         seg |-> 1, at |-> Target, id |-> NoId, made |-> FALSE, version |-> 0, body |-> Empty,
         cache |-> {}, mapped |-> {}, sure |-> {}, placed |-> [d \in Doc |-> NoId],
         listing |-> {}, queue |-> {}]

Init ==
    /\ \E f \in First : tree = f.tree /\ page = f.page
    /\ mmdc = TRUE
    /\ sync = Idle /\ inflight = {}
    /\ events = MaxEvents
    /\ touched = {} /\ fresh = {} /\ unread = {} /\ calm = "no"

------------------------------------------------------------------------------
\* How a run goes on and ends

Running == sync.pc \notin {"idle", "ok", "failed"}

Fail == sync' = [Idle EXCEPT !.pc = "failed"]

Succeed ==
    sync' = [Idle EXCEPT !.pc = "ok", !.text = sync.text, !.mapped = sync.mapped,
                         !.placed = sync.placed]

\* A request that fails after its retries, or the end of the process.
Fault == events > 0 /\ events' = events - 1

Quiet == UNCHANGED <<space, history>>

\* A read: the run goes on and nothing else changes. A run that ends in failure is not calm.
Reads(next) == next /\ Quiet /\ UNCHANGED page
Fails == Fail /\ calm' = "no" /\ UNCHANGED <<space, page, touched, fresh, unread>>

\* A write: it is applied and the run goes on, or it is applied and the run ends.
Writes(effect, next) ==
    /\ page' = effect /\ UNCHANGED <<tree, mmdc, inflight, touched, fresh, unread>>
    /\ \/ next /\ UNCHANGED <<events, calm>>
       \/ Fault /\ Fail /\ calm' = "no"

\* requestJson: a write is sent once; when the caller gives up it may still be applied.
GivesUp(write) ==
    /\ Fault /\ Fail /\ inflight' = inflight \cup {write} /\ calm' = "no"
    /\ UNCHANGED <<tree, mmdc, page, touched, fresh, unread>>

\* Any request may fail, after the retries if it is a read; a run may be killed anywhere.
RequestFails ==
    /\ Running /\ Fault /\ Fail /\ calm' = "no"
    /\ UNCHANGED <<tree, mmdc, page, inflight, touched, fresh, unread>>

\* After the last entry come the inventory and the pruning, but not in a clean run.
AfterEntries(s) == [s EXCEPT !.pc = IF s.clean THEN "summary" ELSE "list"]

Entry(s) ==
    IF s.todo = {} THEN AfterEntries(s)
    ELSE [s EXCEPT !.pc = "lookup", !.seg = 1, !.at = Target, !.id = NoId, !.made = FALSE,
                   !.version = 0, !.body = Empty]

\* Entries are taken in the order of their paths.
FirstOf(S) ==
    Files[CHOOSE i \in DOMAIN Files : Files[i] \in S /\ \A j \in 1..(i - 1) : Files[j] \notin S]
File == FirstOf(sync.todo)
NextEntry(s) == Entry([s EXCEPT !.todo = @ \ {File}])

------------------------------------------------------------------------------
\* Local checks

\* validateLocalHierarchy: one title is both a file and a folder of the same parent. Two
\* files with one title pass.
HierarchyConflict(S) ==
    \E d, e \in S : Len(Segments[d]) < Len(Segments[e]) /\ IsPrefix(Segments[d], Segments[e])

\* validateLocalSync reads every file, renders it and checks its images before any request.
LocalDefect == \E d \in Doc : tree[d] = Broken
Present == {d \in Doc : tree[d] # Gone}

\* What keeps the job from succeeding until somebody acts.
Stuck ==
    \/ LocalDefect \/ HierarchyConflict(Present) \/ page[Target].body.marks = "damaged"
    \/ \E p, q \in Live : /\ p # q /\ page[p].type = "page" /\ page[q].type = "page"
                          /\ page[p].up = page[q].up /\ page[p].title = page[q].title

\* A bound: a run that nothing new is expected of is not started once a page has MaxVersion.
WorthARun == calm = "yes" \/ Stuck => \A p \in Live : page[p].version < MaxVersion

Start(clean) ==
    /\ ~Running /\ WorthARun
    /\ IF LocalDefect \/ HierarchyConflict(Present)
       THEN Fail
       ELSE LET s == [Idle EXCEPT !.clean = clean, !.text = tree,
                                  !.todo = Present]
            IN  sync' = IF clean THEN [s EXCEPT !.pc = "clean"] ELSE Entry(s)
    /\ touched' = {} /\ fresh' = {} /\ UNCHANGED <<unread, page>>
    /\ IF clean THEN /\ events > 0 /\ events' = events - 1
                     /\ calm' = "run"
       ELSE calm' = (IF calm = "yes" THEN "yes" ELSE "run") /\ UNCHANGED events
    /\ UNCHANGED <<tree, mmdc, inflight>>

------------------------------------------------------------------------------
\* One entry: its folders and its page

Title == Segments[File][sync.seg]
Leaf == sync.seg = Len(Segments[File])
WithUploads == Kind[File] # "text"

Cached == {c \in sync.cache : c.up = sync.at /\ c.title = Title}
Remember(p) == [up |-> sync.at, title |-> Title, id |-> p]

\* Fault for Converges: a page of the title anywhere in the space matches.
Matches_Anywhere == {p \in Live : page[p].type = "page" /\ page[p].title = Title}

\* getPagesByTitle asks for the space, the caller keeps the matches below the parent.
Matches == {p \in Live : page[p].type = "page" /\ page[p].title = Title /\ page[p].up = sync.at}

\* What follows once the page of the segment has its label.
Labelled(s) ==
    LET t == [s EXCEPT !.sure = @ \cup {s.id}]
    IN  IF ~Leaf THEN [t EXCEPT !.pc = "lookup", !.seg = @ + 1, !.at = s.id]
        ELSE LET u == [t EXCEPT !.placed[File] = s.id]
             IN  IF s.made THEN NextEntry(u) ELSE [u EXCEPT !.pc = "fetch"]

\* The page of the segment is known: found, or created with its final body ("made").
Mapped(p, made) ==
    LET s == [sync EXCEPT !.id = p, !.made = made, !.mapped = @ \cup {p},
                          !.cache = @ \cup {Remember(p)}]
    IN  IF p \in sync.sure THEN Labelled(s) ELSE [s EXCEPT !.pc = "labels"]

\* PageTitleCache: "find" knows no cached page, so that a second file of one title is created
\* again; findOrCreate takes the cached one, for folders and for files with uploads.
Lookup ==
    /\ sync.pc = "lookup"
    /\ IF Cached # {} /\ Leaf /\ ~WithUploads THEN Reads(sync' = [sync EXCEPT !.pc = "create"])
       ELSE IF Cached # {} THEN Reads(\E c \in Cached : sync' = Mapped(c.id, FALSE))
       ELSE IF Cardinality(Matches) > 1 THEN Fails
       ELSE IF Matches # {} THEN Reads(\E p \in Matches : sync' = Mapped(p, FALSE))
       ELSE Reads(sync' = [sync EXCEPT !.pc = "create"])

\* A folder, and a page that still needs its attachments, begins empty.
FirstBody == IF Leaf /\ ~WithUploads THEN Body(File, sync.text[File], "plain") ELSE Empty
NewEntry == NewPage("page", sync.at, Title, FirstBody)

Create ==
    /\ sync.pc = "create"
    /\ IF sync.at \in Live /\ Unused # {}
       THEN \/ Writes([page EXCEPT ![NextId] = NewEntry],
                      sync' = Mapped(NextId, Leaf /\ ~WithUploads))
            \/ GivesUp([kind |-> "create", page |-> NewEntry])
       ELSE Fails

\* Fault for SuccessIsMirror: a page that was found is taken for labelled.
HasMarker_Found == page[sync.id].label \/ ~sync.made

HasMarker == page[sync.id].label

\* ensureManagedLabel
ReadLabels ==
    /\ sync.pc = "labels"
    /\ IF sync.id \notin Live THEN Fails
       ELSE Reads(sync' = IF HasMarker THEN Labelled(sync) ELSE [sync EXCEPT !.pc = "addlabel"])

AddLabel ==
    /\ sync.pc = "addlabel"
    /\ IF sync.id \notin Live THEN Fails
       ELSE Writes([page EXCEPT ![sync.id].label = TRUE], sync' = Labelled(sync))

------------------------------------------------------------------------------
\* The body of a page

Uploaded == sync.text[File] \in page[sync.id].files

\* The forms that an unchanged page may have: a picture that is not attached yet leaves the
\* prediction open; without the renderer a diagram stays a code block.
PredictedImage == IF Uploaded THEN {"image"} ELSE {}
PredictedDiagram == IF mmdc THEN PredictedImage ELSE {"code"}
Predicted ==
    CASE Kind[File] = "text" -> {"plain"}
      [] Kind[File] = "image" -> PredictedImage
      [] Kind[File] = "mermaid" -> PredictedDiagram

Unchanged == page[sync.id].body \in {Body(File, sync.text[File], form) : form \in Predicted}

Fetch ==
    /\ sync.pc = "fetch"
    /\ IF sync.id \notin Live THEN Fails
       ELSE /\ LET s == [sync EXCEPT !.version = page[sync.id].version]
               IN  sync' = IF Unchanged THEN NextEntry(s)
                           ELSE IF WithUploads THEN [s EXCEPT !.pc = "rewrite"]
                           ELSE [s EXCEPT !.pc = "put", !.body = FirstBody]
            /\ unread' = unread \ {sync.id}
            /\ UNCHANGED <<space, page, touched, fresh, calm>>

Rewritten(form) ==
    sync' = [sync EXCEPT !.pc = "put", !.body = Body(File, sync.text[File], form)]

\* uploadAttachment, updateAttachmentData: one write, which is not sent again.
Upload == Writes([page EXCEPT ![sync.id].files = @ \cup {sync.text[File]}], Rewritten("image"))

\* What is attached under the hash of its source is used again, the rest is uploaded.
Attach == IF Uploaded THEN Reads(Rewritten("image")) ELSE Upload

\* Nothing in the source says that the renderer refuses it; each run asks again.
Refused == sync.text[File] \in Unrenderable

\* runMmdc: an error, the deadline or too much output; the diagram becomes a code block. A source
\* that is refused fails in every run, another only by a fault.
RenderFails ==
    /\ ~Uploaded /\ Rewritten("code")
    /\ \/ Refused /\ UNCHANGED <<events, calm>>
       \/ ~Refused /\ Fault /\ calm' = "no"
    /\ UNCHANGED <<tree, mmdc, page, inflight, touched, fresh, unread>>

Renders == (Uploaded \/ ~Refused) /\ Attach

RewriteDiagram == IF mmdc THEN Renders \/ RenderFails ELSE Reads(Rewritten("code"))

Rewrite ==
    /\ sync.pc = "rewrite"
    /\ IF sync.id \notin Live THEN Fails
       ELSE IF Kind[File] = "mermaid" THEN RewriteDiagram ELSE Attach

\* Fault for ChangesAreJustified: the version is read again just before the update.
NextVersion_Current == page[sync.id].version + 1

NextVersion == sync.version + 1

\* The server refuses a version that is not the next one: 409, and the run ends.
Accepts(p, version) == p \in Live /\ version = page[p].version + 1

Put ==
    /\ sync.pc = "put"
    /\ IF Accepts(sync.id, NextVersion)
       THEN Writes([page EXCEPT ![sync.id].body = sync.body, ![sync.id].version = @ + 1],
                   sync' = NextEntry(sync))
       ELSE Fails

------------------------------------------------------------------------------
\* Clean, inventory and pruning

\* toInventoryEntry: what a listing says of a page.
Item(p) == [id |-> p, type |-> page[p].type, above |-> page[p].above]
Inventory(S) == {Item(p) : p \in S}
Ids(E) == {e.id : e \in E}

\* buildInventoryNodes: the items below e, as far as the listing E shows the way to them.
BelowIn(E, e) ==
    {f \in E : e.id \in f.above /\ f.above \ e.above \subseteq Ids(E) \cup {e.id}}

DepthOf(e) == Cardinality(e.above)
DeepestFirst(e, f) == DepthOf(e) > DepthOf(f) \/ (DepthOf(e) = DepthOf(f) /\ e.id < f.id)

\* What is left to be deleted, and what follows when it is nothing.
Delete(s, E) ==
    LET t == [s EXCEPT !.queue = E]
    IN  IF E # {} THEN [t EXCEPT !.pc = "delete"]
        ELSE IF s.clean THEN Entry(t) ELSE [t EXCEPT !.pc = "summary"]

\* planCleanDeletions: every page, unless something that is not a page is among them.
Clean ==
    /\ sync.pc = "clean"
    /\ IF \E p \in Below(Target) : page[p].type # "page" THEN Fails
       ELSE Reads(sync' = Delete(sync, Inventory(Below(Target))))

\* getPageDescendants: a listing over several responses may miss a page. Without the depth
\* in the answer a missing ancestor is noticed, with it the listing is taken as it is.
List ==
    /\ sync.pc = "list"
    /\ \/ /\ sync' = [sync EXCEPT !.pc = "plan", !.listing = Inventory(Below(Target))]
          /\ fresh' = {} /\ UNCHANGED <<space, page, touched, unread, calm>>
       \/ \E p \in Below(Target) :
            /\ Fault /\ calm' = "no"
            /\ \/ /\ sync' = [sync EXCEPT !.pc = "plan", !.listing = Inventory(Below(Target) \ {p})]
                  /\ fresh' = {p} \cup Below(p) /\ touched' = touched \cup fresh'
               \/ Below(p) # {} /\ Fail /\ UNCHANGED <<fresh, touched>>
            /\ UNCHANGED <<tree, mmdc, page, inflight, unread>>

Unmapped == {e \in sync.listing : e.type = "page" /\ e.id \notin sync.mapped}
Stale(e) == e \in Unmapped /\ page[e.id].label

\* Fault for ChangesAreJustified: a stale page goes whatever is below it.
Prunable_Alone(e) == Stale(e)

\* planStalePruning: a page is kept when anything below it is kept.
Prunable(e) == \A f \in {e} \cup BelowIn(sync.listing, e) : Stale(f)

\* The labels of the pages that are not mapped are read, and the deletions planned.
Plan ==
    /\ sync.pc = "plan"
    /\ IF Ids(Unmapped) \subseteq Live
       THEN Reads(sync' = Delete([sync EXCEPT !.listing = {}],
                                 {e \in sync.listing : Prunable(e)}))
       ELSE Fails

Trash(p) == [q \in Id |-> IF q \in {p} \cup Below(p) THEN Trashed ELSE page[q]]

\* executeDeletions stops at the first failure.
DeleteNext ==
    /\ sync.pc = "delete"
    /\ \E e \in sync.queue :
         /\ \A f \in sync.queue \ {e} : DeepestFirst(e, f)
         /\ IF e.id \in Live
            THEN \/ Writes(Trash(e.id), sync' = Delete(sync, sync.queue \ {e}))
                 \/ GivesUp([kind |-> "delete", id |-> e.id])
            ELSE Fails

------------------------------------------------------------------------------
\* The summary on the target page

Records == {<<d, sync.placed[d]>> : d \in {e \in Doc : sync.placed[e] # NoId}}

\* mergeParentSummaryBody: the region between the markers is replaced or, on the first run,
\* appended; markers that are damaged are refused.
Merged(body) == [body EXCEPT !.marks = "one", !.docs = Records]

Summary ==
    /\ sync.pc = "summary"
    /\ LET body == page[Target].body IN
       IF body.marks = "damaged" THEN Fails
       ELSE IF Merged(body) = body
       THEN /\ Succeed /\ calm' = (IF calm = "run" THEN "yes" ELSE calm)
            /\ UNCHANGED <<space, page, touched, fresh, unread>>
       ELSE /\ sync' = [sync EXCEPT !.pc = "putsummary", !.id = Target, !.body = Merged(body),
                                    !.version = page[Target].version]
            /\ unread' = unread \ {Target} /\ UNCHANGED <<space, page, touched, fresh, calm>>

PutSummary ==
    /\ sync.pc = "putsummary"
    /\ IF Accepts(Target, NextVersion)
       THEN /\ page' = [page EXCEPT ![Target].body = sync.body, ![Target].version = @ + 1]
            /\ UNCHANGED <<tree, mmdc, inflight, touched, fresh, unread>>
            /\ \/ Succeed /\ calm' = (IF calm = "run" THEN "yes" ELSE calm) /\ UNCHANGED events
               \/ Fault /\ Fail /\ calm' = "no"
       ELSE Fails

------------------------------------------------------------------------------
\* Users, and writes that land late

Change ==
    /\ events > 0 /\ events' = events - 1 /\ calm' = "no"
    /\ UNCHANGED sync

Others(S) == touched' = touched \cup S /\ fresh' = fresh \cup S

UserEdits(p) ==
    /\ Change /\ p \in Live /\ page[p].type = "page"
    /\ \E body \in IF p = Target
                   THEN LET b == page[p].body IN
                        {[b EXCEPT !.own = @ + 1], [b EXCEPT !.marks = "damaged"]}
                   ELSE {Edited} :
         page' = [page EXCEPT ![p].body = body, ![p].version = @ + 1]
    /\ unread' = unread \cup {p} /\ Others({p}) /\ UNCHANGED <<tree, mmdc, inflight>>

UserAdds(type, up, title) ==
    /\ Change /\ up \in Live /\ Unused # {}
    /\ page' = [page EXCEPT ![NextId] = NewPage(type, up, title, Edited)]
    /\ Others({NextId}) /\ UNCHANGED <<tree, mmdc, inflight, unread>>

UserUnlabels(p) ==
    /\ Change /\ p \in Live /\ page[p].label /\ page' = [page EXCEPT ![p].label = FALSE]
    /\ Others({p}) /\ UNCHANGED <<tree, mmdc, inflight, unread>>

UserTrashes(p) ==
    /\ Change /\ p \in Live \ {Target} /\ page' = Trash(p)
    /\ touched' = touched \cup {p} \cup Below(p) \cup page[p].above
    /\ fresh' = fresh \cup {p} \cup Below(p) /\ UNCHANGED <<tree, mmdc, inflight, unread>>

FileChanges(d) ==
    /\ Change /\ \E t \in Text \cup {Gone, Broken} : t # tree[d] /\ tree' = [tree EXCEPT ![d] = t]
    /\ UNCHANGED <<mmdc, page, inflight, touched, fresh, unread>>

RendererChanges ==
    /\ Change /\ mmdc' = ~mmdc
    /\ UNCHANGED <<tree, page, inflight, touched, fresh, unread>>

Lands(w) ==
    /\ w \in inflight /\ inflight' = inflight \ {w}
    /\ \/ /\ w.kind = "create" /\ w.page.up \in Live /\ Unused # {}
          /\ page' = [page EXCEPT ![NextId] = w.page] /\ Others({NextId})
       \/ /\ w.kind = "delete" /\ w.id \in Live
          /\ page' = Trash(w.id) /\ fresh' = fresh \cup {w.id} \cup Below(w.id)
          /\ touched' = touched \cup {w.id} \cup Below(w.id) \cup page[w.id].above
       \/ UNCHANGED <<page, touched, fresh>>
    /\ calm' = "no" /\ UNCHANGED <<tree, mmdc, sync, events, unread>>

------------------------------------------------------------------------------

Step ==
    \/ Lookup \/ Create \/ ReadLabels \/ AddLabel \/ Fetch \/ Rewrite \/ Put
    \/ Clean \/ List \/ Plan \/ DeleteNext \/ Summary \/ PutSummary

User ==
    \/ \E p \in Id : UserEdits(p) \/ UserUnlabels(p) \/ UserTrashes(p)
    \/ \E type \in {"page", "folder"}, up \in Id, title \in UserTitle : UserAdds(type, up, title)
    \/ \E d \in Doc : FileChanges(d)
    \/ RendererChanges
    \/ \E w \in inflight : Lands(w)

Next == (\E clean \in BOOLEAN : Start(clean)) \/ Step \/ RequestFails \/ User

Spec == Init /\ [][Next]_vars

\* The job is run again and again, a run goes on, and a write in flight ends.
Fairness ==
    /\ WF_vars(Start(FALSE)) /\ WF_vars(Step)
    /\ WF_vars(\E w \in inflight : Lands(w))

FairSpec == Spec /\ Fairness

------------------------------------------------------------------------------

Leftover(p) == page[p].type = "page" /\ page[p].label /\ p \notin sync.mapped

\* Pruning trashes labelled pages that the run did not map and nothing else, whatever the
\* tree of pages looks like, and only when every file has its page; but for pages that
\* someone changed, added or hid between the listing and the deletion
\* (README.md: "Unlabeled/manual pages are never deleted by default pruning").
PruneSpares ==
    \A p \in Id :
        sync.pc = "delete" /\ ~sync.clean /\ sync' # sync /\ page[p] # page'[p] =>
            /\ p \in fresh \/ Leftover(p)
            /\ \A d \in Doc : sync.text[d] # Gone => sync.placed[d] \in sync.mapped

\* An edit is overwritten only by a run that read it, and what users write on the target
\* outside the region of the tool never; the loser of a race ends with an error.
EditsSurvive ==
    \A p \in Live : sync' # sync /\ page'[p].type = "page" /\ page'[p].body # page[p].body =>
        /\ p \notin unread
        /\ p = Target => page'[p].body.own = page[p].body.own

\* The page p is where the path says, below labelled folders; what others changed since the
\* run began does not count.
Located(p, path) ==
    \E c \in [1..Len(path) -> Live] :
        /\ c[Len(path)] = p
        /\ \A i \in 1..Len(path) :
             /\ page[c[i]].title = path[i]
             /\ page[c[i]].up = IF i = 1 THEN Target ELSE c[i - 1]
             /\ page[c[i]].label \/ c[i] \in touched

Shows(p, d, text) ==
    /\ page[p].body \in {Body(d, text, form) : form \in {"plain", "image", "code"}}
    /\ page[p].body.form = "image" => text \in page[p].files

\* No other file that is there has the path of d: files of one title pass the checks, and the
\* later one may overwrite the page of the earlier.
Alone(d) == \A e \in Doc : sync.text[e] # Gone /\ Segments[e] = Segments[d] => e = d

\* A run that reports success leaves a labelled page with the content it read for every file,
\* its pictures attached, and no stale page but those that hold something to be kept.
SuccessIsMirror ==
    sync.pc = "ok" =>
        /\ \A d \in Doc : sync.text[d] # Gone /\ sync.placed[d] \notin touched =>
              /\ Located(sync.placed[d], Segments[d])
              /\ Alone(d) => Shows(sync.placed[d], d, sync.text[d])
        /\ \A p \in Below(Target) \ touched : Leftover(p) =>
              \E q \in Below(p) : q \in touched \/ ~Leftover(q)

\* A listing that misses an ancestor of a page stops the pruning before any deletion
\* (index.ts:421: "Throws when the inventory is too incomplete to verify ancestry safely").
IncompleteStops ==
    sync.pc = "plan" /\ sync'.pc = "delete" =>
        \A e \in sync.listing : e.above \subseteq Ids(sync.listing) \cup {Target}

\* A diagram that the renderer refuses leaves nothing behind by which the next run could tell.
Unrendered(d) == mmdc /\ Kind[d] = "mermaid" /\ sync.text[d] \in Unrenderable

\* A run on an unchanged tree and space writes nothing, not even the summary, if no two files
\* have one path and no diagram is refused by the renderer.
QuietRuns ==
    calm = "yes" /\ calm' = "yes" /\ (\A d \in Present : Alone(d) /\ ~Unrendered(d)) => page' = page

\* The same whatever the renderer makes of the diagrams (index.ts:97, of skipUnchanged: "When
\* true, a second identical sync performs no page PUT, no attachment mutation, and no Mermaid
\* `mmdc` spawn").
IdenticalIsQuiet ==
    calm = "yes" /\ calm' = "yes" /\ (\A d \in Present : Alone(d)) => page' = page

\* Every change that a run makes in the space has its reason.
ChangeIsJustified == PruneSpares /\ EditsSurvive /\ QuietRuns

\* What each run writes again: the page of two files with one path, and a diagram that the
\* renderer refuses.
Restless == \E d \in Present : ~Alone(d) \/ Unrendered(d)

\* However earlier runs ended, once users and network are quiet the job repairs what they
\* left and succeeds from then on, but when two pages share a title below one parent, the
\* markers of the summary are damaged, or the files are at fault. Then it writes nothing more, but
\* for what each run writes again.
Converges ==
    /\ <>[](calm = "yes" \/ Stuck)
    /\ <>[][page' = page \/ Stuck \/ Restless]_page

==============================================================================
