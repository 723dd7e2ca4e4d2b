------------------------ MODULE ConfluenceInvariants -------------------------
(***************************************************************************)
(* The inductive invariants that the theorems about Confluence rest on:    *)
(* WikiInv, for what one run knows of a space that others change, and      *)
(* CalmInv, for a run over a space that nobody touched since the last.     *)
(***************************************************************************)
EXTENDS Confluence

\* The steps of an entry, the fields of a run, and all its steps
EntryPcs == {"lookup", "create", "labels", "addlabel", "fetch", "rewrite", "put"}
RunFields == {"pc", "clean", "text", "todo", "seg", "at", "id", "made", "version", "body", "cache",
              "mapped", "sure", "placed", "listing", "queue"}
Pcs == EntryPcs \cup {"idle", "ok", "failed", "clean", "delete", "list", "plan", "summary", "putsummary"}

\* The definitions of the properties, with the space g, the touched pages T and the run s as
\* parameters: a chain of pages along a path, ...
BelowP(g, p) == {q \in LiveIn(g) : p \in g[q].above}
Chain(g, T, c, p, path, n) ==
    /\ c \in [1..n -> LiveIn(g)] /\ c[n] = p
    /\ \A i \in 1..n :
         /\ g[c[i]].title = path[i]
         /\ g[c[i]].up = IF i = 1 THEN Target ELSE c[i - 1]
         /\ g[c[i]].label \/ c[i] \in T
\* ... the page at the end of it, ...
LocTo(g, T, p, path, n) == \E c \in [1..n -> LiveIn(g)] : Chain(g, T, c, p, path, n)
LocIn(g, T, p, path) == LocTo(g, T, p, path, Len(path))
\* ... what a page shows, what is stale, and files that share no path.
ShowsIn(g, p, d, text) ==
    /\ g[p].body \in {Body(d, text, form) : form \in {"plain", "image", "code"}}
    /\ g[p].body.form = "image" => text \in g[p].files
LeftIn(g, s, p) == g[p].type = "page" /\ g[p].label /\ p \notin s.mapped
AloneIn(s, d) == \A e \in Doc : s.text[e] # Gone /\ Segments[e] = Segments[d] => e = d

\* The record of a run, and what its step says of it: the entries end before the listing, and
\* only a deletion has a queue.
ShapeOK(s) ==
    /\ s = [x \in RunFields |-> s[x]] /\ s.pc \in Pcs
    /\ s.text = [d \in Doc |-> s.text[d]] /\ s.placed = [d \in Doc |-> s.placed[d]]
    /\ s.todo \subseteq {d \in Doc : s.text[d] # Gone}
    /\ s.pc \in EntryPcs => s.todo # {}
    /\ s.pc \in {"list", "plan", "summary", "putsummary", "ok"} => s.todo = {}
    /\ s.pc # "delete" => s.queue = {}
    /\ s.pc \in {"list", "plan", "ok"} => ~s.clean
    /\ ~s.clean /\ s.pc = "delete" => s.todo = {}
    /\ s.pc = "clean" => s.clean
    /\ s.clean /\ s.pc \in {"clean", "delete"} => s.mapped = {}

\* The pages that a run has mapped, cached and labelled: they are there unless somebody
\* trashed them, the cached ones have the title and the parent they were found by, and the
\* page of a file is at the end of its path.
MappedOK(g, T, s) ==
    /\ \A m \in s.mapped : m \in Id \ {Target} /\ g[m] # NoPage /\ (m \in LiveIn(g) \/ m \in T)
    /\ \A c \in s.cache :
         /\ c.id \in s.mapped
         /\ c.id \in LiveIn(g) => g[c.id].up = c.up /\ g[c.id].title = c.title
    /\ \A m \in s.sure : m \in s.mapped /\ (m \in LiveIn(g) => g[m].label \/ m \in T)
    /\ \A d \in Doc : s.placed[d] # NoId =>
         /\ s.placed[d] \in s.mapped
         /\ s.placed[d] \in LiveIn(g) => LocIn(g, T, s.placed[d], Segments[d])

\* The files that are done have a page that shows them, unless somebody touched it or a file
\* of the same path came later.
DoneOK(g, T, s) ==
    \A d \in Doc \ s.todo : s.text[d] # Gone =>
        /\ s.placed[d] # NoId
        /\ AloneIn(s, d) /\ s.placed[d] \in LiveIn(g) \ T => ShowsIn(g, s.placed[d], d, s.text[d])

\* The way to the page of the current entry, as far as the run has gone
AtIn(g, T, p, d, n) ==
    IF n = 0 THEN p = Target ELSE p \in LiveIn(g) => LocTo(g, T, p, Segments[d], n)
Current(s) == FirstOf(s.todo)

\* What the run may rely on at the current entry: it is at the end of the path so far, it has
\* the page it looked for, its version is not newer than the page, and older if a user wrote
\* since, and the body it is about to write is that of the file, its picture attached.
EntryOK(g, T, U, s) ==
    s.pc \in EntryPcs =>
        LET d == Current(s) IN
        /\ s.seg \in 1..Len(Segments[d]) /\ s.at \in s.mapped \cup {Target}
        /\ AtIn(g, T, s.at, d, s.seg - 1)
        /\ s.pc \in {"labels", "addlabel"} =>
             /\ s.id \in s.mapped
             /\ s.id \in LiveIn(g) => g[s.id].up = s.at /\ g[s.id].title = Segments[d][s.seg]
             /\ s.made => /\ s.seg = Len(Segments[d])
                          /\ s.id \in LiveIn(g) \ T => g[s.id].body = Body(d, s.text[d], "plain")
        /\ s.pc \in {"fetch", "rewrite", "put"} =>
             s.seg = Len(Segments[d]) /\ s.id # NoId /\ s.id = s.placed[d]
        /\ s.pc \in {"rewrite", "put"} /\ s.id \in LiveIn(g) =>
             s.version \in Nat /\ s.version <= g[s.id].version /\ (s.id \in U => s.version < g[s.id].version)
        /\ s.pc = "put" =>
             \E form \in {"plain", "image", "code"} :
                /\ s.body = Body(d, s.text[d], form)
                /\ form = "image" /\ s.id \in LiveIn(g) => s.text[d] \in g[s.id].files

\* A listing has every page but for those that changed since, each with the way to it.
ListedOK(g, T, F, s) ==
    /\ \A p \in BelowP(g, Target) \ F :
         p \in Ids(s.listing) /\ g[p].above \subseteq Ids(s.listing) \cup {Target}
    /\ \A e \in s.listing :
         /\ e.id \in Id \ {Target} /\ g[e.id] # NoPage
         /\ IF e.id \in LiveIn(g) THEN e = [id |-> e.id, type |-> g[e.id].type, above |-> g[e.id].above]
            ELSE {e.id} \cup e.above \subseteq T

\* What the queue takes is stale, but for what changed since the listing; and what is stale
\* is taken, or stays because of a page below it that does.
Doomed(g, s, p) == \E e \in s.queue : p = e.id \/ e.id \in g[p].above
SparedOK(g, F, s) == \A p \in LiveIn(g) : Doomed(g, s, p) => p \in F \/ LeftIn(g, s, p)
KeptOK(g, T, s) ==
    \A p \in BelowP(g, Target) \ T : LeftIn(g, s, p) =>
        p \in Ids(s.queue) \/ \E q \in BelowP(g, p) : ~LeftIn(g, s, q) /\ ~Doomed(g, s, q)

\* What a run that prunes, or deletes everything first, knows of the pages
PruneOK(g, T, F, s) ==
    /\ s.clean /\ s.pc = "delete" => \A p \in BelowP(g, Target) \ T : p \in Ids(s.queue)
    /\ s.clean /\ s.pc \in EntryPcs \cup {"summary", "putsummary"} => BelowP(g, Target) \ T \subseteq s.mapped
    /\ s.pc = "plan" => ListedOK(g, T, F, s)
    /\ \A e \in s.queue : e.id \in Id \ {Target}
    /\ ~s.clean /\ s.pc = "delete" => SparedOK(g, F, s)
    /\ ~s.clean /\ s.pc \in {"delete", "summary", "putsummary", "ok"} => KeptOK(g, T, s)

\* The summary that is about to be written has the text that the run has read.
SummaryOK(g, U, s) ==
    s.pc = "putsummary" =>
        /\ s.version \in Nat /\ s.version <= g[Target].version
        /\ Target \in U => s.version < g[Target].version
        /\ s.version = g[Target].version => s.body.own = g[Target].body.own
        /\ IsParent(s.body)

RunOK(g, T, F, U, s) ==
    s.pc \notin {"idle", "failed"} =>
        /\ MappedOK(g, T, s) /\ DoneOK(g, T, s) /\ EntryOK(g, T, U, s)
        /\ PruneOK(g, T, F, s) /\ SummaryOK(g, U, s)

\* A page that is created late has a parent that was there; the target is never deleted.
InflightOK(g, ws) ==
    \A w \in ws :
        /\ w.kind = "create" =>
             /\ IsPage(w.page)
             /\ w.page.up \in Id /\ g[w.page.up] # NoPage
             /\ w.page.up \in LiveIn(g) => w.page.above = g[w.page.up].above \cup {w.page.up}
        /\ w.kind = "delete" => w.id \in Id \ {Target}

\* The space is a tree, the writes in flight fit it, and the run knows what it did.
WikiInv ==
    /\ IsSpace(page) /\ InflightOK(page, inflight) /\ fresh \subseteq touched
    /\ tree = [d \in Doc |-> tree[d]]
    /\ ShapeOK(sync) /\ RunOK(page, touched, fresh, unread, sync)

------------------------------------------------------------------------------
\* A run that finds nothing to do

\* What an entry that is done leaves on the page p of d, with the renderer m.
FormOf(m, d) ==
    CASE Kind[d] = "text" -> "plain" [] Kind[d] = "image" -> "image"
      [] Kind[d] = "mermaid" -> IF m THEN "image" ELSE "code"
FinalIn(g, m, p, d, text) ==
    /\ g[p].body = Body(d, text, FormOf(m, d))
    /\ FormOf(m, d) = "image" => text \in g[p].files

\* The pages of the files that are done, and the page that an entry has come to
OnTheWay(g, p, q) == q = p \/ q \in g[p].above
IsDone(s, d) == d \notin s.todo /\ s.text[d] # Gone
Homes(s) == {s.placed[d] : d \in {e \in Doc : IsDone(s, e)}}
Tips(s) ==
    IF s.pc \notin EntryPcs THEN {} ELSE IF s.pc \in {"lookup", "create"} THEN {s.at} ELSE {s.id}

\* What a run has mapped are pages on the way to these, and all that are on that way; a file
\* that is not there has none.
Traced(g, s, P) ==
    /\ \A q \in s.mapped : g[q].type = "page" /\ g[q].above \subseteq s.mapped \cup {Target}
    /\ \A q \in s.mapped : \E p \in P \cup Homes(s) : OnTheWay(g, p, q)
    /\ \A d \in Doc : s.text[d] = Gone => s.placed[d] = NoId
TracedOK(g, s) == Traced(g, s, Tips(s))

\* A run that nobody disturbs leaves behind what the next one would write, ...
RecordsOf(s) == {<<d, s.placed[d]>> : d \in {e \in Doc : s.placed[e] # NoId}}
Finals(g, m, s) == \A d \in Doc : IsDone(s, d) => FinalIn(g, m, s.placed[d], d, s.text[d])
FirstOK(g, m, s) ==
    /\ Finals(g, m, s)
    /\ s.pc \in {"labels", "addlabel"} /\ s.made => Kind[Current(s)] = "text"
    /\ s.pc = "rewrite" => Kind[Current(s)] # "text"
    /\ s.pc = "put" => s.body = Body(Current(s), s.text[Current(s)], FormOf(m, Current(s)))
    /\ s.pc = "putsummary" => s.body.marks = "one" /\ s.body.docs = RecordsOf(s)

\* ... so that every file has its page and the summary names it, and what is stale holds
\* something to be kept.
Needless(g, t, pl, p) ==
    /\ g[p].type = "page" /\ g[p].label
    /\ \A d \in Doc : t[d] # Gone => ~OnTheWay(g, pl[d], p)
Settled(g, m, t, pl) ==
    /\ \A d \in Doc : IF t[d] = Gone THEN pl[d] = NoId
         ELSE /\ LocIn(g, {}, pl[d], Segments[d]) /\ FinalIn(g, m, pl[d], d, t[d])
              /\ \A q \in Id : OnTheWay(g, pl[d], q) => g[q].type = "page"
    /\ g[Target].body.marks = "one"
    /\ g[Target].body.docs = {<<d, pl[d]>> : d \in {e \in Doc : pl[e] # NoId}}
    /\ \A p \in BelowP(g, Target) : Needless(g, t, pl, p) =>
         \E q \in BelowP(g, p) : ~Needless(g, t, pl, q)

\* The next run goes the same way, and no other page has a title on it.
WayTo(g, p, d) ==
    CHOOSE c \in [1..Len(Segments[d]) -> LiveIn(g)] :
        Chain(g, {}, c, p, Segments[d], Len(Segments[d]))
Again(g, pl, s) ==
    /\ ~s.clean
    /\ \A d \in Doc : IsDone(s, d) => s.placed[d] = pl[d]
    /\ \A c \in s.cache : \A q \in LiveIn(g) :
         g[q].type = "page" /\ g[q].up = c.up /\ g[q].title = c.title => q = c.id
SecondOK(g, pl, s) ==
    /\ Again(g, pl, s)
    /\ s.pc \in {"lookup", "labels", "fetch", "list", "plan", "summary"}
    /\ s.pc = "lookup" =>
         s.at = IF s.seg = 1 THEN Target ELSE WayTo(g, pl[Current(s)], Current(s))[s.seg - 1]
    /\ s.pc \in {"labels", "fetch"} =>
         s.id = WayTo(g, pl[Current(s)], Current(s))[s.seg] /\ ~s.made

\* No two files that are there have one path, and the renderer m refuses no diagram.
Orderly(m, t) ==
    /\ \A d, e \in Doc : t[d] # Gone /\ t[e] # Gone /\ Segments[e] = Segments[d] => e = d
    /\ \A d \in Doc : ~(m /\ Kind[d] = "mermaid" /\ t[d] \in Unrenderable)

\* What holds while nobody but one run does anything (calm = "run"), and while nothing but runs has
\* happened since one that succeeded ("yes"), if the files are Orderly.
CalmInv ==
    calm # "no" =>
        /\ calm \in {"run", "yes"} /\ touched = {} /\ fresh = {}
        /\ Running => sync.text = tree /\ ~HierarchyConflict(Present) /\ TracedOK(page, sync)
        /\ Orderly(mmdc, tree) =>
             /\ calm = "run" /\ Running => FirstOK(page, mmdc, sync)
             /\ calm = "yes" => \E pl \in [Doc -> Id \cup {NoId}] :
                  Settled(page, mmdc, tree, pl) /\ (Running => SecondOK(page, pl, sync))

==============================================================================
