----------------------------- MODULE MCSynchronize -----------------------------
(* What is synchronized with a remote copy that others change too: secrets with *)
(* a history of commits, and a tree of files with the pages of a Confluence     *)
(* space.  One run of four parts that share no state; a behaviour is of the     *)
(* part that `part` names:                                                      *)
(*  - confluence: two files, a text at the top and a diagram in a folder; a     *)
(*    third, with the title of the folder, may be added.  The space is empty,   *)
(*    or holds what an earlier run made and a page that a user put below it;    *)
(*  - sync: two paths, so that a conflict on one must hold back the other, and  *)
(*    three contents, one for each side of the comparison;                      *)
(*  - rollback: a file that was b1 and is b2 now; b3 is what the user types;    *)
(*  - graph: every history of up to four records over two branches: diamonds,   *)
(*    chains, cross-branch joins, missing parents and cycles, in every          *)
(*    labelling.                                                                *)
EXTENDS Synchronize, TLC

CONSTANTS
    f, g, h,                       \* of Confluence
    v1, v2, v3, b1, b2, b3         \* of Sync and Rollback

MCFiles == <<f, g, h>>
MCSegments == f :> <<"x">> @@ g :> <<"d", "y">> @@ h :> <<"d">>
MCKind == f :> "text" @@ g :> "mermaid" @@ h :> "image"

NoPages == [id \in Id |-> IF id = Target THEN TargetPage ELSE NoPage]
Managed(up, above, title, body, files) ==
    [PageAt("page", up, above, title, body) EXCEPT !.label = TRUE, !.files = files]
OldPages ==
    [NoPages EXCEPT ![1] = Managed(0, {0}, "d", Empty, {}),
                    ![2] = Managed(1, {0, 1}, "y", Body(g, 1, "image"), {1}),
                    ![3] = PageAt("page", 2, {0, 1, 2}, "m", Edited)]
Spaces ==
    {[tree |-> f :> 1 @@ g :> 1 @@ h :> Gone, page |-> NoPages],
     [tree |-> f :> 1 @@ g :> Gone @@ h :> Gone, page |-> OldPages]}

Contents == b1 :> v1 @@ b2 :> v2 @@ b3 :> v3
Commits == {[id |-> 1, parents |-> {}, blob |-> b1, kind |-> "push", time |-> 0],
            [id |-> 2, parents |-> {1}, blob |-> b2, kind |-> "push", time |-> 0]}

PartsSpec ==
    /\ FileSpec
    /\ WF_fileVars(InWiki(Start(FALSE))) /\ WF_fileVars(InWiki(Step))
    /\ WF_fileVars(InWiki(\E w \in inflight : Lands(w)))
    /\ WF_fileVars(InRollback(Roll!RollStep)) /\ WF_fileVars(InRollback(Roll!Surface))
    /\ WF_fileVars(InRollback(\E blob \in Blob : Roll!Pending /\ Roll!Roll(blob)))

RollbackEnds == Roll!RollbackEnds
SpaceConverges == part = "confluence" => Converges
\* A second identical sync writes no page (index.ts:97).
SecondSyncIsQuiet == [][IdenticalIsQuiet]_fileVars
\* A listing that misses an ancestor of a page stops the pruning (index.ts:421).
IncompleteRefused == [][IncompleteStops]_fileVars
==============================================================================
