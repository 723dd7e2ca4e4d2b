-------------------------------- MODULE Sync ---------------------------------
(***************************************************************************)
(* What push and pull promise when nothing interferes: one workstation and *)
(* one branch, each command one atomic step.  The interference is the      *)
(* subject of Workstation (crashes, edits) and SecretVault (other writers). *)
(***************************************************************************)
EXTENDS SyncPlan

VARIABLES baseline, local, remote

vars == <<baseline, local, remote>>

TypeOK ==
    /\ baseline \in [Path -> BaselineSlot]
    /\ local \in [Path -> LocalSlot]
    /\ remote \in [Path -> RemoteSlot]

\* A fresh clone: no baselines yet.
Init ==
    /\ baseline = [p \in Path |-> Unknown]
    /\ local \in [Path -> RemoteSlot]
    /\ remote \in [Path -> RemoteSlot]

Edit(p) ==
    /\ \E c \in LocalSlot : local' = [local EXCEPT ![p] = c]
    /\ UNCHANGED <<baseline, remote>>

\* Another workstation's push.
RemoteEdit(p) ==
    /\ \E c \in RemoteSlot : remote' = [remote EXCEPT ![p] = c]
    /\ UNCHANGED <<baseline, local>>

\* A push publishes the resulting tree and takes it as baseline where the local
\* file equals it; a no-op push acknowledges in the same way.
Push(selected, allowDelete) ==
    LET tree == ResultingTree(baseline, local, remote, selected, allowDelete)
    IN  /\ ~PlanRefused(baseline, local, remote, selected)
        /\ remote' = tree
        /\ baseline' = AcknowledgeClean(baseline, local, tree, selected)
        /\ UNCHANGED local

Pull(selected, allowDelete) ==
    LET fetched == Downloads(baseline, local, remote, selected)
                     \cup LocalDeletions(baseline, local, remote, selected, allowDelete)
        pending == PendingLocalDeletions(baseline, local, remote, selected, allowDelete)
    IN  /\ ~PlanRefused(baseline, local, remote, selected)
        /\ local' = [p \in Path |-> IF p \in fetched THEN remote[p] ELSE local[p]]
        /\ baseline' = AcknowledgeClean(baseline, local', remote, selected \ pending)
        /\ UNCHANGED remote

Next ==
    \/ \E p \in Path : Edit(p) \/ RemoteEdit(p)
    \/ \E selected \in SUBSET Path, allowDelete \in BOOLEAN :
            Push(selected, allowDelete) \/ Pull(selected, allowDelete)

Spec == Init /\ [][Next]_vars

------------------------------------------------------------------------------
\* A push replaces or deletes a remote file only if the workstation had that very
\* content as its baseline: another writer's version is never overwritten unseen
\* (status.ts 200-212, plan.ts 232-261).
PushRespectsRemote ==
    [][\A p \in Path : \A selected \in SUBSET Path, allowDelete \in BOOLEAN :
         /\ remote[p] # Absent /\ remote'[p] # remote[p]
         /\ Push(selected, allowDelete)
         => remote[p] = baseline[p] /\ p \in selected]_vars

\* A pull replaces or deletes a local file only if it still is the file the last
\* synchronization left there: local work is never overwritten (plan.ts 262-289).
PullRespectsLocal ==
    [][\A p \in Path : \A selected \in SUBSET Path, allowDelete \in BOOLEAN :
         /\ local[p] # Absent /\ local'[p] # local[p]
         /\ Pull(selected, allowDelete)
         => local[p] = baseline[p] /\ p \in selected]_vars

\* One command is enough: after a push nothing selected is left to push, after a
\* pull nothing selected is left to pull, and neither turns a path into a conflict.
SyncedAfterCommand ==
    [][vars' # vars => \A selected \in SUBSET Path, allowDelete \in BOOLEAN :
         /\ Push(selected, allowDelete) =>
              /\ PushNoop(baseline', local', remote', selected, allowDelete)
              /\ ~PlanRefused(baseline', local', remote', selected)
         /\ Pull(selected, allowDelete) =>
              /\ PullNoop(baseline', local', remote', selected, allowDelete)
              /\ ~PlanRefused(baseline', local', remote', selected)]_vars
==============================================================================
