------------------------------ MODULE SyncPlan -------------------------------
(***************************************************************************)
(* The three-way comparison and the planner of secret-sync                 *)
(* (packages/secret-sync/src/status.ts and plan.ts), as operators on slots. *)
(* A slot is a content fingerprint or one of three marks: Absent, Unknown  *)
(* (a path without a usable baseline) and Unreadable (a local path that    *)
(* cannot be read as a bounded regular file).  All maps are functions on   *)
(* Path; the code's maps leave out what is Unknown or Absent here.         *)
(***************************************************************************)
CONSTANTS
    Path,
    Content,      \* fingerprints: sha256 and length, equal iff the bytes are
    Absent,
    Unknown,
    Unreadable

ASSUME SlotAssumption ==
    /\ Absent \notin Content /\ Unknown \notin Content /\ Unreadable \notin Content
    /\ Absent # Unknown /\ Absent # Unreadable /\ Unknown # Unreadable

RemoteSlot == Content \cup {Absent}
LocalSlot == RemoteSlot \cup {Unreadable}
BaselineSlot == RemoteSlot \cup {Unknown}

\* Faults for PushRespectsRemote and PullRespectsLocal: without a baseline the
\* local, or the remote, side wins.
CompareUnbased_LocalWins(local, remote) ==
    IF local = remote THEN "clean"
    ELSE IF local = Absent THEN "remote-added" ELSE "local-added"

CompareUnbased_RemoteWins(local, remote) ==
    IF local = remote THEN "clean"
    ELSE IF remote = Absent THEN "local-added" ELSE "remote-added"

\* compareFile.  Without a baseline, differing contents are a conflict and a
\* one-sided file is new on its side.
CompareUnbased(local, remote) ==
    IF local = remote THEN "clean"
    ELSE IF local = Absent THEN "remote-added"
    ELSE IF remote = Absent THEN "local-added"
    ELSE "unbased-conflict"

LocalChange(baseline, local) ==
    IF local = Absent THEN "local-deleted"
    ELSE IF baseline = Absent THEN "local-added" ELSE "local-modified"

RemoteChange(baseline, remote) ==
    IF remote = Absent THEN "remote-deleted"
    ELSE IF baseline = Absent THEN "remote-added" ELSE "remote-modified"

CompareFile(baseline, local, remote) ==
    IF local = Unreadable THEN "local-error"
    ELSE IF baseline = Unknown THEN CompareUnbased(local, remote)
    ELSE IF local = remote THEN "clean"
    ELSE IF remote = baseline THEN LocalChange(baseline, local)
    ELSE IF local = baseline THEN RemoteChange(baseline, remote)
    ELSE "conflict"

Conflicting == {"conflict", "unbased-conflict"}

StatusOf(baseline, local, remote, p) == CompareFile(baseline[p], local[p], remote[p])

\* planSync refuses the whole selection for one unreadable or conflicting path.
PlanRefused(baseline, local, remote, selected) ==
    \E p \in selected : StatusOf(baseline, local, remote, p) \in Conflicting \cup {"local-error"}

WithStatus(baseline, local, remote, selected, statuses) ==
    {p \in selected : StatusOf(baseline, local, remote, p) \in statuses}

\* The actions of a push, the deletions it only reports, and the tree it publishes.
Uploads(baseline, local, remote, selected) ==
    WithStatus(baseline, local, remote, selected, {"local-added", "local-modified"})

RemoteDeletions(baseline, local, remote, selected, allowDelete) ==
    {p \in WithStatus(baseline, local, remote, selected, {"local-deleted"}) : allowDelete}

\* Fault for Sync's SyncedAfterCommand: deletions are dropped from the tree.
ResultingTree_NoDeletions(baseline, local, remote, selected, allowDelete) ==
    [p \in Path |->
        IF p \in Uploads(baseline, local, remote, selected) THEN local[p] ELSE remote[p]]

ResultingTree(baseline, local, remote, selected, allowDelete) ==
    [p \in Path |->
        IF p \in Uploads(baseline, local, remote, selected) THEN local[p]
        ELSE IF p \in RemoteDeletions(baseline, local, remote, selected, allowDelete) THEN Absent
        ELSE remote[p]]

PushNoop(baseline, local, remote, selected, allowDelete) ==
    /\ Uploads(baseline, local, remote, selected) = {}
    /\ RemoteDeletions(baseline, local, remote, selected, allowDelete) = {}

\* The actions of a pull.
Downloads(baseline, local, remote, selected) ==
    WithStatus(baseline, local, remote, selected, {"remote-added", "remote-modified"})

LocalDeletions(baseline, local, remote, selected, allowDelete) ==
    {p \in WithStatus(baseline, local, remote, selected, {"remote-deleted"}) : allowDelete}

\* remote-deleted paths that a pull without --delete leaves alone
PendingLocalDeletions(baseline, local, remote, selected, allowDelete) ==
    {p \in WithStatus(baseline, local, remote, selected, {"remote-deleted"}) : ~allowDelete}

PullNoop(baseline, local, remote, selected, allowDelete) ==
    /\ Downloads(baseline, local, remote, selected) = {}
    /\ LocalDeletions(baseline, local, remote, selected, allowDelete) = {}

\* acknowledgeCleanPaths / acknowledgeCleanPullPaths: selected paths found equal
\* to the tree get it as baseline.
AcknowledgeClean(baseline, local, tree, candidates) ==
    [p \in Path |-> IF p \in candidates /\ local[p] = tree[p] THEN tree[p] ELSE baseline[p]]

\* planSwitchWorktree: the paths a switch looks at, all of which must be clean
\* against the branch it leaves.
SwitchCandidates(baseline, source, target) ==
    {p \in Path : baseline[p] # Unknown \/ source[p] # Absent \/ target[p] # Absent}
==============================================================================
