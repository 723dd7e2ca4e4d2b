------------------------------- MODULE Worktree -------------------------------
(***************************************************************************)
(* Several command lines in one worktree of secret-sync.  The state lock   *)
(* makes each command one step here (module StateLock), but the command     *)
(* line reads the active branch, and restore the remote, before the command *)
(* takes the lock (packages/secret-sync/src/index.ts, restore.ts): in       *)
(* between, another command may run, a switch among them.                    *)
(***************************************************************************)
EXTENDS SyncPlan

CONSTANTS
    Client, Branch, FirstBranch,
    Typed,          \* contents the user types
    Foreign,        \* contents other workstations push
    FirstTree       \* the heads of the branches at the start

ASSUME WorktreeAssumption ==
    /\ Typed \subseteq Content /\ Foreign \subseteq Content
    /\ FirstBranch \in Branch /\ FirstTree \in [Branch -> [Path -> RemoteSlot]]

VARIABLES
    active, baseline,  \* state.json
    local,             \* the worktree
    remote,            \* the head of each branch
    cmd,               \* what each command line has read, or Idle
    been,              \* history: the contents each branch has had
    asked              \* history: the contents the user typed or restored

vars == <<active, baseline, local, remote, cmd, been, asked>>

Idle == [kind |-> "idle"]
Ready == [kind : {"pull", "push"}, branch : Branch]
           \cup [kind : {"restore"}, path : Path, target : RemoteSlot, current : BOOLEAN,
                 overwrite : BOOLEAN]

TypeOK ==
    /\ active \in Branch /\ baseline \in [Path -> BaselineSlot]
    /\ local \in [Path -> RemoteSlot]
    /\ remote \in [Branch -> [Path -> RemoteSlot]]
    /\ cmd \in [Client -> Ready \cup {Idle}]
    /\ been \in [Branch -> [Path -> SUBSET RemoteSlot]]
    /\ asked \in [Path -> SUBSET RemoteSlot]

Init ==
    /\ active = FirstBranch /\ baseline = [p \in Path |-> Unknown]
    /\ local = [p \in Path |-> Absent] /\ remote = FirstTree
    /\ cmd = [c \in Client |-> Idle]
    /\ been = [b \in Branch |-> [p \in Path |-> {FirstTree[b][p]}]]
    /\ asked = [p \in Path |-> {}]

------------------------------------------------------------------------------
\* resolveActiveBranch, without the lock.
ResolveBranch(c, kind) ==
    /\ cmd[c] = Idle
    /\ cmd' = [cmd EXCEPT ![c] = [kind |-> kind, branch |-> active]]
    /\ UNCHANGED <<active, baseline, local, remote, been, asked>>

\* restore also loads its target, a revision or the head of any branch, and the head
\* of the active one; a branch without the file stands for its absence.
RestoreLoad(c, p, from) ==
    /\ cmd[c] = Idle
    /\ \E target \in been[from][p] \cup {Absent}, overwrite \in BOOLEAN :
         cmd' = [cmd EXCEPT ![c] = [kind |-> "restore", path |-> p, target |-> target,
                                    current |-> remote[active][p] = target,
                                    overwrite |-> overwrite]]
    /\ UNCHANGED <<active, baseline, local, remote, been, asked>>

Ends(c) == cmd' = [cmd EXCEPT ![c] = Idle]

Fetched(tree, allowDelete) ==
    Downloads(baseline, local, tree, Path) \cup LocalDeletions(baseline, local, tree, Path, allowDelete)

\* Fault for NoCrossBranchLeak: only the files that a pull finds clean get a baseline.
PullBaseline_CleanOnly(tree, allowDelete) ==
    AcknowledgeClean(baseline, local, tree, Path)

PullBaseline(tree, allowDelete) ==
    AcknowledgeClean(baseline,
        [p \in Path |-> IF p \in Fetched(tree, allowDelete) THEN tree[p] ELSE local[p]], tree,
        Path \ PendingLocalDeletions(baseline, local, tree, Path, allowDelete))

Pull(c, allowDelete) ==
    LET tree == remote[cmd[c].branch]
    IN  /\ cmd[c].kind = "pull" /\ Ends(c)
        /\ ~PlanRefused(baseline, local, tree, Path)
        /\ local' = [p \in Path |-> IF p \in Fetched(tree, allowDelete) THEN tree[p] ELSE local[p]]
        /\ baseline' = PullBaseline(tree, allowDelete)
        /\ UNCHANGED <<active, remote, been, asked>>

Publish(b, tree) ==
    /\ remote' = [remote EXCEPT ![b] = tree]
    /\ been' = [been EXCEPT ![b] = [p \in Path |-> @[p] \cup {tree[p]}]]

Push(c, allowDelete) ==
    LET b == cmd[c].branch
        tree == ResultingTree(baseline, local, remote[b], Path, allowDelete)
    IN  /\ cmd[c].kind = "push" /\ Ends(c)
        /\ ~PlanRefused(baseline, local, remote[b], Path)
        /\ Publish(b, tree)
        /\ baseline' = AcknowledgeClean(baseline, local, tree, Path)
        /\ UNCHANGED <<active, local, asked>>

\* Fault for LocalWorkKept: other files than the expected may be replaced.
RestoreAllowed_Always(r) == TRUE

RestoreAllowed(r) == local[r.path] \in {Absent, r.target} \/ r.overwrite

Restore(c, acknowledge) ==
    LET r == cmd[c]
    IN  /\ r.kind = "restore" /\ Ends(c)
        /\ RestoreAllowed(r)
        /\ acknowledge => r.current
        /\ local' = [local EXCEPT ![r.path] = r.target]
        /\ asked' = [asked EXCEPT ![r.path] = @ \cup {r.target}]
        /\ baseline' = IF acknowledge THEN [baseline EXCEPT ![r.path] = r.target] ELSE baseline
        /\ UNCHANGED <<active, remote, been>>

Refuse(c) ==
    /\ cmd[c] # Idle /\ Ends(c)
    /\ UNCHANGED <<active, baseline, local, remote, been, asked>>

\* switch has its target from the command line and reads the state under the lock.
Switch(b) ==
    LET source == remote[active]
        files == SwitchCandidates(baseline, source, remote[b])
    IN  /\ b # active
        /\ \A p \in files : StatusOf(baseline, local, source, p) = "clean"
        /\ active' = b
        /\ local' = [p \in Path |-> IF p \in files THEN remote[b][p] ELSE local[p]]
        /\ baseline' = [p \in Path |-> IF p \in files THEN remote[b][p] ELSE baseline[p]]
        /\ UNCHANGED <<remote, cmd, been, asked>>

Edit(p) ==
    /\ \E x \in (Typed \cup {Absent}) \ {local[p]} :
         /\ local' = [local EXCEPT ![p] = x]
         /\ asked' = [asked EXCEPT ![p] = @ \cup {x}]
    /\ UNCHANGED <<active, baseline, remote, cmd, been>>

RemotePush(b, p) ==
    /\ \E x \in (Foreign \cup {Absent}) \ {remote[b][p]} :
         Publish(b, [remote[b] EXCEPT ![p] = x])
    /\ UNCHANGED <<active, baseline, local, cmd, asked>>

Next ==
    \/ \E c \in Client :
         \/ \E kind \in {"pull", "push"} : ResolveBranch(c, kind)
         \/ \E p \in Path, from \in Branch : RestoreLoad(c, p, from)
         \/ \E flag \in BOOLEAN : Pull(c, flag) \/ Push(c, flag)
         \/ \E acknowledge \in BOOLEAN : Restore(c, acknowledge)
         \/ Refuse(c)
    \/ \E b \in Branch : Switch(b)
    \/ \E p \in Path : Edit(p) \/ \E b \in Branch : RemotePush(b, p)

Spec == Init /\ [][Next]_vars

------------------------------------------------------------------------------
\* Even with a branch read too early, a push publishes on a branch only what that
\* branch has had or what the user typed or restored here: the baselines of the
\* wrong branch keep its files from being taken for local changes (status.ts
\* 200-212, push.ts 225-226).
NoCrossBranchLeak ==
    [][\A b \in Branch, p \in Path :
         (\E c \in Client, flag \in BOOLEAN : Push(c, flag)) =>
            remote'[b][p] \in been[b][p] \cup asked[p]]_vars

\* A content the user typed and no branch has had is not replaced by any command,
\* whatever it read before the lock, but by a restore that was told to overwrite
\* (plan.ts 262-289, restore.ts 256-264).
LocalWorkKept ==
    [][\A p \in Path :
         /\ local'[p] # local[p] /\ local[p] # Absent
         /\ \A b \in Branch : local[p] \notin been[b][p]
         => \/ \E c \in Client, acknowledge \in BOOLEAN :
                 Restore(c, acknowledge) /\ cmd[c].overwrite
            \/ Edit(p)]_vars
==============================================================================
