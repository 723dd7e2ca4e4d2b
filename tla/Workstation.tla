----------------------------- MODULE Workstation -----------------------------
(***************************************************************************)
(* One workstation of secret-sync: its worktree, its state file, its write *)
(* journal, and the commands pull, push and switch over remote branches    *)
(* (packages/secret-sync/src/pull.ts, push.ts, branches.ts, journal.ts,     *)
(* switch-recovery.ts, filesystem.ts, state.ts).  A command replaces files *)
(* one by one, and between any two of its steps the user may edit a file,   *)
(* another workstation may push, and the process may end.                  *)
(*                                                                         *)
(* Left out: materializedBranch, which every write sets together with      *)
(* activeBranch; the observed heads, which no decision reads; partial      *)
(* selections (module Sync has them).  A branch is a line of commits here: *)
(* forks are the subject of the vault, and every command refuses them.     *)
(***************************************************************************)
EXTENDS SyncPlan, Integers, Sequences, FiniteSets

CONSTANTS
    Branch,
    Typed,        \* contents the user types
    Foreign,      \* contents another workstation pushes
    FirstCommits, \* the remote history at the start
    FirstBranch,  \* the branch state.json is created with
    MaxCommits, MaxEdits, MaxFaults,
    TornAppends   \* a crash may leave part of a journal line

ASSUME WorkstationAssumption ==
    /\ Path # {} /\ Typed \subseteq Content /\ Foreign \subseteq Content
    /\ FirstBranch \in Branch
    /\ FirstCommits \in Seq([branch : Branch, tree : [Path -> RemoteSlot], mine : {FALSE}])
    /\ MaxCommits \in Nat /\ MaxEdits \in Nat /\ MaxFaults \in Nat
    /\ TornAppends \in BOOLEAN

VARIABLES
    local,    \* the worktree
    disk,     \* state.json: active branch, baselines, recovery of a switch
    journal,  \* entries of journal.jsonl
    torn,     \* the journal ends in a line that is not JSON
    commits,  \* the remote history; a commit is its index
    cmd,      \* the running command, or Idle
    edits, faults,
    edited,   \* history: the user edited since the pending switch began
    late      \* history: an edit came between the last check and the rename

vars == <<local, disk, journal, torn, commits, cmd, edits, faults, edited, late>>

NoRecovery == [pending |-> FALSE]
Idle == [kind |-> "idle"]

HeadOf(b) ==
    LET own == {i \in 1..Len(commits) : commits[i].branch = b}
    IN  IF own = {} THEN 0 ELSE CHOOSE i \in own : \A j \in own : j <= i

Empty == [p \in Path |-> Absent]
Tree(i) == IF i = 0 THEN Empty ELSE commits[i].tree

Commit == [branch : Branch, tree : [Path -> RemoteSlot], mine : BOOLEAN]

Entry == [op : Nat, path : Path, target : RemoteSlot,
          status : {"pending", "written", "acknowledged"}]

Recovery == [op : Nat, target : Branch, source : Nat, head : Nat, files : SUBSET Path,
             preimage : [Path -> RemoteSlot]]

Running == [kind : {"pull", "switch", "push"}, branch : Branch, head : Nat, op : Nat,
            step : {"file", "guard", "recheck", "replace", "mark", "preclear",
                    "settle", "save", "clear"},
            plan : [Path -> RemoteSlot], base : [Path -> BaselineSlot],
            todo : SUBSET Path, gone : SUBSET Path, acted : SUBSET Path, acked : SUBSET Path,
            path : Path]

TypeOK ==
    /\ local \in [Path -> RemoteSlot]
    /\ disk \in [active : Branch, baseline : [Path -> BaselineSlot],
                recovery : Recovery \cup {NoRecovery}]
    /\ journal \subseteq Entry
    /\ torn \in BOOLEAN /\ edited \in BOOLEAN /\ late \in BOOLEAN
    /\ commits \in Seq(Commit)
    /\ cmd \in Running \cup {Idle}
    /\ edits \in 0..MaxEdits /\ faults \in 0..MaxFaults

Init ==
    /\ local = Empty
    /\ disk = [active |-> FirstBranch, baseline |-> [p \in Path |-> Unknown],
               recovery |-> NoRecovery]
    /\ journal = {} /\ torn = FALSE
    /\ commits = FirstCommits
    /\ cmd = Idle
    /\ edits = 0 /\ faults = 0
    /\ edited = FALSE /\ late = FALSE

ghosts == <<edits, faults, edited, late>>

------------------------------------------------------------------------------
\* Operation ids are fresh UUIDs.
FreshOp ==
    LET used == {e.op : e \in journal}
                  \cup (IF disk.recovery = NoRecovery THEN {} ELSE {disk.recovery.op})
    IN  CHOOSE n \in 0..Cardinality(used) : n \notin used

Begin(kind, branch, op, step, base, todo, gone, acked) ==
    cmd' = [kind |-> kind, branch |-> branch, head |-> HeadOf(branch), op |-> op, step |-> step,
            plan |-> local, base |-> base, todo |-> todo, gone |-> gone,
            acted |-> todo \cup gone, acked |-> acked, path |-> CHOOSE p \in Path : TRUE]

NoPendingSwitch == disk.recovery = NoRecovery

\* Fault for NoCrossBranchLeak: pull and push ignore a pending switch.
AssertNoPendingSwitch_Skipped == TRUE

AssertNoPendingSwitch == NoPendingSwitch

Refused(branch) == PlanRefused(disk.baseline, local, Tree(HeadOf(branch)), Path)

\* A pull with nothing to download or remove acknowledges what is clean and
\* leaves the journal alone.
PullNothing(allowDelete) ==
    LET remote == Tree(HeadOf(disk.active))
        pending == PendingLocalDeletions(disk.baseline, local, remote, Path, allowDelete)
    IN  /\ cmd = Idle /\ AssertNoPendingSwitch
        /\ HeadOf(disk.active) # 0 /\ ~Refused(disk.active)
        /\ PullNoop(disk.baseline, local, remote, Path, allowDelete)
        /\ disk' = [disk EXCEPT !.baseline =
                      AcknowledgeClean(@, local, remote, Path \ pending)]
        /\ UNCHANGED <<local, journal, torn, commits, cmd, ghosts>>

\* The others load the journal, which must be readable, before the first write.
PullBegin(allowDelete) ==
    LET remote == Tree(HeadOf(disk.active))
        pending == PendingLocalDeletions(disk.baseline, local, remote, Path, allowDelete)
    IN  /\ cmd = Idle /\ AssertNoPendingSwitch
        /\ HeadOf(disk.active) # 0 /\ ~Refused(disk.active)
        /\ ~PullNoop(disk.baseline, local, remote, Path, allowDelete)
        /\ ~torn
        /\ Begin("pull", disk.active, FreshOp, "file", disk.baseline,
                 Downloads(disk.baseline, local, remote, Path),
                 LocalDeletions(disk.baseline, local, remote, Path, allowDelete),
                 Path \ pending)
        /\ UNCHANGED <<local, disk, journal, torn, commits, ghosts>>

------------------------------------------------------------------------------
Candidates(target) ==
    SwitchCandidates(disk.baseline, Tree(HeadOf(disk.active)), Tree(HeadOf(target)))

CleanCandidates(target) ==
    \A p \in Candidates(target) :
        StatusOf(disk.baseline, local, Tree(HeadOf(disk.active)), p) = "clean"

\* verifySwitchRecovery without a pending switch: no unfinished entry of anybody.
JournalSettled == \A e \in journal : e.status = "acknowledged"

\* Fault for PendingSwitchEnds: a file at its target counts as
\* completed only if its entry was marked.
FileAccounted_MarkedOnly(p, entry) ==
    \/ /\ \E e \in entry : e.status # "pending"
       /\ local[p] = Tree(disk.recovery.head)[p]
    \/ /\ \A e \in entry : e.status = "pending"
       /\ local[p] = disk.recovery.preimage[p]

FileAccounted(p, entry) ==
    \/ entry # {} /\ local[p] = Tree(disk.recovery.head)[p]
    \/ /\ \A e \in entry : e.status = "pending"
       /\ local[p] = disk.recovery.preimage[p]

\* ... with one: the same heads, target and paths; an entry only for a file the
\* switch has to change and with its target as content; every file at its
\* target or, when nothing says it was completed, at its preimage.
RecoveryMatches(target) ==
    LET r == disk.recovery
        own == {e \in journal : e.op = r.op}
    IN  /\ r.target = target
        /\ r.source = HeadOf(disk.active) /\ r.head = HeadOf(target)
        /\ r.files = Candidates(target)
        /\ \A e \in journal \ own : e.status = "acknowledged"
        /\ \A e \in own : /\ e.path \in r.files
                          /\ e.target = Tree(r.head)[e.path]
                          /\ r.preimage[e.path] # e.target
        /\ \A p \in r.files : FileAccounted(p, {e \in own : e.path = p})

SwitchAccepted(target) ==
    /\ ~torn
    /\ IF NoPendingSwitch THEN JournalSettled /\ CleanCandidates(target)
       ELSE RecoveryMatches(target)

\* Already on the branch: only the acknowledged entries are dropped.
SwitchHere ==
    /\ cmd = Idle /\ SwitchAccepted(disk.active)
    /\ journal' = {e \in journal : e.status # "acknowledged"}
    /\ UNCHANGED <<local, disk, torn, commits, cmd, ghosts>>

\* The recovery proof is saved before the first file changes; a resumed switch
\* goes by the proof it finds.
SwitchBegin(target) ==
    LET wanted == Tree(HeadOf(target))
        files == Candidates(target)
        op == IF NoPendingSwitch THEN FreshOp ELSE disk.recovery.op
    IN  /\ cmd = Idle /\ target # disk.active /\ SwitchAccepted(target)
        /\ Begin("switch", target, op, "file", disk.baseline,
                 {p \in files : wanted[p] # Absent /\ local[p] # wanted[p]},
                 {p \in files : wanted[p] = Absent /\ local[p] # Absent},
                 files)
        /\ IF NoPendingSwitch
           THEN /\ disk' = [disk EXCEPT !.recovery =
                              [op |-> op, target |-> target, source |-> HeadOf(disk.active),
                               head |-> HeadOf(target), files |-> files, preimage |-> local]]
                /\ edited' = FALSE
           ELSE UNCHANGED <<disk, edited>>
        /\ UNCHANGED <<local, journal, torn, commits, edits, faults, late>>

------------------------------------------------------------------------------
\* The work on one file, common to pull and switch.
Target(p) == Tree(cmd.head)[p]

At(step) == cmd # Idle /\ cmd.step = step
Go(step) == cmd' = [cmd EXCEPT !.step = step]
Abort == cmd' = Idle

\* Downloads come before removals.
Turn(p) == p \in cmd.todo \/ (cmd.todo = {} /\ p \in cmd.gone)

Mine(p) == {e \in journal : e.op = cmd.op /\ e.path = p}

SetStatus(E, status) == (journal \ E) \cup {[e EXCEPT !.status = status] : e \in E}

\* A pull takes the file into its baselines at once, a switch at the end.
FileDone(p) ==
    cmd' = [cmd EXCEPT !.step = "file", !.todo = @ \ {p}, !.gone = @ \ {p},
                       !.base = IF cmd.kind = "pull" THEN [@ EXCEPT ![p] = Target(p)] ELSE @]

\* A pull finds the file downloaded already.
AlreadyThere(p) ==
    /\ At("file") /\ cmd.kind = "pull" /\ p \in cmd.todo
    /\ local[p] = Target(p)
    /\ FileDone(p)
    /\ UNCHANGED <<local, disk, journal, torn, commits, ghosts>>

NeedsWork(p) ==
    /\ At("file") /\ Turn(p)
    /\ ~(cmd.kind = "pull" /\ p \in cmd.todo /\ local[p] = Target(p))

\* appendJournalEntry loads the journal first; a resumed switch reuses its entry.
AppendEntry(p) ==
    /\ NeedsWork(p) /\ ~torn
    /\ journal' = IF Mine(p) # {} THEN journal
                  ELSE journal \cup {[op |-> cmd.op, path |-> p, target |-> Target(p),
                                      status |-> "pending"]}
    /\ cmd' = [cmd EXCEPT !.step = "guard", !.path = p]
    /\ UNCHANGED <<local, disk, torn, commits, ghosts>>

\* The guard reads the file again.  A removal finds its file gone, or a pull
\* that planned a new file finds it there: the entry is written.
GuardSatisfied(p) ==
    /\ local[p] = Target(p)
    /\ Target(p) = Absent \/ (cmd.kind = "pull" /\ cmd.plan[p] = Absent)

Guard ==
    LET p == cmd.path
    IN  /\ At("guard")
        /\ \/ /\ GuardSatisfied(p)
              /\ FileDone(p)
              /\ journal' = SetStatus(Mine(p), "written")
           \/ /\ ~GuardSatisfied(p) /\ UNCHANGED journal
              /\ IF local[p] = cmd.plan[p] THEN Go("recheck") ELSE Abort
        /\ UNCHANGED <<local, disk, torn, commits, ghosts>>

\* Fault for OverwritesOnlyCommitted: no check after the temporary file is written.
Recheck_None ==
    /\ At("recheck") /\ Go("replace")
    /\ late' = FALSE
    /\ UNCHANGED <<local, disk, journal, torn, commits, edits, faults, edited>>

\* The last check before the rename or unlink, on the content of the plan.
Recheck ==
    LET p == cmd.path
    IN  /\ At("recheck")
        /\ IF local[p] = cmd.plan[p] THEN Go("replace")
           ELSE IF Target(p) = Absent /\ local[p] = Absent THEN Go("mark")
           ELSE Abort
        /\ late' = FALSE
        /\ UNCHANGED <<local, disk, journal, torn, commits, edits, faults, edited>>

\* rename over whatever is there; unlink of a file that is gone fails.
Replace ==
    LET p == cmd.path
    IN  /\ At("replace")
        /\ local' = [local EXCEPT ![p] = Target(p)]
        /\ IF Target(p) = Absent /\ local[p] = Absent THEN Abort ELSE Go("mark")
        /\ UNCHANGED <<disk, journal, torn, commits, ghosts>>

\* A write is read back before its entry is marked.
Mark ==
    LET p == cmd.path
    IN  /\ At("mark")
        /\ IF Target(p) = Absent \/ local[p] = Target(p)
           THEN FileDone(p) /\ journal' = SetStatus(Mine(p), "written")
           ELSE Abort /\ UNCHANGED journal
        /\ UNCHANGED <<local, disk, torn, commits, ghosts>>

------------------------------------------------------------------------------
\* Every file is done.
FilesDone(kind) == At("file") /\ cmd.kind = kind /\ cmd.todo = {} /\ cmd.gone = {}

\* Of the files the pull did not touch, those equal to the remote are taken into
\* the baselines too; cmd.acked now names the paths whose baseline was taken.
PullSave ==
    LET remote == Tree(cmd.head)
        others == cmd.acked \ cmd.acted
        clean == {p \in others : local[p] = remote[p]}
    IN  /\ FilesDone("pull")
        /\ disk' = [disk EXCEPT !.baseline =
                      AcknowledgeClean(cmd.base, local, remote, others)]
        /\ cmd' = [cmd EXCEPT !.step = "preclear", !.acked = cmd.acted \cup clean]
        /\ UNCHANGED <<local, journal, torn, commits, ghosts>>

\* A switch looks at every file once more, selected for writing or not.
SwitchVerify ==
    LET wanted == Tree(cmd.head)
    IN  /\ FilesDone("switch")
        /\ IF \A p \in cmd.acked : local[p] = wanted[p]
           THEN cmd' = [cmd EXCEPT !.step = "settle",
                          !.base = [p \in Path |-> IF p \in cmd.acked THEN wanted[p] ELSE @[p]]]
           ELSE Abort
        /\ UNCHANGED <<local, disk, journal, torn, commits, ghosts>>

\* The entries a finished command acknowledges, one rewrite of the journal each.
ToSettle ==
    {e \in journal : /\ e.status # "acknowledged"
                     /\ IF cmd.kind = "pull" THEN e.path \in cmd.acked ELSE e.op = cmd.op}

SettleEntry ==
    /\ At("settle")
    /\ \E e \in ToSettle : journal' = SetStatus({e}, "acknowledged")
    /\ UNCHANGED <<local, disk, torn, commits, cmd, ghosts>>

Settled ==
    /\ At("settle") /\ ToSettle = {}
    /\ Go(IF cmd.kind = "pull" THEN "clear" ELSE "save")
    /\ UNCHANGED <<local, disk, journal, torn, commits, ghosts>>

\* Fault for StateFollowsBranch: the active branch is left behind.
SwitchSave_BaselinesOnly ==
    /\ At("save") /\ cmd.kind = "switch"
    /\ disk' = [disk EXCEPT !.baseline = cmd.base, !.recovery = NoRecovery]
    /\ Go("clear")
    /\ UNCHANGED <<local, journal, torn, commits, ghosts>>

\* One atomic save retires the proof and moves branch and baselines.
SwitchSave ==
    /\ At("save") /\ cmd.kind = "switch"
    /\ disk' = [active |-> cmd.branch, baseline |-> cmd.base, recovery |-> NoRecovery]
    /\ Go("clear")
    /\ UNCHANGED <<local, journal, torn, commits, ghosts>>

\* clearAcknowledgedEntries, before (pull) and after the entries are settled.
ClearAcknowledged ==
    /\ At("preclear") \/ At("clear")
    /\ journal' = {e \in journal : e.status # "acknowledged"}
    /\ IF At("preclear") THEN Go("settle") ELSE cmd' = Idle
    /\ UNCHANGED <<local, disk, torn, commits, ghosts>>

------------------------------------------------------------------------------
\* A push publishes in one step here (module SecretVault has the others) and
\* saves its baselines in a second one.
PushPublish(allowDelete) ==
    LET remote == Tree(HeadOf(disk.active))
        tree == ResultingTree(disk.baseline, local, remote, Path, allowDelete)
    IN  /\ cmd = Idle /\ AssertNoPendingSwitch /\ ~Refused(disk.active)
        /\ ~PushNoop(disk.baseline, local, remote, Path, allowDelete)
        /\ Len(commits) < MaxCommits
        /\ commits' = Append(commits, [branch |-> disk.active, tree |-> tree, mine |-> TRUE])
        /\ Begin("push", disk.active, 0, "save",
                 AcknowledgeClean(disk.baseline, local, tree, Path), {}, {}, {})
        /\ UNCHANGED <<local, disk, journal, torn, ghosts>>

PushSave ==
    /\ At("save") /\ cmd.kind = "push"
    /\ disk' = [disk EXCEPT !.baseline = cmd.base]
    /\ cmd' = Idle
    /\ UNCHANGED <<local, journal, torn, commits, ghosts>>

PushNothing(allowDelete) ==
    LET remote == Tree(HeadOf(disk.active))
    IN  /\ cmd = Idle /\ AssertNoPendingSwitch /\ ~Refused(disk.active)
        /\ PushNoop(disk.baseline, local, remote, Path, allowDelete)
        /\ disk' = [disk EXCEPT !.baseline = AcknowledgeClean(@, local, remote, Path)]
        /\ UNCHANGED <<local, journal, torn, commits, cmd, ghosts>>

------------------------------------------------------------------------------
\* The environment: the user's editor, another workstation, the end of the process.
Edit(p) ==
    /\ edits < MaxEdits
    /\ \E c \in (Typed \cup {Absent}) \ {local[p]} : local' = [local EXCEPT ![p] = c]
    /\ edits' = edits + 1
    /\ edited' = (disk.recovery # NoRecovery)
    /\ late' = (late \/ (At("replace") /\ cmd.path = p))
    /\ UNCHANGED <<disk, journal, torn, commits, cmd, faults>>

RemotePush(b, p) ==
    /\ Len(commits) < MaxCommits
    /\ \E c \in (Foreign \cup {Absent}) \ {Tree(HeadOf(b))[p]} :
         commits' = Append(commits, [branch |-> b, tree |-> [Tree(HeadOf(b)) EXCEPT ![p] = c],
                                     mine |-> FALSE])
    /\ UNCHANGED <<local, disk, journal, torn, cmd, ghosts>>

Crash ==
    /\ cmd # Idle /\ faults < MaxFaults
    /\ faults' = faults + 1
    /\ cmd' = Idle
    /\ \/ UNCHANGED torn
       \/ TornAppends /\ At("file") /\ (\E p \in Path : NeedsWork(p)) /\ torn' = TRUE
    /\ UNCHANGED <<local, disk, journal, commits, edits, edited, late>>

FileStep ==
    \/ \E p \in Path : AlreadyThere(p) \/ AppendEntry(p)
    \/ Guard \/ Recheck \/ Replace \/ Mark
    \/ PullSave \/ SwitchVerify \/ SettleEntry \/ Settled \/ SwitchSave
    \/ ClearAcknowledged \/ PushSave

Start ==
    \/ \E allowDelete \in BOOLEAN :
         \/ PullNothing(allowDelete) \/ PullBegin(allowDelete)
         \/ PushNothing(allowDelete) \/ PushPublish(allowDelete)
    \/ SwitchHere
    \/ \E b \in Branch : SwitchBegin(b)

Next ==
    \/ Start \/ FileStep \/ Crash
    \/ \E p \in Path : Edit(p) \/ (\E b \in Branch : RemotePush(b, p))

Spec == Init /\ [][Next]_vars

\* A running command takes its steps; the user repeats an interrupted switch, as
\* the README asks.
FairSpec ==
    /\ Spec /\ WF_vars(FileStep)
    /\ WF_vars(\E b \in Branch : disk.recovery # NoRecovery /\ SwitchBegin(b))

------------------------------------------------------------------------------
Committed(p) == {Tree(i)[p] : i \in 1..Len(commits)}

\* A command only ever replaces or removes a file whose content some commit
\* keeps, unless the edit came after the last check before the rename, the window
\* the README admits (pull.ts 379-478, branches.ts 529-589, filesystem.ts 233-284).
OverwritesOnlyCommitted ==
    [][At("replace") /\ local' # local /\ edits' = edits =>
         \A p \in Path : local'[p] # local[p] =>
            local[p] \in Committed(p) \cup {Absent} \/ late]_vars

\* The saved baselines belong to the active branch: branch and baselines move
\* together, whatever is interrupted (branches.ts 627-642, pull.ts 508-513).
BaselinesFollowBranch ==
    \A p \in Path : disk.baseline[p] \in Content =>
        \E i \in 1..Len(commits) :
            commits[i].branch = disk.active /\ Tree(i)[p] = disk.baseline[p]

StateFollowsBranch == TypeOK /\ BaselinesFollowBranch

\* What a push publishes on a branch was on that branch before or was typed by
\* the user: a half-done switch never carries files to the other branch (push.ts
\* 225-226, state.ts 201-210).
NoCrossBranchLeak ==
    \A i \in 1..Len(commits) : commits[i].mine =>
        \A p \in Path : \/ Tree(i)[p] \in Typed \cup {Absent}
                        \/ \E j \in 1..(i - 1) : /\ commits[j].branch = commits[i].branch
                                                 /\ Tree(j)[p] = Tree(i)[p]

HeadsMoved ==
    disk.recovery # NoRecovery =>
        \/ disk.recovery.source # HeadOf(disk.active)
        \/ disk.recovery.head # HeadOf(disk.recovery.target)

\* README 355: "Retry the same target with the same selected paths and unchanged
\* remote heads": wherever the switch was interrupted, the retry is accepted as
\* long as the user has not edited and the heads stand (switch-recovery.ts 22-101).
RetryAccepted ==
    cmd = Idle /\ disk.recovery # NoRecovery /\ ~edited /\ ~HeadsMoved
        => SwitchAccepted(disk.recovery.target)

\* Where no crash has cut a journal line in two, the retry ends: a pending switch is completed.
PendingSwitchEnds ==
    (disk.recovery # NoRecovery)
        ~> (disk.recovery = NoRecovery \/ edited \/ HeadsMoved \/ torn)

\* pull.test.ts 344-349: a pull completed after an interrupted one leaves an empty
\* journal ("expect(await loadJournal(cloneB)).toEqual([])").
CompletedPullSettlesJournal ==
    [][\A allowDelete \in BOOLEAN :
         PullNothing(allowDelete) =>
            \A e \in journal' : local'[e.path] # disk'.baseline[e.path]]_vars
==============================================================================
