---------------------------- MODULE Worktree_proofs ----------------------------
(* Several command lines of one worktree: types, and no leak between branches. *)
EXTENDS Worktree, TLAPS

\* What is in the worktree is what its baseline says, or what the user asked for,
\* or nothing at all in a path that was never synchronized; and a branch has had
\* what its head holds.
Accounted ==
    \A p \in Path : \/ local[p] = baseline[p]
                    \/ local[p] \in asked[p]
                    \/ local[p] = Absent /\ baseline[p] = Unknown

HeadsHaveBeen == \A b \in Branch, p \in Path : remote[b][p] \in been[b][p]

IInv == TypeOK /\ Accounted /\ HeadsHaveBeen

USE DEF RemoteSlot, LocalSlot, BaselineSlot

\* The type of what a push publishes.
LEMMA ResultingTreeType ==
    ASSUME NEW base \in [Path -> BaselineSlot], NEW loc \in [Path -> RemoteSlot],
           NEW rem \in [Path -> RemoteSlot], NEW flag \in BOOLEAN
    PROVE  ResultingTree(base, loc, rem, Path, flag) \in [Path -> RemoteSlot]
  BY DEF ResultingTree

\* ... and of the baselines.
LEMMA AcknowledgeType ==
    ASSUME NEW base \in [Path -> BaselineSlot], NEW loc \in [Path -> RemoteSlot],
           NEW tree \in [Path -> RemoteSlot], NEW chosen \in SUBSET Path
    PROVE  /\ AcknowledgeClean(base, loc, tree, chosen) \in [Path -> BaselineSlot]
           /\ \A p \in Path : \/ AcknowledgeClean(base, loc, tree, chosen)[p] = base[p]
                              \/ AcknowledgeClean(base, loc, tree, chosen)[p] = loc[p]
  BY DEF AcknowledgeClean

\* The kinds of files that a push uploads or deletes differ from their baseline.
LEMMA PublishedIsChanged ==
    ASSUME NEW base \in [Path -> BaselineSlot], NEW loc \in [Path -> RemoteSlot],
           NEW rem \in [Path -> RemoteSlot], NEW flag \in BOOLEAN, NEW p \in Path,
           ResultingTree(base, loc, rem, Path, flag)[p] # rem[p]
    PROVE  /\ ResultingTree(base, loc, rem, Path, flag)[p] = loc[p]
           /\ loc[p] # base[p]
           /\ ~(loc[p] = Absent /\ base[p] = Unknown)
  <1>1. CASE p \in Uploads(base, loc, rem, Path)
    <2>1. ResultingTree(base, loc, rem, Path, flag)[p] = loc[p]
      BY <1>1 DEF ResultingTree
    <2>2. StatusOf(base, loc, rem, p) \in {"local-added", "local-modified"}
      BY <1>1 DEF Uploads, WithStatus
    <2> QED
      BY <2>1, <2>2, SlotAssumption
         DEF StatusOf, CompareFile, CompareUnbased, LocalChange, RemoteChange
  <1>2. CASE p \notin Uploads(base, loc, rem, Path)
    <2>1. p \in RemoteDeletions(base, loc, rem, Path, flag)
      BY <1>2 DEF ResultingTree
    <2>2. ResultingTree(base, loc, rem, Path, flag)[p] = Absent
      BY <1>2, <2>1 DEF ResultingTree
    <2>3. StatusOf(base, loc, rem, p) = "local-deleted"
      BY <2>1 DEF RemoteDeletions, WithStatus
    <2> QED
      BY <2>2, <2>3, SlotAssumption
         DEF StatusOf, CompareFile, CompareUnbased, LocalChange, RemoteChange
  <1> QED BY <1>1, <1>2

LEMMA InitImpliesInv == Init => IInv
  BY WorktreeAssumption DEF Init, IInv, TypeOK, Accounted, HeadsHaveBeen, Ready, Idle

\* A pull keeps the invariant: what it fetches becomes the baseline too.
LEMMA PullKeepsInv ==
    ASSUME IInv, NEW c \in Client, NEW flag \in BOOLEAN, Pull(c, flag)
    PROVE  IInv'
  <1> DEFINE tree == remote[cmd[c].branch]
             after == [p \in Path |-> IF p \in Fetched(tree, flag) THEN tree[p] ELSE local[p]]
             left == Path \ PendingLocalDeletions(baseline, local, tree, Path, flag)
  <1>1. cmd[c].branch \in Branch
    BY DEF Pull, IInv, TypeOK, Ready, Idle
  <1>2. /\ tree \in [Path -> RemoteSlot] /\ local \in [Path -> RemoteSlot]
        /\ baseline \in [Path -> BaselineSlot]
    BY <1>1 DEF IInv, TypeOK
  <1>3. after \in [Path -> RemoteSlot]
    BY <1>2
  <1>4. local' = after /\ baseline' = AcknowledgeClean(baseline, after, tree, left)
    BY DEF Pull, PullBaseline
  <1>5. baseline' \in [Path -> BaselineSlot]
    BY <1>2, <1>3, <1>4, AcknowledgeType
  <1>6. TypeOK'
    BY <1>3, <1>4, <1>5 DEF Pull, IInv, TypeOK, Ends
  <1>7. ASSUME NEW p \in Path
        PROVE  \/ local'[p] = baseline'[p] \/ local'[p] \in asked'[p]
               \/ local'[p] = Absent /\ baseline'[p] = Unknown
    <2>1. CASE p \in Fetched(tree, flag)
      <3>1. p \in left
        BY <2>1 DEF Fetched, Downloads, LocalDeletions, PendingLocalDeletions, WithStatus
      <3> QED BY <2>1, <3>1, <1>4 DEF AcknowledgeClean
    <2>2. CASE p \notin Fetched(tree, flag)
      <3>1. local'[p] = local[p]
        BY <2>2, <1>4
      <3>2. baseline'[p] = baseline[p] \/ baseline'[p] = local'[p]
        BY <1>2, <1>3, <1>4, AcknowledgeType
      <3> QED BY <3>1, <3>2 DEF IInv, Accounted, Pull
    <2> QED BY <2>1, <2>2
  <1> QED BY <1>6, <1>7 DEF IInv, Accounted, HeadsHaveBeen, Pull

LEMMA PushKeepsInv ==
    ASSUME IInv, NEW c \in Client, NEW flag \in BOOLEAN, Push(c, flag)
    PROVE  IInv'
  <1> DEFINE b == cmd[c].branch
             tree == ResultingTree(baseline, local, remote[b], Path, flag)
  <1>1. b \in Branch
    BY DEF Push, IInv, TypeOK, Ready, Idle
  <1>2. /\ remote[b] \in [Path -> RemoteSlot] /\ local \in [Path -> RemoteSlot]
        /\ baseline \in [Path -> BaselineSlot]
    BY <1>1 DEF IInv, TypeOK
  <1>3. tree \in [Path -> RemoteSlot]
    BY <1>2, ResultingTreeType
  <1>4. /\ baseline' = AcknowledgeClean(baseline, local, tree, Path)
        /\ baseline' \in [Path -> BaselineSlot]
        /\ \A p \in Path : baseline'[p] = baseline[p] \/ baseline'[p] = local[p]
    BY <1>2, <1>3, AcknowledgeType DEF Push
  <1>5. TypeOK'
    BY <1>1, <1>3, <1>4 DEF Push, Publish, Ends, IInv, TypeOK
  <1>6. Accounted'
    BY <1>4 DEF IInv, Accounted, Push
  <1>7. HeadsHaveBeen'
    BY <1>1, <1>3 DEF IInv, HeadsHaveBeen, TypeOK, Push, Publish
  <1> QED BY <1>5, <1>6, <1>7 DEF IInv

LEMMA NextKeepsInv == IInv /\ [Next]_vars => IInv'
  <1> SUFFICES ASSUME IInv, [Next]_vars PROVE IInv'
    OBVIOUS
  <1>1. ASSUME NEW c \in Client, NEW kind \in {"pull", "push"}, ResolveBranch(c, kind)
        PROVE  IInv'
    BY <1>1 DEF ResolveBranch, IInv, TypeOK, Ready, Accounted, HeadsHaveBeen
  <1>2. ASSUME NEW c \in Client, NEW p \in Path, NEW from \in Branch, RestoreLoad(c, p, from)
        PROVE  IInv'
    <2>1. PICK target \in been[from][p] \cup {Absent}, overwrite \in BOOLEAN :
            cmd' = [cmd EXCEPT ![c] = [kind |-> "restore", path |-> p, target |-> target,
                                       current |-> remote[active][p] = target,
                                       overwrite |-> overwrite]]
      BY <1>2 DEF RestoreLoad
    <2>2. target \in RemoteSlot
      BY <2>1 DEF IInv, TypeOK
    <2>3. [kind |-> "restore", path |-> p, target |-> target,
           current |-> remote[active][p] = target,
           overwrite |-> overwrite] \in Ready
      BY <2>2 DEF Ready
    <2> QED BY <1>2, <2>1, <2>3 DEF RestoreLoad, IInv, TypeOK, Accounted, HeadsHaveBeen
  <1>3. ASSUME NEW c \in Client, NEW flag \in BOOLEAN, Pull(c, flag) PROVE IInv'
    BY <1>3, PullKeepsInv
  <1>4. ASSUME NEW c \in Client, NEW flag \in BOOLEAN, Push(c, flag) PROVE IInv'
    BY <1>4, PushKeepsInv
  <1>5. ASSUME NEW c \in Client, NEW acknowledge \in BOOLEAN,
               Restore(c, acknowledge)
        PROVE  IInv'
    <2>1. cmd[c].path \in Path /\ cmd[c].target \in RemoteSlot
      BY <1>5 DEF Restore, IInv, TypeOK, Ready, Idle
    <2>2. TypeOK'
      BY <1>5, <2>1 DEF Restore, Ends, IInv, TypeOK
    <2>3. Accounted'
      BY <1>5, <2>1 DEF Restore, IInv, TypeOK, Accounted
    <2> QED BY <1>5, <2>2, <2>3 DEF Restore, IInv, HeadsHaveBeen
  <1>6. ASSUME NEW c \in Client, Refuse(c) PROVE IInv'
    BY <1>6 DEF Refuse, Ends, IInv, TypeOK, Accounted, HeadsHaveBeen
  <1>7. ASSUME NEW b \in Branch, Switch(b) PROVE IInv'
    <2>1. TypeOK'
      BY <1>7 DEF Switch, IInv, TypeOK
    <2>2. Accounted'
      BY <1>7 DEF Switch, IInv, TypeOK, Accounted
    <2> QED BY <1>7, <2>1, <2>2 DEF Switch, IInv, HeadsHaveBeen
  <1>8. ASSUME NEW p \in Path, Edit(p) PROVE IInv'
    <2>1. PICK x \in Typed \cup {Absent} : /\ local' = [local EXCEPT ![p] = x]
                                          /\ asked' = [asked EXCEPT ![p] = @ \cup {x}]
      BY <1>8 DEF Edit
    <2>2. x \in RemoteSlot
      BY WorktreeAssumption
    <2> QED BY <1>8, <2>1, <2>2 DEF Edit, IInv, TypeOK, Accounted, HeadsHaveBeen
  <1>9. ASSUME NEW b \in Branch, NEW p \in Path, RemotePush(b, p) PROVE IInv'
    <2>1. PICK x \in Foreign \cup {Absent} : Publish(b, [remote[b] EXCEPT ![p] = x])
      BY <1>9 DEF RemotePush
    <2>2. [remote[b] EXCEPT ![p] = x] \in [Path -> RemoteSlot]
      BY WorktreeAssumption DEF IInv, TypeOK
    <2> QED BY <1>9, <2>1, <2>2 DEF RemotePush, Publish, IInv, TypeOK, Accounted, HeadsHaveBeen
  <1>10. CASE UNCHANGED vars
    BY <1>10 DEF vars, IInv, TypeOK, Accounted, HeadsHaveBeen
  <1> QED
    BY <1>1, <1>2, <1>3, <1>4, <1>5, <1>6, <1>7, <1>8, <1>9, <1>10 DEF Next

\* The type invariant of several command lines in one worktree.
THEOREM TypeCorrect == Spec => []TypeOK
  <1>1. IInv => TypeOK
    BY DEF IInv
  <1> QED BY <1>1, InitImpliesInv, NextKeepsInv, PTL DEF Spec

\* A push never publishes on a branch what came from another one, however stale the
\* branch that it was told.
THEOREM NoLeak == Spec => NoCrossBranchLeak
  <1>1. ASSUME IInv, NEW c \in Client, NEW flag \in BOOLEAN, Push(c, flag),
               NEW b \in Branch, NEW p \in Path
        PROVE  remote'[b][p] \in been[b][p] \cup asked[p]
    <2> DEFINE own == cmd[c].branch
               tree == ResultingTree(baseline, local, remote[own], Path, flag)
    <2>1. own \in Branch
      BY <1>1 DEF Push, IInv, TypeOK, Ready, Idle
    <2>2. /\ remote[own] \in [Path -> RemoteSlot] /\ local \in [Path -> RemoteSlot]
          /\ baseline \in [Path -> BaselineSlot]
      BY <1>1, <2>1 DEF IInv, TypeOK
    <2>3. remote[b][p] \in been[b][p]
      BY <1>1 DEF IInv, HeadsHaveBeen
    <2>4. remote' = [remote EXCEPT ![own] = tree]
      BY <1>1 DEF Push, Publish
    <2>5. CASE b # own \/ tree[p] = remote[b][p]
      BY <1>1, <2>1, <2>3, <2>4, <2>5 DEF IInv, TypeOK
    <2>6. CASE b = own /\ tree[p] # remote[b][p]
      <3>1. tree[p] = local[p] /\ local[p] # baseline[p]
            /\ ~(local[p] = Absent /\ baseline[p] = Unknown)
        BY <2>2, <2>6, PublishedIsChanged
      <3>2. local[p] \in asked[p]
        BY <1>1, <3>1 DEF IInv, Accounted
      <3> QED BY <1>1, <2>1, <2>4, <2>6, <3>1, <3>2 DEF IInv, TypeOK
    <2> QED BY <2>5, <2>6
  <1>2. IInv /\ [Next]_vars =>
          [\A b \in Branch, p \in Path :
             (\E c \in Client, flag \in BOOLEAN : Push(c, flag)) =>
               remote'[b][p] \in been[b][p] \cup asked[p]]_vars
    BY <1>1
  <1> QED BY <1>2, InitImpliesInv, NextKeepsInv, PTL DEF Spec, NoCrossBranchLeak
------------------------------------------------------------------------------
\* A baseline, and the target a restore has loaded, is what some branch has had, or
\* the absence of the file.
Known(p, x) == x = Absent \/ \E b \in Branch : x \in been[b][p]

BaselinesHaveBeen == \A p \in Path : baseline[p] = Unknown \/ Known(p, baseline[p])

TargetsHaveBeen ==
    \A c \in Client : cmd[c].kind = "restore" => Known(cmd[c].path, cmd[c].target)

KInv == BaselinesHaveBeen /\ TargetsHaveBeen

\* Branches only gain contents.
LEMMA BeenGrows ==
    ASSUME IInv, [Next]_vars, NEW p \in Path, NEW x, Known(p, x)
    PROVE  Known(p, x)'
  <1>0. CASE x = Absent
    BY <1>0 DEF Known
  <1> SUFFICES ASSUME x # Absent PROVE Known(p, x)'
    BY <1>0
  <1>1. PICK b \in Branch : x \in been[b][p]
    BY DEF Known
  <1>2. CASE UNCHANGED been
    BY <1>1, <1>2 DEF Known
  <1>3. ASSUME NEW own \in Branch, NEW tree, Publish(own, tree)
        PROVE  Known(p, x)'
    BY <1>1, <1>3 DEF Publish, IInv, TypeOK, Known
  <1>4. ASSUME NEW c \in Client, NEW flag \in BOOLEAN, Push(c, flag)
        PROVE  Known(p, x)'
    <2>1. cmd[c].branch \in Branch
      BY <1>4 DEF Push, IInv, TypeOK, Ready, Idle
    <2> QED BY <1>3, <1>4, <2>1 DEF Push
  <1>5. ASSUME NEW own \in Branch, NEW q \in Path, RemotePush(own, q)
        PROVE  Known(p, x)'
    BY <1>3, <1>5 DEF RemotePush
  <1>6. \/ UNCHANGED been
        \/ \E c \in Client, flag \in BOOLEAN : Push(c, flag)
        \/ \E own \in Branch, q \in Path : RemotePush(own, q)
    BY DEF Next, vars, ResolveBranch, RestoreLoad, Pull, Restore, Refuse, Switch, Edit
  <1> QED BY <1>2, <1>4, <1>5, <1>6

LEMMA InitKnown == Init => KInv
  <1> SUFFICES ASSUME Init PROVE KInv
    OBVIOUS
  <1>1. BaselinesHaveBeen
    BY DEF Init, BaselinesHaveBeen
  <1>2. \A c \in Client : cmd[c].kind = "idle"
    BY DEF Init, Idle
  <1> QED BY <1>1, <1>2 DEF KInv, TargetsHaveBeen

LEMMA NextKeepsKnown == IInv /\ KInv /\ [Next]_vars => KInv'
  <1> SUFFICES ASSUME IInv, KInv, [Next]_vars PROVE KInv'
    OBVIOUS
  <1>1. ASSUME NEW p \in Path, NEW x, Known(p, x) PROVE Known(p, x)'
    BY <1>1, BeenGrows
  <1>2. ASSUME NEW p \in Path, baseline'[p] = baseline[p]
        PROVE  baseline'[p] = Unknown \/ Known(p, baseline[p])'
    BY <1>1, <1>2 DEF KInv, BaselinesHaveBeen, Known
  <1>3. ASSUME NEW p \in Path, NEW b \in Branch, baseline'[p] = remote'[b][p],
               remote'[b][p] \in been'[b][p]
        PROVE  Known(p, baseline[p])'
    BY <1>3 DEF Known
  <1>4. IInv'
    BY NextKeepsInv
  <1>5. ASSUME NEW c \in Client, cmd'[c] = cmd[c], cmd[c].kind = "restore"
        PROVE  Known(cmd[c].path, cmd[c].target)'
    <2>1. cmd[c].path \in Path
      BY <1>5 DEF IInv, TypeOK, Ready, Idle
    <2>2. Known(cmd[c].path, cmd[c].target)
      BY <1>5 DEF KInv, TargetsHaveBeen, Known
    <2>3. Known(cmd[c].path, cmd[c].target)'
      BY <1>1, <2>1, <2>2, <1>5
    <2> QED BY <1>5, <2>3 DEF Known
  <1>6. ASSUME NEW p \in Path
        PROVE  baseline'[p] = Unknown \/ Known(p, baseline[p])'
    <2>1. CASE UNCHANGED baseline
      BY <1>2, <2>1 DEF Known
    <2>2. ASSUME NEW c \in Client, NEW flag \in BOOLEAN, Pull(c, flag)
          PROVE  baseline'[p] = baseline[p] \/ baseline'[p] = remote[cmd[c].branch][p]
      BY <2>2 DEF Pull, PullBaseline, AcknowledgeClean
    <2>3. ASSUME NEW c \in Client, NEW flag \in BOOLEAN, Pull(c, flag)
          PROVE  baseline'[p] = Unknown \/ Known(p, baseline[p])'
      <3>1. cmd[c].branch \in Branch
        BY <2>3 DEF Pull, IInv, TypeOK, Ready, Idle
      <3>2. UNCHANGED <<remote, been>>
        BY <2>3 DEF Pull
      <3> QED BY <1>2, <1>3, <1>4, <2>2, <2>3, <3>1, <3>2 DEF IInv, HeadsHaveBeen
    <2>4. ASSUME NEW c \in Client, NEW flag \in BOOLEAN, Push(c, flag)
          PROVE  baseline'[p] = Unknown \/ Known(p, baseline[p])'
      <3> DEFINE own == cmd[c].branch
                 tree == ResultingTree(baseline, local, remote[own], Path, flag)
      <3>1. own \in Branch
        BY <2>4 DEF Push, IInv, TypeOK, Ready, Idle
      <3>2. remote'[own] = tree
        BY <2>4, <3>1 DEF Push, Publish, IInv, TypeOK
      <3>3. baseline'[p] = baseline[p] \/ baseline'[p] = tree[p]
        BY <2>4 DEF Push, AcknowledgeClean
      <3> QED BY <1>2, <1>3, <1>4, <3>1, <3>2, <3>3 DEF IInv, HeadsHaveBeen
    <2>5. ASSUME NEW c \in Client, NEW acknowledge \in BOOLEAN,
                 Restore(c, acknowledge)
          PROVE  baseline'[p] = Unknown \/ Known(p, baseline[p])'
      <3>1. cmd[c].path \in Path /\ Known(cmd[c].path, cmd[c].target)
        BY <2>5 DEF Restore, KInv, TargetsHaveBeen, Known, IInv, TypeOK, Ready, Idle
      <3>2. baseline'[p] = baseline[p] \/ (p = cmd[c].path /\ baseline'[p] = cmd[c].target)
        BY <2>5, <3>1 DEF Restore, IInv, TypeOK
      <3> QED BY <1>1, <1>2, <3>1, <3>2
    <2>6. ASSUME NEW b \in Branch, Switch(b)
          PROVE  baseline'[p] = Unknown \/ Known(p, baseline[p])'
      <3>1. baseline'[p] = baseline[p] \/ baseline'[p] = remote[b][p]
        BY <2>6 DEF Switch
      <3>2. UNCHANGED <<remote, been>>
        BY <2>6 DEF Switch
      <3> QED BY <1>2, <1>3, <1>4, <2>6, <3>1, <3>2 DEF IInv, HeadsHaveBeen
    <2> QED
      BY <2>1, <2>3, <2>4, <2>5, <2>6
         DEF Next, vars, ResolveBranch, RestoreLoad, Refuse, Edit, RemotePush, Known
  <1>7. ASSUME NEW c \in Client, cmd'[c].kind = "restore"
        PROVE  Known(cmd[c].path, cmd[c].target)'
    <2>1. ASSUME NEW d \in Client, NEW p \in Path, NEW from \in Branch, RestoreLoad(d, p, from)
          PROVE  Known(cmd[c].path, cmd[c].target)'
      <3>1. PICK target \in been[from][p] \cup {Absent}, overwrite \in BOOLEAN :
              cmd' = [cmd EXCEPT ![d] = [kind |-> "restore", path |-> p, target |-> target,
                                         current |-> remote[active][p] = target,
                                         overwrite |-> overwrite]]
        BY <2>1 DEF RestoreLoad
      <3>2. target \in been[from][p] \/ target = Absent
        BY <3>1
      <3>3. UNCHANGED been
        BY <2>1 DEF RestoreLoad
      <3>4. CASE c = d
        <4>1. cmd'[c].target = target /\ cmd'[c].path = p
          BY <3>1, <3>4 DEF IInv, TypeOK
        <4> QED BY <3>2, <3>3, <4>1 DEF Known
      <3>5. CASE c # d
        BY <1>5, <1>7, <3>1, <3>5 DEF IInv, TypeOK
      <3> QED BY <3>4, <3>5
    <2>2. ASSUME NEW d \in Client, Ends(d)
          PROVE  Known(cmd[c].path, cmd[c].target)'
      BY <1>5, <1>7, <2>2 DEF Ends, Idle, IInv, TypeOK
    <2>3. ASSUME NEW d \in Client, NEW kind \in {"pull", "push"}, ResolveBranch(d, kind)
          PROVE  Known(cmd[c].path, cmd[c].target)'
      BY <1>5, <1>7, <2>3 DEF ResolveBranch, IInv, TypeOK
    <2>4. CASE UNCHANGED cmd
      BY <1>5, <1>7, <2>4
    <2> QED
      BY <2>1, <2>2, <2>3, <2>4
         DEF Next, vars, Pull, Push, Restore, Refuse, Switch, Edit, RemotePush
  <1> QED BY <1>6, <1>7 DEF KInv, BaselinesHaveBeen, TargetsHaveBeen

\* What a command fetches over was there at the last synchronization, or nothing was.
LEMMA FetchedIsBaseline ==
    ASSUME NEW tree, NEW flag \in BOOLEAN, NEW p \in Fetched(tree, flag), local[p] # Absent
    PROVE  local[p] = baseline[p]
  BY SlotAssumption
     DEF Fetched, Downloads, LocalDeletions, WithStatus, StatusOf, CompareFile, CompareUnbased,
         LocalChange, RemoteChange

\* What the user typed and no branch has had is replaced only by a restore that may.
THEOREM WorkIsKept == Spec => LocalWorkKept
  <1>1. ASSUME IInv, KInv, NEW p \in Path, Next, local'[p] # local[p], local[p] # Absent,
               \A b \in Branch : local[p] \notin been[b][p]
        PROVE  \/ \E c \in Client, acknowledge \in BOOLEAN :
                    Restore(c, acknowledge) /\ cmd[c].overwrite
               \/ Edit(p)
    <2>1. local[p] # baseline[p]
      <3>1. local[p] # Unknown
        BY <1>1, SlotAssumption DEF IInv, TypeOK
      <3> QED BY <1>1, <3>1 DEF KInv, BaselinesHaveBeen, Known
    <2>2. ASSUME NEW c \in Client, NEW flag \in BOOLEAN, Pull(c, flag) PROVE FALSE
      <3>1. p \in Fetched(remote[cmd[c].branch], flag)
        BY <1>1, <2>2 DEF Pull
      <3> QED BY <1>1, <2>1, <3>1, FetchedIsBaseline
    <2>3. ASSUME NEW b \in Branch, Switch(b) PROVE FALSE
      <3>1. p \in SwitchCandidates(baseline, remote[active], remote[b])
        BY <1>1, <2>3 DEF Switch
      <3>2. StatusOf(baseline, local, remote[active], p) = "clean"
        BY <2>3, <3>1 DEF Switch
      <3>3. local[p] = remote[active][p]
        BY <3>2, <1>1
           DEF StatusOf, CompareFile, CompareUnbased, LocalChange, RemoteChange
      <3> QED BY <1>1, <3>3 DEF IInv, HeadsHaveBeen, TypeOK
    <2>4. ASSUME NEW c \in Client, NEW acknowledge \in BOOLEAN,
                 Restore(c, acknowledge)
          PROVE  cmd[c].overwrite
      <3>1. p = cmd[c].path
        BY <1>1, <2>4 DEF Restore, IInv, TypeOK
      <3>2. Known(p, cmd[c].target)
        BY <1>1, <2>4, <3>1 DEF Restore, KInv, TargetsHaveBeen, Known
      <3>3. local[p] # cmd[c].target
        BY <1>1, <3>2 DEF Known
      <3> QED BY <1>1, <2>4, <3>1, <3>3 DEF Restore, RestoreAllowed
    <2>5. ASSUME NEW q \in Path, Edit(q) PROVE q = p
      BY <1>1, <2>5 DEF Edit, IInv, TypeOK
    <2> QED
      BY <1>1, <2>2, <2>3, <2>4, <2>5
         DEF Next, ResolveBranch, RestoreLoad, Push, Refuse, RemotePush
  <1>2. IInv /\ KInv /\ [Next]_vars =>
          [\A p \in Path :
             /\ local'[p] # local[p] /\ local[p] # Absent
             /\ \A b \in Branch : local[p] \notin been[b][p]
             => \/ \E c \in Client, acknowledge \in BOOLEAN :
                    Restore(c, acknowledge) /\ cmd[c].overwrite
                \/ Edit(p)]_vars
    BY <1>1
  <1> QED
    BY <1>2, InitImpliesInv, NextKeepsInv, InitKnown, NextKeepsKnown, PTL
       DEF Spec, LocalWorkKept
==============================================================================
