--------------------------- MODULE Workstation_proofs ---------------------------
(***************************************************************************)
(* For any paths, branches, contents and remote history, any edits and any *)
(* interruptions: branch and baselines stay together, a push carries no    *)
(* file of another branch, and a rename only replaces what a commit keeps. *)
(* None of the three is inductive.  The invariant adds what the worktree   *)
(* may hold and who answers for it: the user, the active branch, the       *)
(* target of the pending switch; and where a file came without a baseline, *)
(* the journal entry that keeps the next switch away.                      *)
(***************************************************************************)
EXTENDS Workstation, FiniteSetTheorems, SequenceTheorems, WellFoundedInduction, TLAPS

Loose == Typed \cup {Absent}
Pending == disk.recovery # NoRecovery

OnBranch(b, p, c) ==
    \E i \in 1..Len(commits) : commits[i].branch = b /\ commits[i].tree[p] = c

Kept(p, c) == c = Absent \/ \E i \in 1..Len(commits) : commits[i].tree[p] = c

IsHead(b, i) == i \in 0..Len(commits) /\ (i # 0 => commits[i].branch = b)

\* The recovery proof names a head of its target; what it does not name was
\* never synchronized, and what it replaces is kept by a commit.
RecoveryOK ==
    Pending =>
        /\ IsHead(disk.recovery.target, disk.recovery.head)
        /\ \A p \in Path \ disk.recovery.files : disk.baseline[p] = Unknown /\ local[p] \in Loose
        /\ \A p \in disk.recovery.files : Kept(p, disk.recovery.preimage[p])

Reached(p) == Pending /\ p \in disk.recovery.files /\ OnBranch(disk.recovery.target, p, local[p])

LocalOK == \A p \in Path : local[p] \in Loose \/ OnBranch(disk.active, p, local[p]) \/ Reached(p)

Open(p) == \E e \in journal : e.path = p /\ e.status # "acknowledged"

\* What came from a branch has a baseline, or somebody still answers for it.
JournalOK ==
    \A p \in Path : disk.baseline[p] = Unknown /\ local[p] \notin Loose =>
        Open(p) \/ (Pending /\ p \in disk.recovery.files)

WorldInv ==
    /\ TypeOK /\ IsFiniteSet(journal)
    /\ BaselinesFollowBranch /\ NoCrossBranchLeak
    /\ RecoveryOK /\ LocalOK /\ JournalOK

Working == {"guard", "recheck", "replace", "mark"}
Filing == Working \cup {"file"}

CmdOK ==
    cmd # Idle =>
        /\ cmd.kind = "push" => cmd.step = "save"
        /\ cmd.kind = "pull" => cmd.step # "save"
        /\ cmd.kind = "switch" => cmd.step # "preclear"
        /\ IsHead(cmd.branch, cmd.head)
        /\ \A p \in cmd.todo \cup cmd.gone : Kept(p, cmd.plan[p])
        /\ cmd.step \in Working => cmd.path \in cmd.todo \cup cmd.gone
        /\ cmd.step = "replace" => late \/ local[cmd.path] = cmd.plan[cmd.path]

\* Pull and push work on the active branch.
PullPushOK ==
    cmd # Idle /\ cmd.kind \in {"pull", "push"} =>
        /\ cmd.branch = disk.active /\ ~Pending
        /\ \A p \in Path : cmd.base[p] \in Content => OnBranch(cmd.branch, p, cmd.base[p])
        /\ cmd.step \in Filing \cup {"save"} =>
             \A p \in Path : cmd.base[p] = Unknown => disk.baseline[p] = Unknown

\* A pull settles an entry when the baseline of its file is saved, not before.
PullOK ==
    cmd # Idle /\ cmd.kind = "pull" =>
        /\ cmd.step \in Filing =>
             /\ \A e \in journal : e.op = cmd.op => e.status # "acknowledged"
             /\ \A p \in cmd.acted \ (cmd.todo \cup cmd.gone) : cmd.base[p] # Unknown
        /\ cmd.step \in Working => \E e \in journal : e.op = cmd.op /\ e.path = cmd.path
        /\ cmd.step \in {"preclear", "settle", "clear"} =>
             \A p \in cmd.acked : disk.baseline[p] # Unknown

\* A switch works by its recovery proof until it has saved the new branch.
SwitchOK ==
    cmd # Idle /\ cmd.kind = "switch" /\ cmd.step # "clear" =>
        /\ Pending
        /\ cmd.branch = disk.recovery.target /\ cmd.head = disk.recovery.head
        /\ cmd.acked = disk.recovery.files
        /\ cmd.todo \cup cmd.gone \subseteq disk.recovery.files
        /\ cmd.step \in Filing => cmd.base = disk.baseline
        /\ cmd.step \in {"settle", "save"} =>
             /\ \A p \in Path : cmd.base[p] = IF p \in disk.recovery.files
                                              THEN Tree(disk.recovery.head)[p] ELSE Unknown
             /\ \A p \in disk.recovery.files :
                  local[p] \in Loose \cup {Tree(disk.recovery.head)[p]}

CommandInv == CmdOK /\ PullPushOK /\ PullOK /\ SwitchOK

IInv == WorldInv /\ CommandInv

------------------------------------------------------------------------------
\* The remote history only grows.

LEMMA HasGreatest ==
    ASSUME NEW n \in Nat, NEW K \in SUBSET (1..n), K # {}
    PROVE  \E k \in K : \A m \in K : m <= k
<1> DEFINE R == {ss \in Nat \X Nat : ss[1] < ss[2]}
           T == {n - k : k \in K}
<1>1. T \subseteq Nat /\ T # {}
      <2>1. PICK k0 \in K : TRUE OBVIOUS
      <2>2. n - k0 \in T BY <2>1
      <2>3. T \subseteq Nat OBVIOUS
      <2> QED BY <2>2, <2>3
<1>2. PICK x \in T : \A y \in T : <<y, x>> \notin R
      <2>1. IsWellFoundedOn(R, Nat) BY NatLessThanWellFounded DEF OpToRel
      <2> HIDE DEF R, T
      <2> QED BY <1>1, <2>1, WFMin
<1>3. PICK k \in K : x = n - k OBVIOUS
<1>4. ASSUME NEW m \in K PROVE m <= k
      <2>1. n - m \in T OBVIOUS
      <2>2. ~(n - m < x) BY <1>1, <1>2, <2>1
      <2> QED BY <1>3, <2>2
<1> QED BY <1>4

LEMMA HeadIsHead ==
    ASSUME TypeOK, NEW b
    PROVE  IsHead(b, HeadOf(b))
<1> DEFINE own == {i \in 1..Len(commits) : commits[i].branch = b}
<1>1. Len(commits) \in Nat BY DEF TypeOK
<1>2. CASE own = {}
      <2>1. HeadOf(b) = 0 BY <1>2 DEF HeadOf
      <2> QED BY <1>1, <2>1 DEF IsHead
<1>3. CASE own # {}
      <2>1. own \in SUBSET (1..Len(commits)) OBVIOUS
      <2>2. \E i \in own : \A j \in own : j <= i
            <3> HIDE DEF own
            <3> QED BY <1>1, <1>3, <2>1, HasGreatest
      <2>3. HeadOf(b) = CHOOSE i \in own : \A j \in own : j <= i BY <1>3 DEF HeadOf
      <2>4. HeadOf(b) \in own
            <3> HIDE DEF own
            <3> QED BY <2>2, <2>3
      <2> QED BY <2>4 DEF IsHead
<1> QED BY <1>2, <1>3

LEMMA TreeType ==
    ASSUME TypeOK, NEW i \in 0..Len(commits)
    PROVE  Tree(i) \in [Path -> RemoteSlot]
<1>1. CASE i = 0 BY <1>1 DEF Tree, Empty, RemoteSlot
<1>2. CASE i # 0
      <2>1. commits[i] \in Commit BY <1>2 DEF TypeOK
      <2> QED BY <1>2, <2>1 DEF Tree, Commit
<1> QED BY <1>1, <1>2

LEMMA TreeOnBranch ==
    ASSUME TypeOK, NEW b, NEW i, IsHead(b, i), NEW p \in Path
    PROVE  /\ Tree(i)[p] = Absent \/ OnBranch(b, p, Tree(i)[p])
           /\ Kept(p, Tree(i)[p])
<1>1. CASE i = 0 BY <1>1 DEF Tree, Empty, Kept
<1>2. CASE i # 0 BY <1>2 DEF Tree, IsHead, OnBranch, Kept
<1> QED BY <1>1, <1>2

LEMMA OnBranchIsKept ==
    ASSUME NEW b, NEW p, NEW c, OnBranch(b, p, c)
    PROVE  Kept(p, c)
BY DEF OnBranch, Kept

\* What the history says it goes on saying.
Remembers ==
    /\ \A b, p, c : OnBranch(b, p, c) => OnBranch(b, p, c)'
    /\ \A p, c : Kept(p, c) => Kept(p, c)'
    /\ \A b, i : IsHead(b, i) => IsHead(b, i)' /\ Tree(i)' = Tree(i)

LEMMA SameHistory ==
    ASSUME commits' = commits
    PROVE  Remembers
BY DEF Remembers, OnBranch, Kept, IsHead, Tree, Empty

LEMMA LongerHistory ==
    ASSUME TypeOK, NEW x \in Commit, commits' = Append(commits, x)
    PROVE  /\ Remembers
           /\ commits' \in Seq(Commit) /\ Len(commits') = Len(commits) + 1
           /\ commits'[Len(commits) + 1] = x
           /\ \A i \in 1..Len(commits) : commits'[i] = commits[i]
<1>1. /\ commits' \in Seq(Commit) /\ Len(commits') = Len(commits) + 1
      /\ commits'[Len(commits) + 1] = x
      /\ \A i \in 1..Len(commits) : commits'[i] = commits[i]
      /\ Len(commits) \in Nat
      BY DEF TypeOK
<1>2. \A b, p, c : OnBranch(b, p, c) => OnBranch(b, p, c)' BY <1>1 DEF OnBranch
<1>3. \A p, c : Kept(p, c) => Kept(p, c)' BY <1>1 DEF Kept
<1>4. \A b, i : IsHead(b, i) => IsHead(b, i)' BY <1>1 DEF IsHead
<1>5. \A b, i : IsHead(b, i) => Tree(i)' = Tree(i) BY <1>1 DEF IsHead, Tree, Empty
<1> QED BY <1>1, <1>2, <1>3, <1>4, <1>5 DEF Remembers

------------------------------------------------------------------------------
\* Fresh operation ids.

LEMMA FreshOpIsFresh ==
    ASSUME TypeOK, IsFiniteSet(journal)
    PROVE  FreshOp \in Nat /\ \A e \in journal : e.op # FreshOp
<1> DEFINE ops == {e.op : e \in journal}
           more == IF disk.recovery = NoRecovery THEN {} ELSE {disk.recovery.op}
           used == ops \cup more
           n == Cardinality(used)
<1>1. IsFiniteSet(ops)
      <2> DEFINE f == [e \in journal |-> e.op]
      <2>1. f \in Surjection(journal, ops) BY DEF Surjection
      <2> HIDE DEF f, ops
      <2> QED BY <2>1, FS_Surjection
<1>2. IsFiniteSet(more) BY FS_EmptySet, FS_Singleton
<1>3. IsFiniteSet(used)
      <2> HIDE DEF ops, more
      <2> QED BY <1>1, <1>2, FS_Union
<1>4. n \in Nat
      <2> HIDE DEF used
      <2> QED BY <1>3, FS_CardinalityType
<1>5. \E k \in 0..n : k \notin used
      <2> SUFFICES ASSUME 0..n \subseteq used PROVE FALSE OBVIOUS
      <2>1. Cardinality(0..n) = n + 1
            <3> HIDE DEF n
            <3> QED BY <1>4, FS_Interval
      <2>2. Cardinality(0..n) <= Cardinality(used)
            <3> HIDE DEF used, n
            <3> QED BY <1>3, FS_Subset
      <2> HIDE DEF used
      <2> QED BY <1>4, <2>1, <2>2
<1>6. FreshOp = CHOOSE k \in 0..n : k \notin used BY DEF FreshOp
<1>7. FreshOp \in 0..n /\ FreshOp \notin used
      <2> HIDE DEF used, n
      <2> QED BY <1>5, <1>6
<1>8. FreshOp \in Nat
      <2> HIDE DEF n
      <2> QED BY <1>4, <1>7
<1>9. \A e \in journal : e.op # FreshOp BY <1>7
<1> QED BY <1>8, <1>9

\* Marking entries keeps the journal finite and typed.
LEMMA SetStatusType ==
    ASSUME TypeOK, IsFiniteSet(journal), NEW E \in SUBSET journal,
           NEW status \in {"pending", "written", "acknowledged"}
    PROVE  /\ SetStatus(E, status) \subseteq Entry /\ IsFiniteSet(SetStatus(E, status))
           /\ \A e \in SetStatus(E, status) :
                \/ e \in journal \ E
                \/ \E o \in E : e.op = o.op /\ e.path = o.path /\ e.status = status
           /\ \A o \in E : \E e \in SetStatus(E, status) :
                e.op = o.op /\ e.path = o.path /\ e.status = status
           /\ journal \ E \subseteq SetStatus(E, status)
<1> DEFINE marked == {[e EXCEPT !.status = status] : e \in E}
<1>1. \A e \in E : /\ [e EXCEPT !.status = status] \in Entry
                   /\ [e EXCEPT !.status = status].op = e.op
                   /\ [e EXCEPT !.status = status].path = e.path
                   /\ [e EXCEPT !.status = status].status = status
      BY DEF TypeOK, Entry
<1>2. IsFiniteSet(marked)
      <2> DEFINE f == [e \in E |-> [e EXCEPT !.status = status]]
      <2>1. f \in Surjection(E, marked) BY DEF Surjection
      <2>2. IsFiniteSet(E) BY FS_Subset
      <2> HIDE DEF f, marked
      <2> QED BY <2>1, <2>2, FS_Surjection
<1>3. IsFiniteSet(journal \ E) BY FS_Difference
<1>4. SetStatus(E, status) = (journal \ E) \cup marked BY DEF SetStatus
<1>5. IsFiniteSet(SetStatus(E, status))
      <2> HIDE DEF marked
      <2> QED BY <1>2, <1>3, <1>4, FS_Union
<1>6. SetStatus(E, status) \subseteq Entry BY <1>1, <1>4 DEF TypeOK
<1> QED BY <1>1, <1>4, <1>5, <1>6
------------------------------------------------------------------------------
\* The planner.

LEMMA StatusFacts ==
    ASSUME NEW base, NEW loc, NEW rem, NEW p
    PROVE  /\ StatusOf(base, loc, rem, p) = "clean" => loc[p] = rem[p]
           /\ StatusOf(base, loc, rem, p) \in {"remote-added", "remote-modified", "remote-deleted"}
                => loc[p] = Absent \/ (loc[p] = base[p] /\ base[p] # Unknown)
BY DEF StatusOf, CompareFile, CompareUnbased, LocalChange, RemoteChange

LEMMA FetchedFacts ==
    ASSUME NEW base, NEW loc, NEW rem, NEW flag, NEW p,
           p \in Downloads(base, loc, rem, Path) \/ p \in LocalDeletions(base, loc, rem, Path, flag)
    PROVE  loc[p] = Absent \/ (loc[p] = base[p] /\ base[p] # Unknown)
BY StatusFacts DEF Downloads, LocalDeletions, WithStatus

LEMMA ResultingTreeFacts ==
    ASSUME NEW base, NEW loc \in [Path -> RemoteSlot], NEW rem \in [Path -> RemoteSlot], NEW flag
    PROVE  /\ ResultingTree(base, loc, rem, Path, flag) \in [Path -> RemoteSlot]
           /\ \A p \in Path : ResultingTree(base, loc, rem, Path, flag)[p]
                                \in {loc[p], rem[p], Absent}
BY DEF ResultingTree, RemoteSlot

LEMMA AcknowledgeFacts ==
    ASSUME NEW base \in [Path -> BaselineSlot], NEW loc, NEW tree \in [Path -> RemoteSlot],
           NEW chosen
    PROVE  LET new == AcknowledgeClean(base, loc, tree, chosen)
           IN  /\ new \in [Path -> BaselineSlot]
               /\ \A p \in Path : /\ new[p] = base[p] \/ new[p] = tree[p]
                                  /\ new[p] = Unknown => base[p] = Unknown
                                  /\ p \in chosen /\ loc[p] = tree[p] => new[p] # Unknown
BY SlotAssumption DEF AcknowledgeClean, RemoteSlot, BaselineSlot

------------------------------------------------------------------------------
\* What each kind of step may do to the world.

\* The baselines speak of the active branch.
LEMMA BaselinesOnBranch ==
    ASSUME TypeOK
    PROVE  BaselinesFollowBranch <=>
             \A p \in Path : disk.baseline[p] \in Content
                               => OnBranch(disk.active, p, disk.baseline[p])
<1>1. \A i \in 1..Len(commits) : Tree(i) = commits[i].tree BY DEF Tree
<1> QED BY <1>1 DEF BaselinesFollowBranch, OnBranch

LEMMA BaselinesOnBranchLater ==
    ASSUME TypeOK',
           \A p \in Path : disk'.baseline[p] \in Content
                             => OnBranch(disk.active, p, disk.baseline[p])'
    PROVE  BaselinesFollowBranch'
<1>1. \A i \in 1..Len(commits') : Tree(i)' = commits'[i].tree BY DEF Tree
<1> QED BY <1>1 DEF BaselinesFollowBranch, OnBranch

LEMMA LeakFacts ==
    ASSUME commits' = commits, NoCrossBranchLeak
    PROVE  NoCrossBranchLeak'
BY DEF NoCrossBranchLeak, Tree, Empty

LEMMA JournalMoves ==
    ASSUME WorldInv, TypeOK', IsFiniteSet(journal'), UNCHANGED <<local, disk, commits>>,
           \A p \in Path : Open(p) => Open(p)' \/ disk.baseline[p] # Unknown \/ Pending
    PROVE  WorldInv'
<1>1. BaselinesFollowBranch' BY DEF WorldInv, BaselinesFollowBranch, Tree, Empty
<1>2. NoCrossBranchLeak' BY LeakFacts DEF WorldInv
<1>3. RecoveryOK'
      BY DEF WorldInv, RecoveryOK, Pending, IsHead, Kept
<1>4. LocalOK' BY DEF WorldInv, LocalOK, OnBranch, Reached, Pending
<1>5. JournalOK'
      <2> SUFFICES ASSUME NEW p \in Path, disk.baseline[p] = Unknown, local[p] \notin Loose
                   PROVE  Open(p)' \/ (Pending /\ p \in disk.recovery.files)
          BY DEF JournalOK, Pending, Loose
      <2>1. Open(p) \/ (Pending /\ p \in disk.recovery.files) BY DEF WorldInv, JournalOK
      <2>2. CASE Pending
            BY <2>2 DEF WorldInv, RecoveryOK
      <2> QED BY <2>1, <2>2
<1> QED BY <1>1, <1>2, <1>3, <1>4, <1>5 DEF WorldInv

\* Baselines of the active branch are saved.
LEMMA BaselinesMove ==
    ASSUME WorldInv, TypeOK', ~Pending, UNCHANGED <<local, journal, commits>>,
           disk'.active = disk.active, disk'.recovery = disk.recovery,
           \A p \in Path : /\ disk'.baseline[p] \in Content
                                => OnBranch(disk.active, p, disk'.baseline[p])
                           /\ disk'.baseline[p] = Unknown => disk.baseline[p] = Unknown
    PROVE  WorldInv'
<1>1. BaselinesFollowBranch'
      <2>1. \A p \in Path : disk'.baseline[p] \in Content
                               => OnBranch(disk.active, p, disk.baseline[p])'
            BY DEF OnBranch
      <2> QED BY <2>1, BaselinesOnBranchLater
<1>2. NoCrossBranchLeak' BY LeakFacts DEF WorldInv
<1>3. RecoveryOK' BY DEF RecoveryOK, Pending
<1>4. LocalOK' BY DEF WorldInv, LocalOK, OnBranch, Reached, Pending
<1>5. JournalOK' BY DEF WorldInv, JournalOK, Open, Pending
<1>6. IsFiniteSet(journal') BY DEF WorldInv
<1> QED BY <1>1, <1>2, <1>3, <1>4, <1>5, <1>6 DEF WorldInv

\* One file of the worktree changes.
LEMMA LocalMoves ==
    ASSUME WorldInv, TypeOK', UNCHANGED <<disk, journal, commits>>,
           NEW q \in Path, NEW c, local' = [local EXCEPT ![q] = c],
           \/ c \in Loose
           \/ ~Pending /\ OnBranch(disk.active, q, c) /\ Open(q)
           \/ Pending /\ q \in disk.recovery.files /\ OnBranch(disk.recovery.target, q, c)
    PROVE  WorldInv'
<1>0. local \in [Path -> RemoteSlot] BY DEF WorldInv, TypeOK
<1>a. local'[q] = c /\ \A p \in Path : p # q => local'[p] = local[p] BY <1>0
<1>1. BaselinesFollowBranch' BY DEF WorldInv, BaselinesFollowBranch, Tree, Empty
<1>2. NoCrossBranchLeak' BY LeakFacts DEF WorldInv
<1>3. RecoveryOK'
      BY <1>a DEF WorldInv, RecoveryOK, Pending, IsHead, Kept
<1>4. LocalOK'
      <2> SUFFICES ASSUME NEW p \in Path
                   PROVE  \/ local'[p] \in Loose
                          \/ OnBranch(disk.active, p, local'[p])
                          \/ /\ Pending /\ p \in disk.recovery.files
                             /\ OnBranch(disk.recovery.target, p, local'[p])
          BY DEF LocalOK, Reached, Pending, OnBranch, Loose
      <2> QED BY <1>a DEF WorldInv, LocalOK, Reached
<1>5. JournalOK' BY <1>a DEF WorldInv, JournalOK, Open, Pending, Loose
<1>6. IsFiniteSet(journal') BY DEF WorldInv
<1> QED BY <1>1, <1>2, <1>3, <1>4, <1>5, <1>6 DEF WorldInv

\* A commit is appended; the workstation's own carries what it may.
LEMMA HistoryGrows ==
    ASSUME WorldInv, TypeOK', UNCHANGED <<local, disk, journal>>,
           NEW x \in Commit, commits' = Append(commits, x),
           x.mine => \A p \in Path : x.tree[p] \in Loose \/ OnBranch(x.branch, p, x.tree[p])
    PROVE  WorldInv'
<1>0. TypeOK BY DEF WorldInv
<1>a. /\ Remembers
      /\ commits' \in Seq(Commit) /\ Len(commits') = Len(commits) + 1
      /\ commits'[Len(commits) + 1] = x
      /\ \A i \in 1..Len(commits) : commits'[i] = commits[i]
      /\ Len(commits) \in Nat
      BY <1>0, LongerHistory DEF TypeOK
<1>1. BaselinesFollowBranch'
      <2>1. \A p \in Path : disk.baseline[p] \in Content
                               => OnBranch(disk.active, p, disk.baseline[p])
            BY <1>0, BaselinesOnBranch DEF WorldInv
      <2>2. \A p \in Path : disk.baseline[p] \in Content
                               => OnBranch(disk.active, p, disk.baseline[p])'
            BY <1>a, <2>1 DEF Remembers
      <2>3. \A p \in Path : disk'.baseline[p] \in Content
                               => OnBranch(disk.active, p, disk.baseline[p])'
            BY <2>2
      <2> QED BY <2>3, BaselinesOnBranchLater
<1>2. NoCrossBranchLeak'
      <2> SUFFICES ASSUME NEW i \in 1..Len(commits'), commits'[i].mine, NEW p \in Path
                   PROVE  \/ commits'[i].tree[p] \in Loose
                          \/ \E j \in 1..(i - 1) : /\ commits'[j].branch = commits'[i].branch
                                                   /\ commits'[j].tree[p] = commits'[i].tree[p]
          BY <1>a DEF NoCrossBranchLeak, Loose, Tree
      <2>1. CASE i \in 1..Len(commits)
            <3>1. Tree(i) = commits[i].tree /\ \A j \in 1..(i - 1) : Tree(j) = commits[j].tree
                  BY <2>1, <1>a DEF Tree
            <3>2. commits[i].mine BY <1>a, <2>1
            <3>3. \/ commits[i].tree[p] \in Loose
                  \/ \E j \in 1..(i - 1) : /\ commits[j].branch = commits[i].branch
                                           /\ commits[j].tree[p] = commits[i].tree[p]
                  BY <2>1, <3>1, <3>2 DEF WorldInv, NoCrossBranchLeak, Loose
            <3>4. \A j \in 1..(i - 1) : commits'[j] = commits[j] BY <1>a, <2>1
            <3> QED BY <1>a, <2>1, <3>3, <3>4
      <2>2. CASE i = Len(commits) + 1
            BY <1>a, <2>2 DEF OnBranch
      <2> QED BY <1>a, <2>1, <2>2
<1>3. RecoveryOK'
      BY <1>a DEF WorldInv, RecoveryOK, Pending, Remembers
<1>4. LocalOK'
      BY <1>a DEF WorldInv, LocalOK, Remembers, Reached, Pending
<1>5. JournalOK' BY DEF WorldInv, JournalOK, Open, Pending
<1>6. IsFiniteSet(journal') BY DEF WorldInv
<1> QED BY <1>1, <1>2, <1>3, <1>4, <1>5, <1>6 DEF WorldInv
------------------------------------------------------------------------------
\* Commands begin.

Step == Filing \cup {"preclear", "settle", "save", "clear"}

LEMMA BeginFacts ==
    ASSUME TypeOK, NEW kind \in {"pull", "switch", "push"}, NEW branch \in Branch,
           NEW op \in Nat, NEW step \in Step, NEW base \in [Path -> BaselineSlot],
           NEW todo \in SUBSET Path, NEW gone \in SUBSET Path, NEW acked \in SUBSET Path,
           Begin(kind, branch, op, step, base, todo, gone, acked)
    PROVE  /\ cmd' \in Running
           /\ cmd'.kind = kind /\ cmd'.branch = branch /\ cmd'.head = HeadOf(branch)
           /\ cmd'.op = op /\ cmd'.step = step /\ cmd'.plan = local /\ cmd'.base = base
           /\ cmd'.todo = todo /\ cmd'.gone = gone /\ cmd'.acted = todo \cup gone
           /\ cmd'.acked = acked
           /\ IsHead(branch, HeadOf(branch))
<1>1. IsHead(branch, HeadOf(branch)) BY HeadIsHead
<1>2. HeadOf(branch) \in Nat BY <1>1 DEF IsHead, TypeOK
<1>3. (CHOOSE p \in Path : TRUE) \in Path BY WorkstationAssumption
<1>4. local \in [Path -> RemoteSlot] BY DEF TypeOK
<1> HIDE DEF TypeOK
<1> QED BY <1>1, <1>2, <1>3, <1>4 DEF Begin, Running, Step, Filing, Working

LEMMA CommandIdle ==
    ASSUME cmd' = Idle
    PROVE  CommandInv'
BY DEF CommandInv, CmdOK, PullPushOK, PullOK, SwitchOK

\* The heads a command starts from.
LEMMA HeadFacts ==
    ASSUME WorldInv, NEW b \in Branch
    PROVE  /\ IsHead(b, HeadOf(b)) /\ HeadOf(b) \in 0..Len(commits)
           /\ Tree(HeadOf(b)) \in [Path -> RemoteSlot]
           /\ \A p \in Path : /\ Tree(HeadOf(b))[p] = Absent \/ OnBranch(b, p, Tree(HeadOf(b))[p])
                              /\ Kept(p, Tree(HeadOf(b))[p])
<1>1. TypeOK BY DEF WorldInv
<1>2. IsHead(b, HeadOf(b)) BY <1>1, HeadIsHead
<1>3. HeadOf(b) \in 0..Len(commits) BY <1>2 DEF IsHead
<1> QED BY <1>1, <1>2, <1>3, TreeType, TreeOnBranch

LEMMA WorldTypes ==
    ASSUME WorldInv
    PROVE  /\ TypeOK /\ IsFiniteSet(journal)
           /\ local \in [Path -> RemoteSlot] /\ disk.active \in Branch
           /\ disk.baseline \in [Path -> BaselineSlot]
           /\ Pending => disk.recovery \in Recovery
           /\ Len(commits) \in Nat
           /\ \A p \in Path : /\ disk.baseline[p] \in Content
                                   => OnBranch(disk.active, p, disk.baseline[p])
                              /\ disk.baseline[p] \in Content \cup {Absent, Unknown}
                              /\ local[p] \in Content \cup {Absent}
                              /\ disk.baseline[p] # Unknown => Kept(p, disk.baseline[p])
<1>1. TypeOK BY DEF WorldInv
<1>2. \A p \in Path : disk.baseline[p] \in Content
                        => OnBranch(disk.active, p, disk.baseline[p])
      BY <1>1, BaselinesOnBranch DEF WorldInv
<1>3. \A p \in Path : disk.baseline[p] \in Content \cup {Absent, Unknown}
      BY <1>1 DEF TypeOK, BaselineSlot, RemoteSlot
<1>4. \A p \in Path : disk.baseline[p] # Unknown => Kept(p, disk.baseline[p])
      BY <1>2, <1>3, OnBranchIsKept DEF Kept
<1>5. \A p \in Path : local[p] \in Content \cup {Absent}
      BY <1>1 DEF TypeOK, RemoteSlot
<1> QED BY <1>1, <1>2, <1>3, <1>4, <1>5 DEF TypeOK, Pending, WorldInv

\* Clean paths are acknowledged, with nothing else to do.
LEMMA AcknowledgeKeeps ==
    ASSUME IInv, ~Pending, cmd = Idle, NEW chosen,
           disk' = [disk EXCEPT !.baseline =
                      AcknowledgeClean(@, local, Tree(HeadOf(disk.active)), chosen)],
           UNCHANGED <<local, journal, torn, commits, cmd, ghosts>>
    PROVE  IInv'
<1> DEFINE remote == Tree(HeadOf(disk.active))
           new == AcknowledgeClean(disk.baseline, local, remote, chosen)
<1>1. WorldInv BY DEF IInv
<1>2. disk \in [active : Branch, baseline : [Path -> BaselineSlot],
                recovery : Recovery \cup {NoRecovery}]
      BY <1>1 DEF WorldInv, TypeOK
<1>3. /\ remote \in [Path -> RemoteSlot]
      /\ \A p \in Path : remote[p] = Absent \/ OnBranch(disk.active, p, remote[p])
      BY <1>1, <1>2, HeadFacts
<1>4. /\ new \in [Path -> BaselineSlot]
      /\ \A p \in Path : /\ new[p] = disk.baseline[p] \/ new[p] = remote[p]
                         /\ new[p] = Unknown => disk.baseline[p] = Unknown
      <2> HIDE DEF remote
      <2> QED BY <1>2, <1>3, AcknowledgeFacts
<1>5. disk' = [disk EXCEPT !.baseline = new] OBVIOUS
<1> HIDE DEF new, remote
<1>6. disk'.active = disk.active /\ disk'.recovery = disk.recovery /\ disk'.baseline = new
      BY <1>2, <1>5
<1>7. TypeOK' BY <1>1, <1>2, <1>4, <1>5 DEF WorldInv, TypeOK, ghosts
<1>8. \A p \in Path : /\ disk'.baseline[p] \in Content
                            => OnBranch(disk.active, p, disk'.baseline[p])
                      /\ disk'.baseline[p] = Unknown => disk.baseline[p] = Unknown
      BY <1>1, <1>3, <1>4, <1>6, WorldTypes, SlotAssumption
<1>9. WorldInv' BY <1>1, <1>6, <1>7, <1>8, BaselinesMove
<1> QED BY <1>9, CommandIdle DEF IInv

LEMMA PullNothingKeeps ==
    ASSUME IInv, NEW flag \in BOOLEAN, PullNothing(flag)
    PROVE  IInv'
BY AcknowledgeKeeps DEF PullNothing, AssertNoPendingSwitch, NoPendingSwitch, Pending

LEMMA PushNothingKeeps ==
    ASSUME IInv, NEW flag \in BOOLEAN, PushNothing(flag)
    PROVE  IInv'
BY AcknowledgeKeeps DEF PushNothing, AssertNoPendingSwitch, NoPendingSwitch, Pending

\* The world as a step leaves it that changes the command alone.
LEMMA WorldStands ==
    ASSUME WorldInv, TypeOK', UNCHANGED <<local, disk, journal, commits>>
    PROVE  WorldInv'
<1>1. IsFiniteSet(journal') BY DEF WorldInv
<1>2. \A p \in Path : Open(p) => Open(p)' BY DEF Open
<1> QED BY <1>1, <1>2, JournalMoves

LEMMA PullBeginKeeps ==
    ASSUME IInv, NEW flag \in BOOLEAN, PullBegin(flag)
    PROVE  IInv'
<1> DEFINE remote == Tree(HeadOf(disk.active))
           todo == Downloads(disk.baseline, local, remote, Path)
           gone == LocalDeletions(disk.baseline, local, remote, Path, flag)
           acked == Path \ PendingLocalDeletions(disk.baseline, local, remote, Path, flag)
<1>1. WorldInv /\ ~Pending /\ UNCHANGED <<local, disk, journal, torn, commits, ghosts>>
      BY DEF IInv, PullBegin, AssertNoPendingSwitch, NoPendingSwitch, Pending
<1>2. TypeOK /\ disk.active \in Branch /\ disk.baseline \in [Path -> BaselineSlot]
      BY <1>1, WorldTypes
<1>3. FreshOp \in Nat /\ \A e \in journal : e.op # FreshOp
      BY <1>1, FreshOpIsFresh DEF WorldInv
<1>4. todo \in SUBSET Path /\ gone \in SUBSET Path /\ acked \in SUBSET Path
      BY DEF Downloads, LocalDeletions, WithStatus
<1>5. \A p \in todo \cup gone :
        local[p] = Absent \/ (local[p] = disk.baseline[p] /\ disk.baseline[p] # Unknown)
      <2> HIDE DEF remote
      <2> QED BY FetchedFacts
<1>6. Begin("pull", disk.active, FreshOp, "file", disk.baseline, todo, gone, acked)
      BY DEF PullBegin
<1> HIDE DEF todo, gone, acked, remote
<1>7. /\ cmd' \in Running
      /\ cmd'.kind = "pull" /\ cmd'.branch = disk.active /\ cmd'.head = HeadOf(disk.active)
      /\ cmd'.op = FreshOp /\ cmd'.step = "file" /\ cmd'.plan = local
      /\ cmd'.base = disk.baseline
      /\ cmd'.todo = todo /\ cmd'.gone = gone /\ cmd'.acted = todo \cup gone
      /\ IsHead(disk.active, HeadOf(disk.active))
      BY <1>2, <1>3, <1>4, <1>6, BeginFacts DEF Step, Filing
<1>8. TypeOK' BY <1>1, <1>2, <1>7 DEF TypeOK, ghosts
<1>9. WorldInv' BY <1>1, <1>8, WorldStands
<1>10. Remembers BY <1>1, SameHistory
<1>11. CmdOK'
      <2>1. \A p \in todo \cup gone : Kept(p, local[p])
            BY <1>1, <1>4, <1>5, WorldTypes DEF Kept
      <2> QED BY <1>1, <1>7, <1>10, <2>1 DEF CmdOK, Working, Remembers
<1>12. PullPushOK'
      BY <1>1, <1>7, <1>10, WorldTypes DEF PullPushOK, Remembers, Pending
<1>13. PullOK' BY <1>1, <1>3, <1>7 DEF PullOK, Working
<1>14. SwitchOK' BY <1>7 DEF SwitchOK
<1> QED BY <1>9, <1>11, <1>12, <1>13, <1>14 DEF IInv, CommandInv
LEMMA SwitchHereKeeps ==
    ASSUME IInv, SwitchHere
    PROVE  IInv'
<1>1. WorldInv /\ cmd' = Idle /\ UNCHANGED <<local, disk, torn, commits, ghosts>>
      BY DEF IInv, SwitchHere
<1>2. journal' = {e \in journal : e.status # "acknowledged"} BY DEF SwitchHere
<1>3. journal' \in SUBSET journal BY <1>2
<1>4. TypeOK' BY <1>1, <1>3 DEF WorldInv, TypeOK, SwitchHere, ghosts
<1>5. IsFiniteSet(journal') BY <1>1, <1>3, FS_Subset DEF WorldInv
<1>6. \A p \in Path : Open(p) => Open(p)' BY <1>2 DEF Open
<1> QED BY <1>1, <1>4, <1>5, <1>6, JournalMoves, CommandIdle DEF IInv

\* A fresh switch: with every entry settled, a path that is no candidate holds
\* nothing but what the user put there.
LEMMA SettledFacts ==
    ASSUME WorldInv, ~Pending, JournalSettled, NEW target, NEW p \in Path \ Candidates(target)
    PROVE  disk.baseline[p] = Unknown /\ local[p] \in Loose
<1>1. disk.baseline[p] = Unknown BY DEF Candidates, SwitchCandidates
<1>2. ~Open(p) BY DEF JournalSettled, Open
<1> QED BY <1>1, <1>2 DEF WorldInv, JournalOK

\* What a switch replaces is kept by a commit.
LEMMA CandidateIsKept ==
    ASSUME WorldInv, NEW target \in Branch, SwitchAccepted(target), NEW p \in Candidates(target)
    PROVE  Kept(p, local[p])
<1>1. p \in Path BY DEF Candidates, SwitchCandidates
<1>2. CASE ~Pending
      <2>1. StatusOf(disk.baseline, local, Tree(HeadOf(disk.active)), p) = "clean"
            BY <1>2 DEF SwitchAccepted, CleanCandidates, NoPendingSwitch, Pending
      <2>2. local[p] = Tree(HeadOf(disk.active))[p] BY <2>1, StatusFacts
      <2> QED BY <1>1, <2>2, HeadFacts, WorldTypes
<1>3. CASE Pending
      <2>1. RecoveryMatches(target)
            BY <1>3 DEF SwitchAccepted, NoPendingSwitch, Pending
      <2>2. p \in disk.recovery.files BY <2>1 DEF RecoveryMatches
      <2>3. \/ local[p] = Tree(disk.recovery.head)[p]
            \/ local[p] = disk.recovery.preimage[p]
            BY <2>1, <2>2 DEF RecoveryMatches, FileAccounted
      <2>4. Kept(p, disk.recovery.preimage[p]) BY <1>3, <2>2 DEF WorldInv, RecoveryOK
      <2>5. Kept(p, Tree(disk.recovery.head)[p])
            BY <1>1, <1>3, TreeOnBranch DEF WorldInv, RecoveryOK
      <2> QED BY <2>3, <2>4, <2>5
<1> QED BY <1>2, <1>3

LEMMA RecoveryType ==
    ASSUME NEW r \in Recovery
    PROVE  r # NoRecovery
BY DEF Recovery, NoRecovery

LEMMA RecoveryBegins ==
    ASSUME WorldInv, ~Pending, NEW target \in Branch, SwitchAccepted(target), NEW op \in Nat,
           disk' = [disk EXCEPT !.recovery =
                     [op |-> op, target |-> target, source |-> HeadOf(disk.active),
                      head |-> HeadOf(target), files |-> Candidates(target),
                      preimage |-> local]],
           UNCHANGED <<local, journal, commits>>, TypeOK'
    PROVE  WorldInv' /\ Pending'
<1> DEFINE files == Candidates(target)
<1>1. disk'.active = disk.active /\ disk'.baseline = disk.baseline
      BY DEF WorldInv, TypeOK
<1>2. /\ disk'.recovery.target = target /\ disk'.recovery.head = HeadOf(target)
      /\ disk'.recovery.files = files /\ disk'.recovery.preimage = local
      BY DEF WorldInv, TypeOK
<1>3. disk'.recovery = [op |-> op, target |-> target, source |-> HeadOf(disk.active),
                        head |-> HeadOf(target), files |-> files, preimage |-> local]
      BY DEF WorldInv, TypeOK
<1>4. files \subseteq Path BY DEF Candidates, SwitchCandidates
<1>5. JournalSettled BY DEF SwitchAccepted, NoPendingSwitch, Pending
<1>6. \A p \in Path \ files : disk.baseline[p] = Unknown /\ local[p] \in Loose
      BY <1>5, SettledFacts
<1>7. \A p \in files : Kept(p, local[p]) BY CandidateIsKept
<1>8. IsHead(target, HeadOf(target)) BY HeadFacts
<1>9. Pending'
      <2>1. disk'.recovery.files = files BY <1>2
      <2>2. disk'.recovery \in Recovery
            <3>1. HeadOf(disk.active) \in Nat /\ HeadOf(target) \in Nat
                  BY HeadFacts, WorldTypes
            <3>2. local \in [Path -> RemoteSlot] BY WorldTypes
            <3> HIDE DEF files
            <3> QED BY <1>3, <1>4, <3>1, <3>2 DEF Recovery
      <2> QED BY <2>2, RecoveryType DEF Pending
<1> HIDE DEF files
<1>10. BaselinesFollowBranch' BY <1>1 DEF WorldInv, BaselinesFollowBranch, Tree, Empty
<1>11. NoCrossBranchLeak' BY LeakFacts DEF WorldInv
<1>12. Remembers BY SameHistory
<1>13. RecoveryOK'
      BY <1>1, <1>2, <1>6, <1>7, <1>8, <1>12 DEF RecoveryOK, Remembers, Loose
<1>14. LocalOK'
      BY <1>1, <1>12 DEF WorldInv, LocalOK, Reached, Remembers
<1>15. JournalOK' BY <1>1, <1>2, <1>6, <1>9 DEF JournalOK
<1>16. IsFiniteSet(journal') BY DEF WorldInv
<1> QED BY <1>9, <1>10, <1>11, <1>13, <1>14, <1>15, <1>16 DEF WorldInv

LEMMA SwitchBeginKeeps ==
    ASSUME IInv, NEW target \in Branch, SwitchBegin(target)
    PROVE  IInv'
<1> DEFINE files == Candidates(target)
           op == IF NoPendingSwitch THEN FreshOp ELSE disk.recovery.op
           todo == {p \in files : Tree(HeadOf(target))[p] # Absent
                                    /\ local[p] # Tree(HeadOf(target))[p]}
           gone == {p \in files : Tree(HeadOf(target))[p] = Absent /\ local[p] # Absent}
<1>1. /\ WorldInv /\ SwitchAccepted(target)
      /\ UNCHANGED <<local, journal, torn, commits, edits, faults, late>>
      BY DEF IInv, SwitchBegin
<1>2. TypeOK /\ disk.baseline \in [Path -> BaselineSlot] /\ local \in [Path -> RemoteSlot]
      /\ disk.active \in Branch
      BY <1>1, WorldTypes
<1>3. op \in Nat
      <2>1. CASE ~Pending
            BY <1>1, <2>1, FreshOpIsFresh DEF WorldInv, NoPendingSwitch, Pending
      <2>2. CASE Pending
            BY <1>1, <2>2, WorldTypes DEF NoPendingSwitch, Pending, Recovery
      <2> QED BY <2>1, <2>2
<1>4. files \in SUBSET Path BY DEF Candidates, SwitchCandidates
<1>5. Begin("switch", target, op, "file", disk.baseline, todo, gone, files)
      BY DEF SwitchBegin
<1>6. /\ NoPendingSwitch =>
           /\ disk' = [disk EXCEPT !.recovery =
                         [op |-> op, target |-> target, source |-> HeadOf(disk.active),
                          head |-> HeadOf(target), files |-> files, preimage |-> local]]
           /\ edited' = FALSE
      /\ ~NoPendingSwitch => disk' = disk /\ edited' = edited
      BY DEF SwitchBegin
<1>7. todo \in SUBSET files /\ gone \in SUBSET files OBVIOUS
<1>8. \A p \in files : Kept(p, local[p]) BY <1>1, CandidateIsKept
<1>9. Pending => /\ disk.recovery.files = files /\ disk.recovery.target = target
                 /\ disk.recovery.head = HeadOf(target)
      BY <1>1 DEF SwitchAccepted, RecoveryMatches, NoPendingSwitch, Pending
<1>10. HeadOf(disk.active) \in Nat /\ HeadOf(target) \in Nat
       BY <1>1, <1>2, HeadFacts, WorldTypes
<1> HIDE DEF files, op, todo, gone
<1>11. /\ cmd' \in Running
       /\ cmd'.kind = "switch" /\ cmd'.branch = target /\ cmd'.head = HeadOf(target)
       /\ cmd'.step = "file" /\ cmd'.plan = local /\ cmd'.base = disk.baseline
       /\ cmd'.todo = todo /\ cmd'.gone = gone /\ cmd'.acked = files
       /\ IsHead(target, HeadOf(target))
       <2>1. todo \in SUBSET Path /\ gone \in SUBSET Path BY <1>4, <1>7
       <2>2. "file" \in Step /\ "switch" \in {"pull", "switch", "push"} BY DEF Step, Filing
       <2> HIDE DEF Step
       <2> QED BY <1>2, <1>3, <1>4, <1>5, <2>1, <2>2, BeginFacts
<1>12. TypeOK' /\ disk'.baseline = disk.baseline
       <2>1. CASE NoPendingSwitch
             <3>1. [op |-> op, target |-> target, source |-> HeadOf(disk.active),
                    head |-> HeadOf(target), files |-> files, preimage |-> local] \in Recovery
                   BY <1>2, <1>3, <1>4, <1>10 DEF Recovery
             <3> QED BY <1>1, <1>2, <1>6, <1>11, <2>1, <3>1 DEF TypeOK
       <2>2. CASE ~NoPendingSwitch
             BY <1>1, <1>2, <1>6, <1>11, <2>2 DEF TypeOK
       <2> QED BY <2>1, <2>2
<1>13. WorldInv' /\ Pending'
       <2>1. CASE NoPendingSwitch
             BY <1>1, <1>3, <1>6, <1>12, <2>1, RecoveryBegins DEF NoPendingSwitch, Pending, files
       <2>2. CASE ~NoPendingSwitch
             BY <1>1, <1>6, <1>12, <2>2, WorldStands DEF NoPendingSwitch, Pending
       <2> QED BY <2>1, <2>2
<1>14. /\ disk'.recovery.files = files /\ disk'.recovery.target = target
       /\ disk'.recovery.head = HeadOf(target)
       <2>1. CASE NoPendingSwitch BY <1>2, <1>6, <2>1 DEF TypeOK
       <2>2. CASE ~NoPendingSwitch BY <1>6, <1>9, <2>2 DEF NoPendingSwitch, Pending
       <2> QED BY <2>1, <2>2
<1>15. Remembers BY <1>1, SameHistory
<1>16. CmdOK'
       BY <1>1, <1>7, <1>8, <1>11, <1>15 DEF CmdOK, Working, Remembers
<1>17. PullPushOK' /\ PullOK' BY <1>11 DEF PullPushOK, PullOK
<1>18. SwitchOK'
       BY <1>7, <1>11, <1>12, <1>13, <1>14 DEF SwitchOK, Filing, Working
<1> QED BY <1>13, <1>16, <1>17, <1>18 DEF IInv, CommandInv

LEMMA PushPublishKeeps ==
    ASSUME IInv, NEW flag \in BOOLEAN, PushPublish(flag)
    PROVE  IInv'
<1> DEFINE remote == Tree(HeadOf(disk.active))
           tree == ResultingTree(disk.baseline, local, remote, Path, flag)
           base == AcknowledgeClean(disk.baseline, local, tree, Path)
           x == [branch |-> disk.active, tree |-> tree, mine |-> TRUE]
<1>1. WorldInv /\ ~Pending /\ UNCHANGED <<local, disk, journal, torn, ghosts>>
      BY DEF IInv, PushPublish, AssertNoPendingSwitch, NoPendingSwitch, Pending
<1>2. /\ TypeOK /\ disk.active \in Branch /\ disk.baseline \in [Path -> BaselineSlot]
      /\ local \in [Path -> RemoteSlot]
      BY <1>1, WorldTypes
<1>3. /\ remote \in [Path -> RemoteSlot]
      /\ \A p \in Path : remote[p] = Absent \/ OnBranch(disk.active, p, remote[p])
      BY <1>1, <1>2, HeadFacts
<1>4. commits' = Append(commits, x)
      /\ Begin("push", disk.active, 0, "save", base, {}, {}, {})
      BY DEF PushPublish
<1> HIDE DEF remote
<1>5. tree \in [Path -> RemoteSlot] /\ \A p \in Path : tree[p] \in {local[p], remote[p], Absent}
      BY <1>2, <1>3, ResultingTreeFacts
<1> HIDE DEF tree
<1>6. /\ base \in [Path -> BaselineSlot]
      /\ \A p \in Path : /\ base[p] = disk.baseline[p] \/ base[p] = tree[p]
                         /\ base[p] = Unknown => disk.baseline[p] = Unknown
      BY <1>2, <1>5, AcknowledgeFacts
<1> HIDE DEF base
<1>7. /\ cmd' \in Running
      /\ cmd'.kind = "push" /\ cmd'.branch = disk.active /\ cmd'.head = HeadOf(disk.active)
      /\ cmd'.step = "save" /\ cmd'.base = base
      /\ cmd'.todo = {} /\ cmd'.gone = {}
      /\ IsHead(disk.active, HeadOf(disk.active))
      <2>1. "save" \in Step /\ "push" \in {"pull", "switch", "push"} BY DEF Step
      <2>2. {} \in SUBSET Path OBVIOUS
      <2> QED BY <1>2, <1>4, <1>6, <2>1, <2>2, BeginFacts
<1>8. x \in Commit /\ x.branch = disk.active /\ x.tree = tree
      BY <1>2, <1>5 DEF Commit
<1>9. /\ Remembers /\ commits' \in Seq(Commit)
      /\ \A p \in Path : \E i \in 1..Len(commits') : /\ commits'[i].branch = disk.active
                                                     /\ commits'[i].tree[p] = tree[p]
      <2> HIDE DEF x
      <2>1. /\ Remembers
            /\ commits' \in Seq(Commit) /\ Len(commits') = Len(commits) + 1
            /\ commits'[Len(commits) + 1] = x
            BY <1>2, <1>4, <1>8, LongerHistory
      <2>2. Len(commits) + 1 \in 1..Len(commits') BY <1>1, <2>1, WorldTypes
      <2> QED BY <1>8, <2>1, <2>2
<1>10. TypeOK' BY <1>1, <1>2, <1>7, <1>9 DEF TypeOK, ghosts
<1>11. WorldInv'
       <2>1. \A p \in Path : tree[p] \in Loose \/ OnBranch(disk.active, p, tree[p])
             BY <1>1, <1>3, <1>5 DEF WorldInv, LocalOK, Reached, Loose
       <2> HIDE DEF x
       <2> QED BY <1>1, <1>4, <1>8, <1>10, <2>1, HistoryGrows
<1>12. CmdOK'
       BY <1>7, <1>9 DEF CmdOK, Remembers, Working
<1>13. PullPushOK'
       <2>1. \A p \in Path : base[p] \in Content =>
               \E i \in 1..Len(commits') : /\ commits'[i].branch = disk.active
                                           /\ commits'[i].tree[p] = base[p]
             <3>1. \A b, p, c : OnBranch(b, p, c) =>
                      \E i \in 1..Len(commits') : /\ commits'[i].branch = b
                                                  /\ commits'[i].tree[p] = c
                   BY <1>9 DEF Remembers, OnBranch
             <3>2. \A p \in Path : disk.baseline[p] \in Content
                                      => OnBranch(disk.active, p, disk.baseline[p])
                   BY <1>1, WorldTypes
             <3> QED BY <1>6, <1>9, <3>1, <3>2
       <2>2. disk'.active = disk.active /\ ~Pending' /\ disk'.baseline = disk.baseline
             BY <1>1 DEF Pending
       <2> QED BY <1>6, <1>7, <2>1, <2>2 DEF PullPushOK, OnBranch
<1>14. PullOK' /\ SwitchOK' BY <1>7 DEF PullOK, SwitchOK
<1> QED BY <1>11, <1>12, <1>13, <1>14 DEF IInv, CommandInv
------------------------------------------------------------------------------
\* Commands run.

LEMMA RunningFacts ==
    ASSUME IInv, cmd # Idle
    PROVE  /\ cmd \in Running /\ IsHead(cmd.branch, cmd.head)
           /\ Tree(cmd.head) \in [Path -> RemoteSlot]
           /\ \A p \in Path : Tree(cmd.head)[p] = Absent \/ OnBranch(cmd.branch, p, Tree(cmd.head)[p])
           /\ WorldInv /\ CommandInv
<1>1. cmd \in Running BY DEF IInv, WorldInv, TypeOK
<1>2. IsHead(cmd.branch, cmd.head) BY DEF IInv, CommandInv, CmdOK
<1>3. cmd.head \in 0..Len(commits) BY <1>2 DEF IsHead
<1>4. TypeOK BY DEF IInv, WorldInv
<1> QED BY <1>1, <1>2, <1>3, <1>4, TreeType, TreeOnBranch DEF IInv

\* Fields a step of a running command leaves alone.
Same(new) ==
    /\ new.kind = cmd.kind /\ new.branch = cmd.branch /\ new.head = cmd.head
    /\ new.op = cmd.op /\ new.plan = cmd.plan /\ new.acted = cmd.acted

LEMMA GoFacts ==
    ASSUME cmd \in Running, NEW s \in Step, Go(s)
    PROVE  /\ cmd' \in Running /\ Same(cmd') /\ cmd'.step = s
           /\ cmd'.base = cmd.base /\ cmd'.todo = cmd.todo /\ cmd'.gone = cmd.gone
           /\ cmd'.acked = cmd.acked /\ cmd'.path = cmd.path
BY DEF Running, Go, Step, Filing, Working, Same

LEMMA FileDoneFacts ==
    ASSUME IInv, cmd # Idle, NEW p \in Path, FileDone(p)
    PROVE  /\ cmd' \in Running /\ Same(cmd') /\ cmd'.step = "file"
           /\ cmd'.todo = cmd.todo \ {p} /\ cmd'.gone = cmd.gone \ {p}
           /\ cmd'.acked = cmd.acked /\ cmd'.base \in [Path -> BaselineSlot]
           /\ cmd.kind = "pull" => /\ cmd'.base[p] = Target(p)
                                   /\ \A q \in Path : q # p => cmd'.base[q] = cmd.base[q]
           /\ cmd.kind # "pull" => cmd'.base = cmd.base
<1> DEFINE base == IF cmd.kind = "pull" THEN [cmd.base EXCEPT ![p] = Target(p)] ELSE cmd.base
<1>1. cmd \in Running /\ Target(p) \in RemoteSlot BY RunningFacts DEF Target
<1>2. cmd.base \in [Path -> BaselineSlot] BY <1>1 DEF Running
<1>3. /\ base \in [Path -> BaselineSlot]
      /\ cmd.kind = "pull" => /\ base[p] = Target(p)
                              /\ \A q \in Path : q # p => base[q] = cmd.base[q]
      /\ cmd.kind # "pull" => base = cmd.base
      BY <1>1, <1>2 DEF BaselineSlot
<1>4. cmd' = [cmd EXCEPT !.step = "file", !.todo = @ \ {p}, !.gone = @ \ {p}, !.base = base]
      BY DEF FileDone
<1> HIDE DEF base
<1> QED BY <1>1, <1>3, <1>4 DEF Running, Same

\* A file is done: what a pull put there has a baseline now.
LEMMA FileDoneKeeps ==
    ASSUME IInv, cmd # Idle, cmd.step \in Filing, NEW p \in Path, FileDone(p),
           UNCHANGED <<disk, commits>>,
           cmd.kind = "pull" => \A e \in journal' : e.op = cmd.op => e.status # "acknowledged"
    PROVE  CommandInv'
<1>1. /\ cmd' \in Running /\ Same(cmd') /\ cmd'.step = "file"
      /\ cmd'.todo = cmd.todo \ {p} /\ cmd'.gone = cmd.gone \ {p}
      /\ cmd'.acked = cmd.acked /\ cmd'.base \in [Path -> BaselineSlot]
      /\ cmd.kind = "pull" => /\ cmd'.base[p] = Target(p)
                              /\ \A q \in Path : q # p => cmd'.base[q] = cmd.base[q]
      /\ cmd.kind # "pull" => cmd'.base = cmd.base
      BY FileDoneFacts
<1>2. /\ Remembers /\ CmdOK /\ PullPushOK /\ PullOK /\ SwitchOK
      /\ Target(p) \in RemoteSlot
      /\ Target(p) = Absent \/ OnBranch(cmd.branch, p, Target(p))
      BY RunningFacts, SameHistory DEF IInv, CommandInv, Target
<1>3. cmd.kind # "push" BY <1>2 DEF CmdOK, Filing, Working
<1>4. CmdOK'
      BY <1>1, <1>2, <1>3 DEF CmdOK, Same, Remembers, Working
<1>5. PullPushOK'
      <2> SUFFICES ASSUME cmd.kind = "pull" PROVE PullPushOK'
          BY <1>1, <1>3 DEF PullPushOK, Same
      <2>1. cmd'.branch = cmd.branch /\ cmd.branch = disk.active /\ ~Pending
            BY <1>1, <1>2 DEF PullPushOK, Same
      <2>2. \A q \in Path : cmd'.base[q] \in Content => OnBranch(cmd.branch, q, cmd'.base[q])
            BY <1>1, <1>2, SlotAssumption DEF PullPushOK
      <2>3. \A q \in Path : cmd'.base[q] = Unknown => disk.baseline[q] = Unknown
            BY <1>1, <1>2, SlotAssumption DEF PullPushOK, RemoteSlot
      <2> QED BY <2>1, <2>2, <2>3 DEF PullPushOK, Pending, OnBranch
<1>6. PullOK'
      <2> SUFFICES ASSUME cmd.kind = "pull" PROVE PullOK'
          BY <1>1 DEF PullOK, Same
      <2>1. \A q \in cmd.acted \ (cmd'.todo \cup cmd'.gone) : cmd'.base[q] # Unknown
            <3>1. cmd.acted \subseteq Path BY RunningFacts DEF Running
            <3>2. \A q \in cmd.acted \ (cmd.todo \cup cmd.gone) : cmd.base[q] # Unknown
                  BY <1>2 DEF PullOK
            <3> QED BY <1>1, <1>2, <3>1, <3>2, SlotAssumption DEF RemoteSlot
      <2> QED BY <1>1, <2>1 DEF PullOK, Same, Working
<1>7. SwitchOK'
      BY <1>1, <1>2 DEF SwitchOK, Same, Filing, Working, Pending
<1> QED BY <1>4, <1>5, <1>6, <1>7 DEF CommandInv

\* The next look at the file in hand.
LEMMA WorkGoes ==
    ASSUME IInv, cmd # Idle, cmd.step \in Working, NEW s \in Working, Go(s),
           UNCHANGED <<disk, journal, commits>>,
           s = "replace" => late' \/ local'[cmd.path] = cmd.plan[cmd.path]
    PROVE  CommandInv'
<1>1. s \in Step BY DEF Step, Filing
<1>2. /\ cmd' \in Running /\ Same(cmd') /\ cmd'.step = s
      /\ cmd'.base = cmd.base /\ cmd'.todo = cmd.todo /\ cmd'.gone = cmd.gone
      /\ cmd'.acked = cmd.acked /\ cmd'.path = cmd.path
      BY <1>1, RunningFacts, GoFacts
<1>3. Remembers /\ CmdOK /\ PullPushOK /\ PullOK /\ SwitchOK
      BY SameHistory DEF IInv, CommandInv
<1>4. CmdOK' BY <1>2, <1>3 DEF CmdOK, Same, Remembers, Working
<1>5. PullPushOK'
      BY <1>2, <1>3 DEF PullPushOK, Same, Remembers, Pending, Filing
<1>6. PullOK' BY <1>2, <1>3 DEF PullOK, Same, Filing, Working
<1>7. SwitchOK' BY <1>2, <1>3 DEF SwitchOK, Same, Filing, Working, Pending
<1> QED BY <1>4, <1>5, <1>6, <1>7 DEF CommandInv

LEMMA AlreadyThereKeeps ==
    ASSUME IInv, NEW p \in Path, AlreadyThere(p)
    PROVE  IInv'
<1>1. /\ cmd # Idle /\ cmd.step \in Filing /\ FileDone(p)
      /\ UNCHANGED <<local, disk, journal, torn, commits, ghosts>>
      BY DEF AlreadyThere, At, Filing
<1>2. cmd' \in Running BY <1>1, FileDoneFacts
<1>3. TypeOK' BY <1>1, <1>2 DEF IInv, WorldInv, TypeOK, ghosts
<1>4. WorldInv' BY <1>1, <1>3, WorldStands DEF IInv
<1>5. cmd.kind = "pull" => \A e \in journal' : e.op = cmd.op => e.status # "acknowledged"
      BY <1>1 DEF IInv, CommandInv, PullOK
<1> QED BY <1>1, <1>4, <1>5, FileDoneKeeps DEF IInv

LEMMA AppendEntryKeeps ==
    ASSUME IInv, NEW p \in Path, AppendEntry(p)
    PROVE  IInv'
<1> DEFINE x == [op |-> cmd.op, path |-> p, target |-> Target(p), status |-> "pending"]
<1>1. /\ cmd # Idle /\ cmd.step = "file" /\ p \in cmd.todo \cup cmd.gone
      /\ UNCHANGED <<local, disk, torn, commits, ghosts>>
      BY DEF AppendEntry, NeedsWork, At, Turn
<1>2. journal' = IF Mine(p) # {} THEN journal ELSE journal \cup {x}
      BY DEF AppendEntry
<1>3. cmd' = [cmd EXCEPT !.step = "guard", !.path = p] BY DEF AppendEntry
<1>4. /\ cmd \in Running /\ WorldInv /\ CommandInv /\ Target(p) \in RemoteSlot
      BY <1>1, RunningFacts DEF Target
<1>5. x \in Entry /\ x.path = p /\ x.op = cmd.op /\ x.status = "pending"
      BY <1>4 DEF Entry, Running
<1> HIDE DEF x
<1>6. /\ cmd' \in Running /\ Same(cmd') /\ cmd'.step = "guard" /\ cmd'.path = p
      /\ cmd'.base = cmd.base /\ cmd'.todo = cmd.todo /\ cmd'.gone = cmd.gone
      /\ cmd'.acked = cmd.acked
      BY <1>3, <1>4 DEF Running, Same
<1>7. journal \subseteq journal' /\ journal' \subseteq journal \cup {x} BY <1>2
<1>8. TypeOK' BY <1>1, <1>4, <1>5, <1>6, <1>7 DEF WorldInv, TypeOK, ghosts
<1>9. IsFiniteSet(journal') BY <1>2, <1>4, FS_AddElement DEF WorldInv
<1>10. WorldInv'
       <2>1. \A q \in Path : Open(q) => Open(q)' BY <1>7 DEF Open
       <2> QED BY <1>1, <1>4, <1>8, <1>9, <2>1, JournalMoves
<1>11. Remembers /\ CmdOK /\ PullPushOK /\ PullOK /\ SwitchOK
       BY <1>1, <1>4, SameHistory DEF CommandInv
<1>12. CmdOK' BY <1>1, <1>6, <1>11 DEF CmdOK, Same, Remembers, Working
<1>13. PullPushOK'
       BY <1>1, <1>6, <1>11 DEF PullPushOK, Same, Remembers, Pending, Filing
<1>14. PullOK'
       <2>1. \E e \in journal' : e.op = cmd.op /\ e.path = p
             BY <1>2, <1>5 DEF Mine
       <2>2. cmd.kind = "pull" => \A e \in journal' : e.op = cmd.op => e.status # "acknowledged"
             BY <1>1, <1>5, <1>7, <1>11 DEF PullOK, Filing
       <2> QED BY <1>1, <1>6, <1>11, <2>1, <2>2 DEF PullOK, Same, Filing, Working
<1>15. SwitchOK' BY <1>1, <1>6, <1>11 DEF SwitchOK, Same, Filing, Working, Pending
<1> QED BY <1>10, <1>12, <1>13, <1>14, <1>15 DEF IInv, CommandInv

\* The entries of the file in hand are written: no open entry is lost.
LEMMA WrittenKeeps ==
    ASSUME IInv, cmd # Idle, cmd.step \in Working, NEW p \in Path, FileDone(p),
           journal' = SetStatus(Mine(p), "written"),
           UNCHANGED <<local, disk, torn, commits, ghosts>>
    PROVE  IInv'
<1>1. WorldInv /\ TypeOK /\ IsFiniteSet(journal) BY DEF IInv, WorldInv
<1>2. Mine(p) \in SUBSET journal BY DEF Mine
<1>3. /\ journal' \subseteq Entry /\ IsFiniteSet(journal')
      /\ \A e \in journal' : \/ e \in journal \ Mine(p)
                             \/ \E o \in Mine(p) : /\ e.op = o.op /\ e.path = o.path
                                                   /\ e.status = "written"
      /\ \A o \in Mine(p) : \E e \in journal' : /\ e.op = o.op /\ e.path = o.path
                                                /\ e.status = "written"
      /\ journal \ Mine(p) \subseteq journal'
      BY <1>1, <1>2, SetStatusType
<1>4. cmd' \in Running BY FileDoneFacts
<1>5. TypeOK' BY <1>1, <1>3, <1>4 DEF TypeOK, ghosts
<1>6. \A q \in Path : Open(q) => Open(q)' BY <1>3 DEF Open
<1>7. WorldInv' BY <1>1, <1>3, <1>5, <1>6, JournalMoves
<1>8. cmd.kind = "pull" => \A e \in journal' : e.op = cmd.op => e.status # "acknowledged"
      BY <1>3 DEF IInv, CommandInv, PullOK, Filing
<1> QED BY <1>7, <1>8, FileDoneKeeps DEF IInv, Filing

LEMMA PathInHand ==
    ASSUME IInv, cmd # Idle, cmd.step \in Working
    PROVE  cmd.path \in Path /\ cmd.path \in cmd.todo \cup cmd.gone
BY RunningFacts DEF CommandInv, CmdOK, Running

\* A step that only moves the command within its file, or gives up.
LEMMA LooksKeep ==
    ASSUME IInv, cmd # Idle, cmd.step \in Working,
           UNCHANGED <<local, disk, journal, torn, commits, edits, faults, edited>>,
           late' \in BOOLEAN,
           \/ cmd' = Idle
           \/ \E s \in Working : /\ Go(s)
                                 /\ s = "replace" => local[cmd.path] = cmd.plan[cmd.path]
    PROVE  IInv'
<1>1. CASE cmd' = Idle
      <2>1. TypeOK' BY <1>1 DEF IInv, WorldInv, TypeOK
      <2> QED BY <1>1, <2>1, WorldStands, CommandIdle DEF IInv
<1>2. ASSUME NEW s \in Working, Go(s), s = "replace" => local[cmd.path] = cmd.plan[cmd.path]
      PROVE  IInv'
      <2>1. cmd' \in Running BY <1>2, RunningFacts, GoFacts DEF Step, Filing
      <2>2. TypeOK' BY <2>1 DEF IInv, WorldInv, TypeOK
      <2>3. WorldInv' BY <2>2, WorldStands DEF IInv
      <2>4. s = "replace" => late' \/ local'[cmd.path] = cmd.plan[cmd.path] BY <1>2
      <2> QED BY <1>2, <2>3, <2>4, WorkGoes DEF IInv
<1> QED BY <1>1, <1>2

LEMMA GuardKeeps ==
    ASSUME IInv, Guard
    PROVE  IInv'
<1>1. cmd # Idle /\ cmd.step \in Working /\ UNCHANGED <<local, disk, torn, commits, ghosts>>
      BY DEF Guard, At, Working
<1>2. CASE FileDone(cmd.path) /\ journal' = SetStatus(Mine(cmd.path), "written")
      BY <1>1, <1>2, PathInHand, WrittenKeeps
<1>3. CASE UNCHANGED journal /\ IF local[cmd.path] = cmd.plan[cmd.path] THEN Go("recheck") ELSE Abort
      <2>1. late' \in BOOLEAN BY <1>1 DEF IInv, WorldInv, TypeOK, ghosts
      <2>2. cmd' = Idle \/ Go("recheck") BY <1>3 DEF Abort
      <2> QED BY <1>1, <1>3, <2>1, <2>2, LooksKeep DEF ghosts, Working
<1> QED BY <1>2, <1>3 DEF Guard

LEMMA RecheckKeeps ==
    ASSUME IInv, Recheck
    PROVE  IInv'
<1>1. /\ cmd # Idle /\ cmd.step \in Working /\ late' = FALSE
      /\ UNCHANGED <<local, disk, journal, torn, commits, edits, faults, edited>>
      BY DEF Recheck, At, Working
<1>2. \/ cmd' = Idle
      \/ local[cmd.path] = cmd.plan[cmd.path] /\ Go("replace")
      \/ Go("mark")
      BY DEF Recheck, Abort
<1> QED BY <1>1, <1>2, LooksKeep DEF Working

LEMMA MarkKeeps ==
    ASSUME IInv, Mark
    PROVE  IInv'
<1>1. cmd # Idle /\ cmd.step \in Working /\ UNCHANGED <<local, disk, torn, commits, ghosts>>
      BY DEF Mark, At, Working
<1>2. CASE FileDone(cmd.path) /\ journal' = SetStatus(Mine(cmd.path), "written")
      BY <1>1, <1>2, PathInHand, WrittenKeeps
<1>3. CASE Abort /\ UNCHANGED journal
      <2>1. late' \in BOOLEAN BY <1>1 DEF IInv, WorldInv, TypeOK, ghosts
      <2>2. cmd' = Idle BY <1>3 DEF Abort
      <2> QED BY <1>1, <1>3, <2>1, <2>2, LooksKeep DEF ghosts
<1> QED BY <1>2, <1>3 DEF Mark

\* The rename: the file now holds what the branch worked on holds, and the
\* command's entry, or the recovery proof, answers for it.
LEMMA ReplaceKeeps ==
    ASSUME IInv, Replace
    PROVE  IInv'
<1> DEFINE p == cmd.path
<1>1. /\ cmd # Idle /\ cmd.step = "replace" /\ cmd.step \in Working
      /\ UNCHANGED <<disk, journal, torn, commits, ghosts>>
      /\ local' = [local EXCEPT ![p] = Target(p)]
      /\ cmd' = Idle \/ Go("mark")
      BY DEF Replace, At, Working, Abort
<1>2. p \in Path /\ p \in cmd.todo \cup cmd.gone BY <1>1, PathInHand
<1>3. /\ cmd \in Running /\ WorldInv /\ CommandInv
      /\ Target(p) \in RemoteSlot /\ (Target(p) = Absent \/ OnBranch(cmd.branch, p, Target(p)))
      BY <1>1, <1>2, RunningFacts DEF Target
<1>4. cmd' \in Running \cup {Idle}
      BY <1>1, <1>3, GoFacts DEF Step, Filing, Working
<1>5. TypeOK' BY <1>1, <1>2, <1>3, <1>4 DEF WorldInv, TypeOK, ghosts
<1>6. \/ Target(p) \in Loose
      \/ ~Pending /\ OnBranch(disk.active, p, Target(p)) /\ Open(p)
      \/ Pending /\ p \in disk.recovery.files /\ OnBranch(disk.recovery.target, p, Target(p))
      <2>1. cmd.kind \in {"pull", "switch"}
            BY <1>1, <1>3 DEF CommandInv, CmdOK, Running
      <2>2. CASE cmd.kind = "pull"
            <3>1. \E e \in journal : e.op = cmd.op /\ e.path = p /\ e.status # "acknowledged"
                  BY <1>1, <1>3, <2>2 DEF CommandInv, PullOK, Filing, Working
            <3>2. ~Pending /\ cmd.branch = disk.active
                  BY <1>1, <1>3, <2>2 DEF CommandInv, PullPushOK
            <3> QED BY <1>3, <3>1, <3>2 DEF Open, Loose
      <2>3. CASE cmd.kind = "switch"
            BY <1>1, <1>2, <1>3, <2>3 DEF CommandInv, SwitchOK, Loose
      <2> QED BY <2>1, <2>2, <2>3
<1> HIDE DEF p
<1>7. WorldInv' BY <1>1, <1>2, <1>3, <1>5, <1>6, LocalMoves
<1>8. CommandInv'
      <2>1. CASE cmd' = Idle BY <2>1, CommandIdle
      <2>2. CASE Go("mark") BY <1>1, <2>2, WorkGoes DEF Working
      <2> QED BY <1>1, <2>1, <2>2
<1> QED BY <1>7, <1>8 DEF IInv
------------------------------------------------------------------------------
\* Commands end.

LEMMA PullSaveKeeps ==
    ASSUME IInv, PullSave
    PROVE  IInv'
<1> DEFINE remote == Tree(cmd.head)
           others == cmd.acked \ cmd.acted
           clean == {p \in others : local[p] = remote[p]}
           new == AcknowledgeClean(cmd.base, local, remote, others)
<1>1. /\ cmd # Idle /\ cmd.kind = "pull" /\ cmd.step = "file" /\ cmd.todo = {} /\ cmd.gone = {}
      /\ UNCHANGED <<local, journal, torn, commits, ghosts>>
      /\ disk' = [disk EXCEPT !.baseline = new]
      /\ cmd' = [cmd EXCEPT !.step = "preclear", !.acked = cmd.acted \cup clean]
      BY DEF PullSave, FilesDone, At
<1>2. /\ cmd \in Running /\ WorldInv /\ CommandInv
      /\ remote \in [Path -> RemoteSlot]
      /\ \A p \in Path : remote[p] = Absent \/ OnBranch(cmd.branch, p, remote[p])
      BY <1>1, RunningFacts
<1>3. cmd.base \in [Path -> BaselineSlot] /\ cmd.acted \in SUBSET Path /\ clean \in SUBSET Path
      BY <1>2 DEF Running
<1> HIDE DEF remote
<1>4. /\ new \in [Path -> BaselineSlot]
      /\ \A p \in Path : /\ new[p] = cmd.base[p] \/ new[p] = remote[p]
                         /\ new[p] = Unknown => cmd.base[p] = Unknown
                         /\ p \in others /\ local[p] = remote[p] => new[p] # Unknown
      <2> HIDE DEF others
      <2> QED BY <1>2, <1>3, AcknowledgeFacts
<1>5. \A p \in clean : new[p] # Unknown BY <1>3, <1>4
<1> HIDE DEF new, clean, others
<1>6. /\ disk'.active = disk.active /\ disk'.recovery = disk.recovery /\ disk'.baseline = new
      /\ disk' \in [active : Branch, baseline : [Path -> BaselineSlot],
                    recovery : Recovery \cup {NoRecovery}]
      BY <1>1, <1>2, <1>4 DEF WorldInv, TypeOK
<1>7. /\ cmd' \in Running /\ Same(cmd') /\ cmd'.step = "preclear"
      /\ cmd'.acked = cmd.acted \cup clean
      /\ cmd'.todo = cmd.todo /\ cmd'.gone = cmd.gone /\ cmd'.base = cmd.base
      BY <1>1, <1>2, <1>3 DEF Running, Same
<1>8. TypeOK' BY <1>1, <1>2, <1>6, <1>7 DEF WorldInv, TypeOK, ghosts
<1>9. /\ Remembers /\ CmdOK /\ PullPushOK /\ PullOK
      /\ ~Pending /\ cmd.branch = disk.active
      BY <1>1, <1>2, SameHistory DEF CommandInv, PullPushOK
<1>10. \A p \in Path : /\ new[p] \in Content => OnBranch(disk.active, p, new[p])
                       /\ new[p] = Unknown => disk.baseline[p] = Unknown
       BY <1>1, <1>2, <1>4, <1>9, SlotAssumption DEF PullPushOK, Filing
<1>11. WorldInv' BY <1>1, <1>2, <1>6, <1>8, <1>9, <1>10, BaselinesMove
<1>12. CmdOK' BY <1>1, <1>7, <1>9 DEF CmdOK, Same, Remembers, Working
<1>13. PullPushOK'
       BY <1>1, <1>6, <1>7, <1>9 DEF PullPushOK, Same, Remembers, Pending, Filing, Working
<1>14. PullOK'
       <2>1. \A p \in cmd.acted : new[p] # Unknown
             <3>1. \A p \in cmd.acted : cmd.base[p] # Unknown
                   BY <1>1, <1>9 DEF PullOK, Filing
             <3> QED BY <1>3, <1>4, <3>1
       <2> QED BY <1>5, <1>6, <1>7, <2>1 DEF PullOK, Filing, Working
<1>15. SwitchOK' BY <1>1, <1>7 DEF SwitchOK, Same
<1> QED BY <1>11, <1>12, <1>13, <1>14, <1>15 DEF IInv, CommandInv

LEMMA SwitchVerifyKeeps ==
    ASSUME IInv, SwitchVerify
    PROVE  IInv'
<1> DEFINE wanted == Tree(cmd.head)
           new == [p \in Path |-> IF p \in cmd.acked THEN wanted[p] ELSE cmd.base[p]]
<1>1. /\ cmd # Idle /\ cmd.kind = "switch" /\ cmd.step = "file"
      /\ cmd.todo = {} /\ cmd.gone = {}
      /\ UNCHANGED <<local, disk, journal, torn, commits, ghosts>>
      BY DEF SwitchVerify, FilesDone, At
<1>2. /\ cmd \in Running /\ WorldInv /\ CommandInv /\ wanted \in [Path -> RemoteSlot]
      BY <1>1, RunningFacts
<1>3. CASE cmd' = Idle
      <2>1. TypeOK' BY <1>1, <1>2, <1>3 DEF WorldInv, TypeOK, ghosts
      <2> QED BY <1>1, <1>2, <1>3, <2>1, WorldStands, CommandIdle DEF IInv
<1>4. CASE /\ \A p \in cmd.acked : local[p] = wanted[p]
           /\ cmd' = [cmd EXCEPT !.step = "settle", !.base = new]
      <2>1. new \in [Path -> BaselineSlot]
            <3> HIDE DEF wanted
            <3> QED BY <1>2 DEF Running, BaselineSlot
      <2>2. \A p \in Path : new[p] = IF p \in cmd.acked THEN wanted[p] ELSE cmd.base[p]
            OBVIOUS
      <2> HIDE DEF new, wanted
      <2>3. /\ cmd' \in Running /\ Same(cmd') /\ cmd'.step = "settle" /\ cmd'.base = new
            /\ cmd'.todo = cmd.todo /\ cmd'.gone = cmd.gone /\ cmd'.acked = cmd.acked
            BY <1>2, <1>4, <2>1 DEF Running, Same
      <2>4. TypeOK' BY <1>1, <1>2, <2>3 DEF WorldInv, TypeOK, ghosts
      <2>5. WorldInv' BY <1>1, <1>2, <2>4, WorldStands
      <2>6. Remembers /\ CmdOK /\ SwitchOK /\ Pending
            BY <1>1, <1>2, SameHistory DEF CommandInv, SwitchOK
      <2>7. CmdOK' BY <1>1, <2>3, <2>6 DEF CmdOK, Same, Remembers, Working
      <2>8. PullPushOK' /\ PullOK' BY <1>1, <2>3 DEF PullPushOK, PullOK, Same
      <2>9. /\ cmd.acked = disk.recovery.files /\ cmd.head = disk.recovery.head
            /\ cmd.base = disk.baseline /\ cmd.branch = disk.recovery.target
            BY <1>1, <2>6 DEF SwitchOK, Filing
      <2>10. IsHead(disk.recovery.target, disk.recovery.head)
             /\ \A p \in Path \ disk.recovery.files : disk.baseline[p] = Unknown
             BY <1>2, <2>6 DEF WorldInv, RecoveryOK
      <2>11. Tree(disk.recovery.head)' = Tree(disk.recovery.head)
             BY <1>1, <2>6, <2>10 DEF Remembers
      <2>12. \A p \in Path : new[p] = IF p \in disk.recovery.files
                                      THEN Tree(disk.recovery.head)[p] ELSE Unknown
             <3>1. wanted = Tree(disk.recovery.head) BY <2>9 DEF wanted
             <3>2. \A p \in Path : p \in cmd.acked <=> p \in disk.recovery.files BY <2>9
             <3>3. \A p \in Path : p \notin cmd.acked => cmd.base[p] = Unknown
                   BY <2>9, <2>10
             <3> QED BY <2>2, <3>1, <3>2, <3>3
      <2>13. \A p \in disk.recovery.files : local[p] = Tree(disk.recovery.head)[p]
             BY <1>4, <2>9 DEF wanted
      <2>14. Pending' /\ disk' = disk /\ local' = local BY <1>1, <2>6 DEF Pending
      <2>15. SwitchOK'
             BY <1>1, <2>3, <2>9, <2>11, <2>12, <2>13, <2>14
                DEF SwitchOK, Same, Filing, Working
      <2> QED BY <2>5, <2>7, <2>8, <2>15 DEF IInv, CommandInv
<1> QED BY <1>3, <1>4 DEF SwitchVerify, Abort

\* An entry is acknowledged only when a baseline, or the recovery proof, covers it.
LEMMA SettleEntryKeeps ==
    ASSUME IInv, SettleEntry
    PROVE  IInv'
<1>1. /\ cmd # Idle /\ cmd.step = "settle"
      /\ UNCHANGED <<local, disk, torn, commits, cmd, ghosts>>
      BY DEF SettleEntry, At
<1>2. PICK x \in ToSettle : journal' = SetStatus({x}, "acknowledged") BY DEF SettleEntry
<1>3. cmd \in Running /\ WorldInv /\ CommandInv /\ TypeOK /\ IsFiniteSet(journal)
      BY <1>1, RunningFacts DEF WorldInv
<1>4. x \in journal /\ {x} \in SUBSET journal BY DEF ToSettle
<1>5. journal' \subseteq Entry /\ IsFiniteSet(journal') /\ journal \ {x} \subseteq journal'
      BY <1>2, <1>3, <1>4, SetStatusType
<1>6. TypeOK' BY <1>1, <1>3, <1>5 DEF TypeOK, ghosts
<1>7. \A p \in Path : Open(p) => Open(p)' \/ disk.baseline[p] # Unknown \/ Pending
      <2>1. cmd.kind # "push" BY <1>1, <1>3 DEF CommandInv, CmdOK
      <2>2. CASE cmd.kind = "pull"
            <3>1. disk.baseline[x.path] # Unknown
                  BY <1>1, <1>3, <2>2 DEF CommandInv, PullOK, ToSettle
            <3> QED BY <1>5, <3>1 DEF Open
      <2>3. CASE cmd.kind = "switch"
            BY <1>1, <1>3, <2>3 DEF CommandInv, SwitchOK
      <2> QED BY <1>3, <2>1, <2>2, <2>3 DEF Running
<1>8. WorldInv' BY <1>1, <1>3, <1>5, <1>6, <1>7, JournalMoves
<1>9. Remembers /\ CmdOK /\ PullPushOK /\ PullOK /\ SwitchOK
      BY <1>1, <1>3, SameHistory DEF CommandInv
<1>10. CmdOK' BY <1>1, <1>9 DEF CmdOK, Remembers, Working
<1>11. PullPushOK' BY <1>1, <1>9 DEF PullPushOK, Remembers, Pending, Filing, Working
<1>12. PullOK' BY <1>1, <1>9 DEF PullOK, Filing, Working
<1>13. SwitchOK'
       <2>1. Pending /\ cmd.kind = "switch" => Tree(disk.recovery.head)' = Tree(disk.recovery.head)
             BY <1>1, <1>3, <1>9 DEF WorldInv, RecoveryOK, Remembers
       <2> QED BY <1>1, <1>9, <2>1 DEF SwitchOK, Filing, Working, Pending, Loose
<1> QED BY <1>8, <1>10, <1>11, <1>12, <1>13 DEF IInv, CommandInv

LEMMA SettledKeeps ==
    ASSUME IInv, Settled
    PROVE  IInv'
<1> DEFINE s == IF cmd.kind = "pull" THEN "clear" ELSE "save"
<1>1. /\ cmd # Idle /\ cmd.step = "settle" /\ Go(s)
      /\ UNCHANGED <<local, disk, journal, torn, commits, ghosts>>
      BY DEF Settled, At
<1>2. cmd \in Running /\ WorldInv /\ CommandInv /\ TypeOK
      BY <1>1, RunningFacts DEF WorldInv
<1>3. s \in Step BY DEF Step
<1>4. /\ cmd' \in Running /\ Same(cmd') /\ cmd'.step = s
      /\ cmd'.base = cmd.base /\ cmd'.todo = cmd.todo /\ cmd'.gone = cmd.gone
      /\ cmd'.acked = cmd.acked /\ cmd'.path = cmd.path
      <2> HIDE DEF s
      <2> QED BY <1>1, <1>2, <1>3, GoFacts
<1>5. TypeOK' BY <1>1, <1>2, <1>4 DEF TypeOK, ghosts
<1>6. WorldInv' BY <1>1, <1>2, <1>5, WorldStands
<1>7. Remembers /\ CmdOK /\ PullPushOK /\ PullOK /\ SwitchOK
      BY <1>1, <1>2, SameHistory DEF CommandInv
<1>8. cmd.kind # "push" BY <1>1, <1>7 DEF CmdOK
<1>9. CmdOK' BY <1>1, <1>4, <1>7, <1>8 DEF CmdOK, Same, Remembers, Working
<1>10. PullPushOK'
       BY <1>1, <1>4, <1>7, <1>8 DEF PullPushOK, Same, Remembers, Pending, Filing, Working
<1>11. PullOK' BY <1>1, <1>4, <1>7 DEF PullOK, Same, Filing, Working
<1>12. SwitchOK'
       <2>1. Pending /\ cmd.kind = "switch" => Tree(disk.recovery.head)' = Tree(disk.recovery.head)
             BY <1>1, <1>2, <1>7 DEF WorldInv, RecoveryOK, Remembers
       <2> QED BY <1>1, <1>4, <1>7, <1>8, <2>1 DEF SwitchOK, Same, Filing, Working, Pending
<1> QED BY <1>6, <1>9, <1>10, <1>11, <1>12 DEF IInv, CommandInv

\* Branch and baselines move together: every path of the switch holds the
\* target's file, or what the user typed since.
LEMMA SwitchSaveKeeps ==
    ASSUME IInv, SwitchSave
    PROVE  IInv'
<1>1. /\ cmd # Idle /\ cmd.step = "save" /\ cmd.kind = "switch" /\ Go("clear")
      /\ disk' = [active |-> cmd.branch, baseline |-> cmd.base, recovery |-> NoRecovery]
      /\ UNCHANGED <<local, journal, torn, commits, ghosts>>
      BY DEF SwitchSave, At
<1>2. /\ cmd \in Running /\ WorldInv /\ CommandInv /\ TypeOK
      /\ Tree(cmd.head) \in [Path -> RemoteSlot]
      /\ \A p \in Path : Tree(cmd.head)[p] = Absent \/ OnBranch(cmd.branch, p, Tree(cmd.head)[p])
      BY <1>1, RunningFacts DEF WorldInv
<1>3. /\ cmd' \in Running /\ Same(cmd') /\ cmd'.step = "clear"
      /\ cmd'.base = cmd.base /\ cmd'.todo = cmd.todo /\ cmd'.gone = cmd.gone
      /\ cmd'.acked = cmd.acked /\ cmd'.path = cmd.path
      BY <1>1, <1>2, GoFacts DEF Step
<1>4. disk'.active = cmd.branch /\ disk'.baseline = cmd.base /\ ~Pending'
      BY <1>1 DEF Pending
<1>5. TypeOK' BY <1>1, <1>2, <1>3 DEF TypeOK, ghosts, Running
<1>6. /\ Pending /\ cmd.head = disk.recovery.head
      /\ \A p \in Path : cmd.base[p] = IF p \in disk.recovery.files
                                       THEN Tree(cmd.head)[p] ELSE Unknown
      /\ \A p \in disk.recovery.files : local[p] \in Loose \cup {Tree(cmd.head)[p]}
      BY <1>1, <1>2 DEF CommandInv, SwitchOK
<1>7. \A p \in Path \ disk.recovery.files : local[p] \in Loose
      BY <1>2, <1>6 DEF WorldInv, RecoveryOK
<1>8. WorldInv'
      <2>1. BaselinesFollowBranch'
            <3>1. \A p \in Path : cmd.base[p] \in Content => OnBranch(cmd.branch, p, cmd.base[p])
                  BY <1>2, <1>6, SlotAssumption
            <3>2. \A p \in Path : disk'.baseline[p] \in Content
                                     => OnBranch(disk.active, p, disk.baseline[p])'
                  BY <1>1, <1>4, <3>1 DEF OnBranch
            <3> QED BY <1>5, <3>2, BaselinesOnBranchLater
      <2>2. NoCrossBranchLeak' BY <1>1, <1>2, LeakFacts DEF WorldInv
      <2>3. RecoveryOK' BY <1>4 DEF RecoveryOK
      <2>4. \A p \in Path : local[p] \in Loose \/ OnBranch(cmd.branch, p, local[p])
            BY <1>2, <1>6, <1>7 DEF Loose
      <2>5. LocalOK' BY <1>1, <1>4, <2>4 DEF LocalOK, OnBranch, Loose
      <2>6. JournalOK'
            <3>1. \A p \in disk.recovery.files : p \in Path => cmd.base[p] # Unknown
                  BY <1>2, <1>6, SlotAssumption DEF RemoteSlot
            <3> QED BY <1>1, <1>4, <1>7, <3>1 DEF JournalOK, Loose
      <2>7. IsFiniteSet(journal') BY <1>1, <1>2 DEF WorldInv
      <2> QED BY <1>5, <2>1, <2>2, <2>3, <2>5, <2>6, <2>7 DEF WorldInv
<1>9. Remembers /\ CmdOK BY <1>1, <1>2, SameHistory DEF CommandInv
<1>10. CmdOK' BY <1>1, <1>3, <1>9 DEF CmdOK, Same, Remembers, Working
<1>11. PullPushOK' /\ PullOK' /\ SwitchOK'
       BY <1>1, <1>3 DEF PullPushOK, PullOK, SwitchOK, Same
<1> QED BY <1>8, <1>10, <1>11 DEF IInv, CommandInv

LEMMA ClearAcknowledgedKeeps ==
    ASSUME IInv, ClearAcknowledged
    PROVE  IInv'
<1>1. /\ cmd # Idle /\ UNCHANGED <<local, disk, torn, commits, ghosts>>
      /\ journal' = {e \in journal : e.status # "acknowledged"}
      /\ \/ cmd.step = "preclear" /\ Go("settle")
         \/ cmd' = Idle
      BY DEF ClearAcknowledged, At
<1>2. cmd \in Running /\ WorldInv /\ CommandInv /\ TypeOK
      BY <1>1, RunningFacts DEF WorldInv
<1>3. journal' \in SUBSET journal BY <1>1
<1>4. IsFiniteSet(journal') BY <1>2, <1>3, FS_Subset DEF WorldInv
<1>5. \A p \in Path : Open(p) => Open(p)' BY <1>1 DEF Open
<1>6. CASE cmd' = Idle
      <2>1. TypeOK' BY <1>1, <1>2, <1>3, <1>6 DEF TypeOK, ghosts
      <2> QED BY <1>1, <1>2, <1>4, <1>5, <1>6, <2>1, JournalMoves, CommandIdle DEF IInv
<1>7. CASE cmd.step = "preclear" /\ Go("settle")
      <2>1. /\ cmd' \in Running /\ Same(cmd') /\ cmd'.step = "settle"
            /\ cmd'.base = cmd.base /\ cmd'.todo = cmd.todo /\ cmd'.gone = cmd.gone
            /\ cmd'.acked = cmd.acked /\ cmd'.path = cmd.path
            BY <1>2, <1>7, GoFacts DEF Step
      <2>2. TypeOK' BY <1>1, <1>2, <1>3, <2>1 DEF TypeOK, ghosts
      <2>3. WorldInv' BY <1>1, <1>2, <1>4, <1>5, <2>2, JournalMoves
      <2>4. Remembers /\ CmdOK /\ PullPushOK /\ PullOK
            BY <1>1, <1>2, SameHistory DEF CommandInv
      <2>5. cmd.kind = "pull" BY <1>1, <1>2, <1>7, <2>4 DEF CmdOK, Running
      <2>6. CmdOK' BY <1>1, <2>1, <2>4, <2>5 DEF CmdOK, Same, Remembers, Working
      <2>7. PullPushOK'
            BY <1>1, <2>1, <2>4, <2>5 DEF PullPushOK, Same, Remembers, Pending, Filing, Working
      <2>8. PullOK' BY <1>1, <1>7, <2>1, <2>4 DEF PullOK, Same, Filing, Working
      <2>9. SwitchOK' BY <2>1, <2>5 DEF SwitchOK, Same
      <2> QED BY <2>3, <2>6, <2>7, <2>8, <2>9 DEF IInv, CommandInv
<1> QED BY <1>1, <1>6, <1>7

LEMMA PushSaveKeeps ==
    ASSUME IInv, PushSave
    PROVE  IInv'
<1>1. /\ cmd # Idle /\ cmd.step = "save" /\ cmd.kind = "push" /\ cmd' = Idle
      /\ disk' = [disk EXCEPT !.baseline = cmd.base]
      /\ UNCHANGED <<local, journal, torn, commits, ghosts>>
      BY DEF PushSave, At
<1>2. cmd \in Running /\ WorldInv /\ CommandInv /\ TypeOK
      BY <1>1, RunningFacts DEF WorldInv
<1>3. cmd.base \in [Path -> BaselineSlot] BY <1>2 DEF Running
<1>4. /\ disk'.active = disk.active /\ disk'.recovery = disk.recovery
      /\ disk'.baseline = cmd.base
      /\ disk' \in [active : Branch, baseline : [Path -> BaselineSlot],
                    recovery : Recovery \cup {NoRecovery}]
      BY <1>1, <1>2, <1>3 DEF TypeOK
<1>5. TypeOK' BY <1>1, <1>2, <1>4 DEF TypeOK, ghosts
<1>6. /\ ~Pending /\ cmd.branch = disk.active
      /\ \A p \in Path : /\ cmd.base[p] \in Content => OnBranch(cmd.branch, p, cmd.base[p])
                         /\ cmd.base[p] = Unknown => disk.baseline[p] = Unknown
      BY <1>1, <1>2 DEF CommandInv, PullPushOK
<1>7. WorldInv' BY <1>1, <1>2, <1>4, <1>5, <1>6, BaselinesMove
<1> QED BY <1>1, <1>7, CommandIdle DEF IInv

------------------------------------------------------------------------------
\* The environment.

LEMMA CrashKeeps ==
    ASSUME IInv, Crash
    PROVE  IInv'
<1>1. /\ cmd' = Idle /\ UNCHANGED <<local, disk, journal, commits, edits, edited, late>>
      /\ faults < MaxFaults /\ faults' = faults + 1 /\ torn' \in {torn, TRUE}
      BY DEF Crash
<1>2. WorldInv /\ TypeOK BY DEF IInv, WorldInv
<1>3. faults' \in 0..MaxFaults BY <1>1, <1>2, WorkstationAssumption DEF TypeOK
<1>4. torn' \in BOOLEAN BY <1>1, <1>2 DEF TypeOK
<1>5. TypeOK' BY <1>1, <1>2, <1>3, <1>4 DEF TypeOK
<1> QED BY <1>1, <1>2, <1>5, WorldStands, CommandIdle DEF IInv

LEMMA EditKeeps ==
    ASSUME IInv, NEW p \in Path, Edit(p)
    PROVE  IInv'
<1>1. PICK c \in Loose : local' = [local EXCEPT ![p] = c] BY DEF Edit, Loose
<1>2. /\ UNCHANGED <<disk, journal, torn, commits, cmd, faults>>
      /\ edits < MaxEdits /\ edits' = edits + 1
      /\ edited' = (disk.recovery # NoRecovery)
      /\ late' = (late \/ (At("replace") /\ cmd.path = p))
      BY DEF Edit
<1>3. WorldInv /\ TypeOK /\ CommandInv BY DEF IInv, WorldInv
<1>4. local' \in [Path -> RemoteSlot]
      BY <1>1, <1>3, WorkstationAssumption DEF TypeOK, Loose, RemoteSlot
<1>5. edited' \in BOOLEAN /\ late' \in BOOLEAN BY <1>2
<1>6. edits' \in 0..MaxEdits BY <1>2, <1>3, WorkstationAssumption DEF TypeOK
<1>7. TypeOK' BY <1>2, <1>3, <1>4, <1>5, <1>6 DEF TypeOK
<1>8. WorldInv' BY <1>1, <1>2, <1>3, <1>7, LocalMoves
<1>9. Remembers /\ CmdOK /\ PullPushOK /\ PullOK /\ SwitchOK
      BY <1>2, <1>3, SameHistory DEF CommandInv
<1>10. \A q \in Path : local'[q] \in Loose \cup {local[q]} BY <1>1, <1>3 DEF TypeOK
<1>11. CmdOK'
       <2>1. cmd # Idle /\ cmd.step = "replace" => late' \/ local'[cmd.path] = cmd.plan[cmd.path]
             <3> SUFFICES ASSUME cmd # Idle, cmd.step = "replace", cmd.path # p, ~late
                          PROVE  local'[cmd.path] = cmd.plan[cmd.path]
                 BY <1>2 DEF At
             <3>1. local[cmd.path] = cmd.plan[cmd.path] BY <1>9 DEF CmdOK
             <3>2. cmd.path \in Path BY <1>3 DEF TypeOK, Running
             <3> QED BY <1>1, <1>3, <3>1, <3>2 DEF TypeOK
       <2> QED BY <1>2, <1>9, <2>1 DEF CmdOK, Remembers, Working
<1>12. PullPushOK' BY <1>2, <1>9 DEF PullPushOK, Remembers, Pending, Filing, Working
<1>13. PullOK' BY <1>2, <1>9 DEF PullOK, Filing, Working
<1>14. SwitchOK'
       <2>1. Pending => /\ Tree(disk.recovery.head)' = Tree(disk.recovery.head)
                        /\ disk.recovery.files \subseteq Path
             BY <1>2, <1>3, <1>9 DEF WorldInv, RecoveryOK, Remembers, TypeOK, Recovery, Pending
       <2> QED BY <1>2, <1>9, <1>10, <2>1 DEF SwitchOK, Filing, Working, Pending, Loose
<1> QED BY <1>8, <1>11, <1>12, <1>13, <1>14 DEF IInv, CommandInv

LEMMA RemotePushKeeps ==
    ASSUME IInv, NEW b \in Branch, NEW p \in Path, RemotePush(b, p)
    PROVE  IInv'
<1> DEFINE head == Tree(HeadOf(b))
<1>1. WorldInv /\ TypeOK /\ CommandInv BY DEF IInv, WorldInv
<1>2. PICK c \in Foreign \cup {Absent} :
        commits' = Append(commits, [branch |-> b, tree |-> [head EXCEPT ![p] = c],
                                    mine |-> FALSE])
      BY DEF RemotePush
<1>3. UNCHANGED <<local, disk, journal, torn, cmd, ghosts>> BY DEF RemotePush
<1>4. head \in [Path -> RemoteSlot] BY <1>1, HeadFacts
<1> DEFINE x == [branch |-> b, tree |-> [head EXCEPT ![p] = c], mine |-> FALSE]
<1>5. x \in Commit /\ ~x.mine
      <2> HIDE DEF head
      <2> QED BY <1>4, WorkstationAssumption DEF Commit, RemoteSlot
<1>6. commits' = Append(commits, x) BY <1>2
<1> HIDE DEF x
<1>7. Remembers /\ commits' \in Seq(Commit) BY <1>1, <1>5, <1>6, LongerHistory
<1>8. TypeOK' BY <1>1, <1>3, <1>7 DEF TypeOK, ghosts
<1>9. WorldInv' BY <1>1, <1>3, <1>5, <1>6, <1>8, HistoryGrows
<1>10. CmdOK /\ PullPushOK /\ PullOK /\ SwitchOK BY <1>1 DEF CommandInv
<1>11. CmdOK' BY <1>3, <1>7, <1>10 DEF CmdOK, Remembers, Working, ghosts
<1>12. PullPushOK' BY <1>3, <1>7, <1>10 DEF PullPushOK, Remembers, Pending, Filing, Working
<1>13. PullOK' BY <1>3, <1>10 DEF PullOK, Filing, Working
<1>14. SwitchOK'
       <2>1. Pending => Tree(disk.recovery.head)' = Tree(disk.recovery.head)
             BY <1>1, <1>3, <1>7 DEF WorldInv, RecoveryOK, Remembers
       <2> QED BY <1>3, <1>10, <2>1 DEF SwitchOK, Filing, Working, Pending, Loose
<1> QED BY <1>9, <1>11, <1>12, <1>13, <1>14 DEF IInv, CommandInv

------------------------------------------------------------------------------
LEMMA InitImpliesInv == Init => IInv
<1> SUFFICES ASSUME Init PROVE IInv OBVIOUS
<1>1. /\ \A p \in Path : local[p] = Absent /\ disk.baseline[p] = Unknown
      /\ cmd = Idle /\ commits = FirstCommits /\ journal = {}
      /\ disk.recovery = NoRecovery
      BY DEF Init, Empty
<1>2. TypeOK
      <2> DEFINE Foreigners == [branch : Branch, tree : [Path -> RemoteSlot], mine : {FALSE}]
      <2>1. FirstCommits \in Seq(Commit)
            <3>1. Foreigners \subseteq Commit BY DEF Commit
            <3>2. FirstCommits \in Seq(Foreigners) BY WorkstationAssumption
            <3> HIDE DEF Foreigners
            <3> QED BY <3>1, <3>2, SeqMonotonic
      <2>2. local \in [Path -> RemoteSlot] BY DEF Init, Empty, RemoteSlot
      <2>3. disk \in [active : Branch, baseline : [Path -> BaselineSlot],
                      recovery : Recovery \cup {NoRecovery}]
            BY WorkstationAssumption DEF Init, BaselineSlot
      <2>4. edits \in 0..MaxEdits /\ faults \in 0..MaxFaults
            BY WorkstationAssumption DEF Init
      <2>5. journal \subseteq Entry /\ cmd \in Running \cup {Idle} BY DEF Init
      <2>6. torn \in BOOLEAN /\ edited \in BOOLEAN /\ late \in BOOLEAN BY DEF Init
      <2> QED BY <1>1, <2>1, <2>2, <2>3, <2>4, <2>5, <2>6 DEF TypeOK
<1>3. IsFiniteSet(journal) BY <1>1, FS_EmptySet
<1>4. BaselinesFollowBranch BY <1>1, SlotAssumption DEF BaselinesFollowBranch
<1>5. NoCrossBranchLeak
      <2>1. \A i \in 1..Len(commits) : ~commits[i].mine
            <3> DEFINE F == [branch : Branch, tree : [Path -> RemoteSlot], mine : {FALSE}]
            <3>1. commits \in Seq(F) BY <1>1, WorkstationAssumption
            <3>2. \A x \in F : ~x.mine OBVIOUS
            <3>3. \A i \in 1..Len(commits) : commits[i] \in F
                  <4> HIDE DEF F
                  <4> QED BY <3>1
            <3> QED BY <3>2, <3>3
      <2> QED BY <2>1 DEF NoCrossBranchLeak
<1>6. RecoveryOK BY <1>1 DEF RecoveryOK, Pending
<1>7. LocalOK /\ JournalOK BY <1>1 DEF LocalOK, JournalOK, Loose
<1>8. CommandInv BY <1>1 DEF CommandInv, CmdOK, PullPushOK, PullOK, SwitchOK
<1> QED BY <1>2, <1>3, <1>4, <1>5, <1>6, <1>7, <1>8 DEF IInv, WorldInv

LEMMA StutterKeeps ==
    ASSUME IInv, UNCHANGED vars
    PROVE  IInv'
<1>1. WorldInv /\ TypeOK /\ CommandInv BY DEF IInv, WorldInv
<1>2. TypeOK' BY <1>1 DEF TypeOK, vars
<1>3. WorldInv' BY <1>1, <1>2, WorldStands DEF vars
<1>4. Remembers /\ CmdOK /\ PullPushOK /\ PullOK /\ SwitchOK
      BY <1>1, SameHistory DEF CommandInv, vars
<1>5. CmdOK' BY <1>4 DEF CmdOK, Remembers, Working, vars
<1>6. PullPushOK' BY <1>4 DEF PullPushOK, Remembers, Pending, Filing, Working, vars
<1>7. PullOK' BY <1>4 DEF PullOK, Filing, Working, vars
<1>8. SwitchOK'
      <2>1. Pending => Tree(disk.recovery.head)' = Tree(disk.recovery.head)
            BY <1>1, <1>4 DEF WorldInv, RecoveryOK, Remembers, vars
      <2> QED BY <1>4, <2>1 DEF SwitchOK, Filing, Working, Pending, Loose, vars
<1> QED BY <1>3, <1>5, <1>6, <1>7, <1>8 DEF IInv, CommandInv

LEMMA NextKeepsInv == IInv /\ [Next]_vars => IInv'
<1> SUFFICES ASSUME IInv, [Next]_vars PROVE IInv' OBVIOUS
<1>1. CASE Start
      BY <1>1, PullNothingKeeps, PullBeginKeeps, PushNothingKeeps, PushPublishKeeps,
         SwitchHereKeeps, SwitchBeginKeeps DEF Start
<1>2. CASE \E p \in Path : AlreadyThere(p) \/ AppendEntry(p)
      BY <1>2, AlreadyThereKeeps, AppendEntryKeeps
<1>3. CASE Guard \/ Recheck \/ Replace \/ Mark
      BY <1>3, GuardKeeps, RecheckKeeps, ReplaceKeeps, MarkKeeps
<1>4. CASE PullSave \/ SwitchVerify \/ SettleEntry \/ Settled
      BY <1>4, PullSaveKeeps, SwitchVerifyKeeps, SettleEntryKeeps, SettledKeeps
<1>5. CASE SwitchSave \/ ClearAcknowledged \/ PushSave
      BY <1>5, SwitchSaveKeeps, ClearAcknowledgedKeeps, PushSaveKeeps
<1>6. CASE Crash BY <1>6, CrashKeeps
<1>7. CASE \E p \in Path : Edit(p) \/ (\E b \in Branch : RemotePush(b, p))
      BY <1>7, EditKeeps, RemotePushKeeps
<1>8. CASE UNCHANGED vars BY <1>8, StutterKeeps
<1> QED BY <1>1, <1>2, <1>3, <1>4, <1>5, <1>6, <1>7, <1>8 DEF Next, FileStep

\* Whatever is interrupted or edited, a baseline is a file some commit of the
\* active branch has: switch saves branch and baselines in one step, and pull and
\* push save what they compared on the branch they began on.
THEOREM StateFollowsBranchAlways == Spec => []StateFollowsBranch
<1>1. IInv => StateFollowsBranch BY DEF IInv, WorldInv, StateFollowsBranch
<1> QED BY <1>1, InitImpliesInv, NextKeepsInv, PTL DEF Spec

\* A push publishes what was on its branch before or what the user typed: files of
\* a switch that was interrupted never reach the branch it came from.
THEOREM NoCrossBranchLeakAlways == Spec => []NoCrossBranchLeak
<1>1. IInv => NoCrossBranchLeak BY DEF IInv, WorldInv
<1> QED BY <1>1, InitImpliesInv, NextKeepsInv, PTL DEF Spec

\* Only the rename changes a file on behalf of a command.
LEMMA OverwriteIsCommitted ==
    ASSUME IInv, [Next]_vars, At("replace"), local' # local, edits' = edits,
           NEW p \in Path, local'[p] # local[p], ~late
    PROVE  local[p] \in Committed(p) \cup {Absent}
<1>1. edits \in Nat BY WorkstationAssumption DEF IInv, WorldInv, TypeOK
<1>2. Replace
      <2>1. \A q \in Path : ~Edit(q) BY <1>1 DEF Edit
      <2>2. ~Start
            BY DEF Start, At, PullNothing, PullBegin, PushNothing, PushPublish, SwitchHere,
                   SwitchBegin
      <2>3. FileStep
            BY <2>1, <2>2 DEF Next, vars, Crash, RemotePush
      <2> QED BY <2>3 DEF FileStep, AlreadyThere, AppendEntry, Guard, Recheck, Mark, PullSave,
                         SwitchVerify, SettleEntry, Settled, SwitchSave, ClearAcknowledged,
                         PushSave
<1>3. local' = [local EXCEPT ![cmd.path] = Target(cmd.path)] BY <1>2 DEF Replace
<1>4. local \in [Path -> RemoteSlot] BY DEF IInv, WorldInv, TypeOK
<1>5. p = cmd.path BY <1>3, <1>4
<1>6. Kept(p, local[p])
      BY <1>5 DEF IInv, CommandInv, CmdOK, At, Working
<1>7. \A i \in 1..Len(commits) : Tree(i) = commits[i].tree BY DEF Tree
<1> QED BY <1>6, <1>7 DEF Kept, Committed

\* What a command replaces or removes is kept by a commit, or the user edited the
\* file after the last check before the rename.
THEOREM OverwritesOnlyCommittedAlways == Spec => OverwritesOnlyCommitted
<1>1. IInv /\ [Next]_vars =>
        (At("replace") /\ local' # local /\ edits' = edits =>
           \A p \in Path : local'[p] # local[p] =>
              local[p] \in Committed(p) \cup {Absent} \/ late)
      BY OverwriteIsCommitted
<1> QED BY <1>1, InitImpliesInv, NextKeepsInv, PTL DEF Spec, OverwritesOnlyCommitted
=================================================================================
