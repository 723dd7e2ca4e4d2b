-------------------------- MODULE Synchronize_proofs --------------------------
(***************************************************************************)
(* For any paths, contents and scripts of the user: a push never undoes    *)
(* what others pushed, a pull never discards a local file it has not       *)
(* compared, and a command that ended well leaves nothing undone.          *)
(* For any history, vault and user: a rollback that is stopped and started *)
(* again never overwrites what no commit keeps and retires its journal     *)
(* only when it is done, and the journal and the vault's record agree.     *)
(* RollbackInv is what that needs: what the vault's records are (VaultOK), *)
(* what the journal says of them while a rollback is pending (RecoveryOK), *)
(* and what the running command has read of both (CmdOK).                  *)
(* For any files, paths, users and interruptions: a synchronization with   *)
(* Confluence that reports success leaves a mirror of the files, deletes   *)
(* only what is stale, and writes over nothing that it has not read.       *)
(* WikiInv is what that needs: the space is a tree, and at each of its     *)
(* steps the run knows what it has mapped (MappedOK), which files are done *)
(* (DoneOK), where it is (EntryOK) and what is to be deleted (PruneOK), as *)
(* far as others have not touched it. What others do is one relation       *)
(* between two spaces (ByOthers), and keeps all of that. And the next run  *)
(* over files and a space that nobody touched writes nothing. CalmInv is   *)
(* what that needs: what such a run leaves (Settled), and that the next    *)
(* one comes to the same pages (SecondOK). ConfluenceInvariants states     *)
(* both.                                                                   *)
(* For any history of records, whatever is missing: the traversals of      *)
(* graph.ts find the ancestors, cycles, heads and closures that there are. *)
(* Each is a loop, with what is known after n of its turns (WalkOK,        *)
(* VisitOK, ReachOK); none takes more turns than there are commits.        *)
(***************************************************************************)
EXTENDS Synchronize, ConfluenceInvariants, FiniteSetTheorems, NaturalsInduction, WellFoundedInduction, TLAPS

\* A path is uploaded only when its remote version is the baseline or there is
\* none (compareFile, status.ts 175-213, and planSync, plan.ts 232-261).
LEMMA UploadsSeen ==
    ASSUME NEW p \in Path, NEW b, NEW l, NEW r,
           Syncing!CompareFile(b, l, r) \in {"local-added", "local-modified", "local-deleted"}
    PROVE  r = Absent \/ r = b
BY DEF Syncing!CompareFile, Syncing!CompareUnbased, Syncing!LocalChange, Syncing!RemoteChange

\* A path is downloaded or deleted only when the local file is the baseline or
\* there is none, and it could be read.
LEMMA DownloadsSeen ==
    ASSUME NEW p \in Path, NEW b, NEW l, NEW r,
           Syncing!CompareFile(b, l, r) \in {"remote-added", "remote-modified", "remote-deleted"}
    PROVE  (l = Absent \/ l = b) /\ l # Unreadable
BY DEF Syncing!CompareFile, Syncing!CompareUnbased, Syncing!LocalChange, Syncing!RemoteChange

\* What an upload publishes is a content.
LEMMA UploadsPresent ==
    ASSUME NEW l \in Syncing!LocalSlot, NEW b \in Syncing!BaselineSlot, NEW r \in Syncing!RemoteSlot,
           Syncing!CompareFile(b, l, r) \in {"local-added", "local-modified"}
    PROVE  l \in Content
BY SlotAssumption
   DEF Syncing!CompareFile, Syncing!CompareUnbased, Syncing!LocalChange, Syncing!RemoteChange,
        Syncing!LocalSlot, Syncing!RemoteSlot, Syncing!BaselineSlot

LEMMA TreeType ==
    ASSUME Syncing!TypeOK, NEW selected \in SUBSET Path, NEW allowDelete \in BOOLEAN
    PROVE  Syncing!ResultingTree(syncBaseline, syncLocal, remote, selected, allowDelete) \in [Path -> Syncing!RemoteSlot]
<1>1. SUFFICES ASSUME NEW p \in Path
               PROVE  Syncing!ResultingTree(syncBaseline, syncLocal, remote, selected, allowDelete)[p] \in Syncing!RemoteSlot
      BY DEF Syncing!ResultingTree
<1>2. CASE p \in Syncing!Uploads(syncBaseline, syncLocal, remote, selected)
      BY <1>2, UploadsPresent DEF Syncing!Uploads, Syncing!WithStatus, Syncing!StatusOf,
           Syncing!ResultingTree, Syncing!TypeOK, Syncing!RemoteSlot
<1>3. CASE p \notin Syncing!Uploads(syncBaseline, syncLocal, remote, selected)
      BY <1>3 DEF Syncing!ResultingTree, Syncing!TypeOK, Syncing!RemoteSlot
<1> QED BY <1>2, <1>3

\* Type correctness of Sync.
LEMMA SyncTypes == Syncing!Spec => []Syncing!TypeOK
<1>1. Syncing!Init => Syncing!TypeOK
      BY DEF Syncing!Init, Syncing!TypeOK, Syncing!RemoteSlot, Syncing!LocalSlot,
           Syncing!BaselineSlot
<1>2. Syncing!TypeOK /\ [Syncing!Next]_(Syncing!vars) => Syncing!TypeOK'
      <2> SUFFICES ASSUME Syncing!TypeOK, [Syncing!Next]_(Syncing!vars) PROVE Syncing!TypeOK'
          OBVIOUS
      <2>1. ASSUME NEW p \in Path, Syncing!Edit(p) PROVE Syncing!TypeOK'
            BY <2>1 DEF Syncing!Edit, Syncing!TypeOK
      <2>2. ASSUME NEW p \in Path, Syncing!RemoteEdit(p) PROVE Syncing!TypeOK'
            BY <2>2 DEF Syncing!RemoteEdit, Syncing!TypeOK
      <2>3. ASSUME NEW selected \in SUBSET Path, NEW allowDelete \in BOOLEAN,
                   Syncing!Push(selected, allowDelete)
            PROVE  Syncing!TypeOK'
            <3>1. remote' \in [Path -> Syncing!RemoteSlot]
                  BY <2>3, TreeType DEF Syncing!Push
            <3>2. syncBaseline' \in [Path -> Syncing!BaselineSlot]
                  BY <2>3, TreeType DEF Syncing!Push, Syncing!AcknowledgeClean,
                       Syncing!TypeOK, Syncing!BaselineSlot
            <3> QED BY <2>3, <3>1, <3>2 DEF Syncing!Push, Syncing!TypeOK
      <2>4. ASSUME NEW selected \in SUBSET Path, NEW allowDelete \in BOOLEAN,
                   Syncing!Pull(selected, allowDelete)
            PROVE  Syncing!TypeOK'
            <3>1. syncLocal' \in [Path -> Syncing!LocalSlot]
                  BY <2>4 DEF Syncing!Pull, Syncing!TypeOK, Syncing!LocalSlot
            <3>2. syncBaseline' \in [Path -> Syncing!BaselineSlot]
                  BY <2>4 DEF Syncing!Pull, Syncing!AcknowledgeClean, Syncing!TypeOK,
                       Syncing!BaselineSlot
            <3> QED BY <2>4, <3>1, <3>2 DEF Syncing!Pull, Syncing!TypeOK
      <2>5. CASE UNCHANGED Syncing!vars
            BY <2>5 DEF Syncing!vars, Syncing!TypeOK
      <2> QED BY <2>1, <2>2, <2>3, <2>4, <2>5 DEF Syncing!Next
<1> QED BY <1>1, <1>2, PTL DEF Syncing!Spec

\* A push never overwrites or deletes a remote version other than the one the
\* workstation last synchronized (push.ts, plan.ts 232-261).
LEMMA SyncPush == Syncing!Spec => Syncing!PushRespectsRemote
<1>1. ASSUME Syncing!TypeOK, [Syncing!Next]_(Syncing!vars),
             NEW p \in Path, NEW selected \in SUBSET Path, NEW allowDelete \in BOOLEAN,
             Syncing!Push(selected, allowDelete), remote[p] # Absent, remote'[p] # remote[p]
      PROVE  remote[p] = syncBaseline[p] /\ p \in selected
      <2>1. p \in Syncing!Uploads(syncBaseline, syncLocal, remote, selected)
              \cup Syncing!RemoteDeletions(syncBaseline, syncLocal, remote, selected, allowDelete)
            BY <1>1 DEF Syncing!Push, Syncing!ResultingTree
      <2>2. /\ p \in selected
            /\ Syncing!CompareFile(syncBaseline[p], syncLocal[p], remote[p])
                 \in {"local-added", "local-modified", "local-deleted"}
            BY <2>1 DEF Syncing!Uploads, Syncing!RemoteDeletions, Syncing!WithStatus,
                 Syncing!StatusOf
      <2> QED BY <1>1, <2>2, UploadsSeen
<1>2. Syncing!TypeOK /\ [Syncing!Next]_(Syncing!vars) =>
        [\A p \in Path : \A selected \in SUBSET Path, allowDelete \in BOOLEAN :
          /\ remote[p] # Absent /\ remote'[p] # remote[p]
          /\ Syncing!Push(selected, allowDelete)
          => remote[p] = syncBaseline[p] /\ p \in selected]_(Syncing!vars)
      BY <1>1
<1> QED BY <1>2, SyncTypes, PTL DEF Syncing!Spec, Syncing!PushRespectsRemote

\* A pull never overwrites or deletes a local file other than the one the last
\* synchronization left (pull.ts, plan.ts 262-289).
LEMMA SyncPull == Syncing!Spec => Syncing!PullRespectsLocal
<1>1. ASSUME Syncing!TypeOK, [Syncing!Next]_(Syncing!vars),
             NEW p \in Path, NEW selected \in SUBSET Path, NEW allowDelete \in BOOLEAN,
             Syncing!Pull(selected, allowDelete), syncLocal[p] # Absent, syncLocal'[p] # syncLocal[p]
      PROVE  syncLocal[p] = syncBaseline[p] /\ p \in selected
      <2>1. p \in Syncing!Downloads(syncBaseline, syncLocal, remote, selected)
              \cup Syncing!LocalDeletions(syncBaseline, syncLocal, remote, selected, allowDelete)
            BY <1>1 DEF Syncing!Pull, Syncing!TypeOK
      <2>2. /\ p \in selected
            /\ Syncing!CompareFile(syncBaseline[p], syncLocal[p], remote[p])
                 \in {"remote-added", "remote-modified", "remote-deleted"}
            BY <2>1 DEF Syncing!Downloads, Syncing!LocalDeletions, Syncing!WithStatus,
                 Syncing!StatusOf
      <2> QED BY <1>1, <2>2, DownloadsSeen
<1>2. Syncing!TypeOK /\ [Syncing!Next]_(Syncing!vars) =>
        [\A p \in Path : \A selected \in SUBSET Path, allowDelete \in BOOLEAN :
          /\ syncLocal[p] # Absent /\ syncLocal'[p] # syncLocal[p]
          /\ Syncing!Pull(selected, allowDelete)
          => syncLocal[p] = syncBaseline[p] /\ p \in selected]_(Syncing!vars)
      BY <1>1
<1> QED BY <1>2, SyncTypes, PTL DEF Syncing!Spec, Syncing!PullRespectsLocal

Uploading == {"local-added", "local-modified"}
Downloading == {"remote-added", "remote-modified"}
Refusing == {"conflict", "unbased-conflict", "local-error"}

\* A path that a push has dealt with has nothing to push (planSync, plan.ts 232-261).
LEMMA PushSettles ==
    ASSUME NEW b \in Syncing!BaselineSlot, NEW l \in Syncing!LocalSlot, NEW r \in Syncing!RemoteSlot,
           NEW t, NEW c, NEW allowDelete \in BOOLEAN,
           Syncing!CompareFile(b, l, r) \notin Refusing,
           t = IF Syncing!CompareFile(b, l, r) \in Uploading THEN l
               ELSE IF Syncing!CompareFile(b, l, r) = "local-deleted" /\ allowDelete THEN Absent ELSE r,
           c = IF l = t THEN t ELSE b
    PROVE  /\ Syncing!CompareFile(c, l, t) \notin Uploading \cup Refusing
           /\ ~(Syncing!CompareFile(c, l, t) = "local-deleted" /\ allowDelete)
BY SlotAssumption
   DEF Syncing!CompareFile, Syncing!CompareUnbased, Syncing!LocalChange, Syncing!RemoteChange,
       Uploading, Refusing, Syncing!LocalSlot, Syncing!RemoteSlot, Syncing!BaselineSlot

\* A path that a pull has dealt with has nothing to pull (plan.ts 262-289).
LEMMA PullSettles ==
    ASSUME NEW b \in Syncing!BaselineSlot, NEW l \in Syncing!LocalSlot, NEW r \in Syncing!RemoteSlot,
           NEW m, NEW c, NEW allowDelete \in BOOLEAN,
           Syncing!CompareFile(b, l, r) \notin Refusing,
           m = IF \/ Syncing!CompareFile(b, l, r) \in Downloading
                  \/ Syncing!CompareFile(b, l, r) = "remote-deleted" /\ allowDelete
               THEN r ELSE l,
           c = IF /\ m = r
                  /\ ~(Syncing!CompareFile(b, l, r) = "remote-deleted" /\ ~allowDelete)
               THEN r ELSE b
    PROVE  /\ Syncing!CompareFile(c, m, r) \notin Downloading \cup Refusing
           /\ ~(Syncing!CompareFile(c, m, r) = "remote-deleted" /\ allowDelete)
BY SlotAssumption
   DEF Syncing!CompareFile, Syncing!CompareUnbased, Syncing!LocalChange, Syncing!RemoteChange,
       Downloading, Refusing, Syncing!LocalSlot, Syncing!RemoteSlot, Syncing!BaselineSlot

\* One command is enough: nothing selected is left to push after a push, or to pull after
\* a pull, and neither makes a conflict (push.ts, pull.ts).
LEMMA SyncEnough == Syncing!Spec => Syncing!SyncedAfterCommand
<1>1. ASSUME Syncing!TypeOK, NEW selected \in SUBSET Path, NEW allowDelete \in BOOLEAN,
             Syncing!Push(selected, allowDelete)
      PROVE  /\ Syncing!PushNoop(syncBaseline', syncLocal', remote', selected, allowDelete)
             /\ ~Syncing!PlanRefused(syncBaseline', syncLocal', remote', selected)
      <2>1. ASSUME NEW p \in selected
            PROVE  LET s == Syncing!CompareFile(syncBaseline'[p], syncLocal'[p], remote'[p])
                   IN  s \notin Uploading \cup Refusing /\ ~(s = "local-deleted" /\ allowDelete)
            <3> DEFINE s0 == Syncing!CompareFile(syncBaseline[p], syncLocal[p], remote[p])
            <3>1. s0 \notin Refusing
                  BY <1>1 DEF Syncing!Push, Syncing!PlanRefused, Syncing!StatusOf,
                       Syncing!Conflicting, Refusing
            <3>2. remote'[p] = IF s0 \in Uploading THEN syncLocal[p]
                               ELSE IF s0 = "local-deleted" /\ allowDelete THEN Absent
                               ELSE remote[p]
                  BY <1>1 DEF Syncing!Push, Syncing!ResultingTree, Syncing!Uploads,
                       Syncing!RemoteDeletions, Syncing!WithStatus, Syncing!StatusOf, Uploading
            <3>3. /\ syncBaseline'[p] = IF syncLocal[p] = remote'[p] THEN remote'[p]
                                        ELSE syncBaseline[p]
                  /\ syncLocal'[p] = syncLocal[p]
                  BY <1>1 DEF Syncing!Push, Syncing!AcknowledgeClean
            <3>4. /\ syncBaseline[p] \in Syncing!BaselineSlot
                  /\ syncLocal[p] \in Syncing!LocalSlot /\ remote[p] \in Syncing!RemoteSlot
                  BY <1>1 DEF Syncing!TypeOK
            <3> HIDE DEF s0
            <3> QED BY <3>1, <3>2, <3>3, <3>4, PushSettles DEF s0
      <2> QED BY <2>1 DEF Syncing!PushNoop, Syncing!Uploads, Syncing!RemoteDeletions,
           Syncing!PlanRefused, Syncing!WithStatus, Syncing!StatusOf, Syncing!Conflicting,
           Uploading, Refusing
<1>2. ASSUME Syncing!TypeOK, NEW selected \in SUBSET Path, NEW allowDelete \in BOOLEAN,
             Syncing!Pull(selected, allowDelete)
      PROVE  /\ Syncing!PullNoop(syncBaseline', syncLocal', remote', selected, allowDelete)
             /\ ~Syncing!PlanRefused(syncBaseline', syncLocal', remote', selected)
      <2>1. ASSUME NEW p \in selected
            PROVE  LET s == Syncing!CompareFile(syncBaseline'[p], syncLocal'[p], remote'[p])
                   IN  s \notin Downloading \cup Refusing /\ ~(s = "remote-deleted" /\ allowDelete)
            <3> DEFINE s0 == Syncing!CompareFile(syncBaseline[p], syncLocal[p], remote[p])
            <3>1. s0 \notin Refusing
                  BY <1>2 DEF Syncing!Pull, Syncing!PlanRefused, Syncing!StatusOf,
                       Syncing!Conflicting, Refusing
            <3>2. syncLocal'[p] = IF s0 \in Downloading \/ (s0 = "remote-deleted" /\ allowDelete)
                                  THEN remote[p] ELSE syncLocal[p]
                  BY <1>2 DEF Syncing!Pull, Syncing!Downloads, Syncing!LocalDeletions,
                       Syncing!WithStatus, Syncing!StatusOf, Downloading
            <3>3. /\ syncBaseline'[p] =
                        IF syncLocal'[p] = remote[p] /\ ~(s0 = "remote-deleted" /\ ~allowDelete)
                        THEN remote[p] ELSE syncBaseline[p]
                  /\ remote'[p] = remote[p]
                  BY <1>2 DEF Syncing!Pull, Syncing!AcknowledgeClean,
                       Syncing!PendingLocalDeletions, Syncing!WithStatus, Syncing!StatusOf
            <3>4. /\ syncBaseline[p] \in Syncing!BaselineSlot
                  /\ syncLocal[p] \in Syncing!LocalSlot /\ remote[p] \in Syncing!RemoteSlot
                  BY <1>2 DEF Syncing!TypeOK
            <3> HIDE DEF s0
            <3> QED BY <3>1, <3>2, <3>3, <3>4, PullSettles DEF s0
      <2> QED BY <2>1 DEF Syncing!PullNoop, Syncing!Downloads, Syncing!LocalDeletions,
           Syncing!PlanRefused, Syncing!WithStatus, Syncing!StatusOf, Syncing!Conflicting,
           Downloading, Refusing
<1>3. Syncing!TypeOK /\ [Syncing!Next]_(Syncing!vars) =>
        [(Syncing!vars)' # Syncing!vars => \A selected \in SUBSET Path, allowDelete \in BOOLEAN :
           /\ Syncing!Push(selected, allowDelete) =>
                /\ Syncing!PushNoop(syncBaseline', syncLocal', remote', selected, allowDelete)
                /\ ~Syncing!PlanRefused(syncBaseline', syncLocal', remote', selected)
           /\ Syncing!Pull(selected, allowDelete) =>
                /\ Syncing!PullNoop(syncBaseline', syncLocal', remote', selected, allowDelete)
                /\ ~Syncing!PlanRefused(syncBaseline', syncLocal', remote', selected)]_(Syncing!vars)
      BY <1>1, <1>2
<1> QED BY <1>3, SyncTypes, PTL DEF Syncing!Spec, Syncing!SyncedAfterCommand

\* A behaviour of the parts is one of Sync.
LEMMA IsSync == FileSpec => Syncing!Spec
<1>1. FileInit => Syncing!Init
      BY DEF FileInit
<1>2. [FileNext]_fileVars => [Syncing!Next]_(Syncing!vars)
      BY DEF FileNext, InWiki, InSync, InRollback, InGraph, fileVars, syncVars, Syncing!vars
<1> QED BY <1>1, <1>2, PTL DEF FileSpec, Syncing!Spec

\* A push never overwrites or deletes a remote version other than the one the
\* workstation last synchronized (push.ts, plan.ts 232-261).
THEOREM PushIsSafe == FileSpec => PushRespectsRemote
BY IsSync, SyncPush, PTL DEF PushRespectsRemote

\* A pull never overwrites or deletes a local file other than the one the last
\* synchronization left (pull.ts, plan.ts 262-289).
THEOREM PullIsSafe == FileSpec => PullRespectsLocal
BY IsSync, SyncPull, PTL DEF PullRespectsLocal

\* One command is enough: nothing is left to do after it, and it makes no conflict
\* (push.ts, pull.ts, plan.ts 232-289).
THEOREM CommandIsEnough == FileSpec => SyncedAfterCommand
BY IsSync, SyncEnough, PTL DEF SyncedAfterCommand

------------------------------------------------------------------------------
\* Rollback

\* The commit that an operation record stands for.
AsCommit(r, source) ==
    [id |-> r.id, parents |-> {source}, blob |-> r.blob, kind |-> "rollback", time |-> r.time]

\* The contents that some commit keeps.
Committed == {Roll!SlotOf(c.blob) : c \in accepted} \cup {Absent}

\* Of one id there is one commit, and one operation record.
VaultOK ==
    /\ IsFiniteSet(accepted) /\ IsFiniteSet(records) /\ Roll!DuplicatesAgree
    /\ \A r, s \in records : r.id = s.id => r = s

\* A recovery record has an operation record, and what was published for it is its commit.
RecoveryOK ==
    Roll!Pending =>
      /\ recovery.preimage \in Committed
      /\ \E r \in records :
           /\ r.id = recovery.id /\ r.blob = recovery.blob
           /\ \A c \in accepted : c.id = recovery.id => c = AsCommit(r, recovery.source)

Operation(c) == [id |-> c.id, blob |-> c.blob, time |-> c.time]

\* What a running rollback may rely on: it replaces what some commit keeps, it publishes
\* what the recovery record says, and after that the recovery record may go.
CmdOK ==
    cmd # Roll!Idle =>
      /\ cmd.seen \in Committed
      /\ cmd.step = "save-recovery" =>
           /\ ~Roll!Pending /\ Operation(cmd) \in records /\ \A c \in accepted : c.id # cmd.id
      /\ cmd.step \in {"recheck-heads", "publish"} =>
           /\ Roll!Pending /\ Operation(cmd) \in records
           /\ recovery.id = cmd.id /\ recovery.source = cmd.head /\ recovery.blob = cmd.blob
      /\ cmd.step \in {"observe", "recheck", "replace", "verify", "save"} /\ Roll!Pending =>
           recovery.blob = cmd.blob /\ \E c \in accepted : c.id = recovery.id
      /\ cmd.step = "replace" => local = cmd.seen \/ late

RollbackInv == Roll!TypeOK /\ VaultOK /\ RecoveryOK /\ CmdOK

LEMMA CleanIsEqual ==
    ASSUME NEW b, NEW l, NEW r, Roll!CompareFile(b, l, r) = "clean"
    PROVE  l = r
BY DEF Roll!CompareFile, Roll!CompareUnbased, Roll!LocalChange, Roll!RemoteChange

LEMMA SlotType ==
    ASSUME NEW revision \in Roll!Revision
    PROVE  Roll!SlotOf(revision) \in Roll!RemoteSlot
BY AssumptionOfRollback DEF Roll!RollbackAssumption, Roll!SlotOf, Roll!Revision, Roll!RemoteSlot

\* A running command is told from none, and so is a recovery record.
LEMMA Distinct == Roll!NoRecovery \notin Roll!Recovery /\ Roll!Idle \notin Roll!Running
BY DEF Roll!NoRecovery, Roll!Recovery, Roll!Idle, Roll!Running

\* The listed commits, and so the heads, are in the vault.
LEMMA HeadsAccepted ==
    ASSUME Roll!TypeOK, NEW h \in listed
    PROVE  /\ h \in accepted /\ h \in Roll!CommitRecord
           /\ Roll!SlotOf(h.blob) \in Committed
BY DEF Roll!TypeOK, Committed

\* The new id of an operation or of a commit is nobody's.
LEMMA FreshIdIsFresh ==
    ASSUME Roll!TypeOK, VaultOK
    PROVE  /\ Roll!FreshId \in Nat
           /\ \A c \in accepted : c.id # Roll!FreshId
           /\ \A r \in records : r.id # Roll!FreshId
           /\ Roll!Pending => recovery.id # Roll!FreshId
<1> DEFINE published == {c.id : c \in accepted}
           operations == {r.id : r \in records}
           more == IF recovery = Roll!NoRecovery THEN {} ELSE {recovery.id}
           used == published \cup operations \cup more
           n == Cardinality(used)
<1>1. IsFiniteSet(published)
      <2> DEFINE f == [c \in accepted |-> c.id]
      <2>1. f \in Surjection(accepted, published) /\ IsFiniteSet(accepted)
            BY DEF Surjection, VaultOK
      <2> HIDE DEF f, published
      <2> QED BY <2>1, FS_Surjection
<1>2. IsFiniteSet(operations)
      <2> DEFINE f == [r \in records |-> r.id]
      <2>1. f \in Surjection(records, operations) /\ IsFiniteSet(records)
            BY DEF Surjection, VaultOK
      <2> HIDE DEF f, operations
      <2> QED BY <2>1, FS_Surjection
<1>3. IsFiniteSet(more) BY FS_EmptySet, FS_Singleton
<1>4. IsFiniteSet(used)
      <2> HIDE DEF published, operations, more
      <2> QED BY <1>1, <1>2, <1>3, FS_Union
<1>5. n \in Nat
      <2> HIDE DEF used
      <2> QED BY <1>4, FS_CardinalityType
<1>6. \E k \in 1..(n + 1) : k \notin used
      <2> SUFFICES ASSUME 1..(n + 1) \subseteq used PROVE FALSE OBVIOUS
      <2>1. Cardinality(1..(n + 1)) = n + 1
            <3> HIDE DEF n
            <3> QED BY <1>5, FS_Interval
      <2>2. Cardinality(1..(n + 1)) <= Cardinality(used)
            <3> HIDE DEF used, n
            <3> QED BY <1>4, FS_Subset
      <2> HIDE DEF used
      <2> QED BY <1>5, <2>1, <2>2
<1>7. Roll!FreshId = CHOOSE k \in 1..(n + 1) : k \notin used BY DEF Roll!FreshId,
                                                                 Roll!Cardinality, Cardinality,
                                                                 Roll!IsFiniteSet, IsFiniteSet
<1>8. Roll!FreshId \in 1..(n + 1) /\ Roll!FreshId \notin used
      <2> HIDE DEF used, n
      <2> QED BY <1>6, <1>7
<1>9. Roll!FreshId \in Nat
      <2> HIDE DEF n
      <2> QED BY <1>5, <1>8
<1>10. \A c \in accepted : c.id # Roll!FreshId BY <1>8
<1>11. \A r \in records : r.id # Roll!FreshId BY <1>8
<1>12. Roll!Pending => recovery.id # Roll!FreshId BY <1>8 DEF Roll!Pending
<1> QED BY <1>9, <1>10, <1>11, <1>12

\* What is in the vault, and what a pending rollback is, do not change by themselves.
LEMMA VaultSame == VaultOK /\ UNCHANGED <<accepted, records>> => VaultOK'
BY DEF VaultOK, Roll!DuplicatesAgree

LEMMA RecoverySame == RecoveryOK /\ UNCHANGED <<accepted, records, recovery>> => RecoveryOK'
BY DEF RecoveryOK, Roll!Pending, Committed

LEMMA CommandEnds == cmd' = Roll!Idle => CmdOK'
BY DEF CmdOK

LEMMA CommandSame ==
    ASSUME CmdOK, UNCHANGED <<accepted, records, recovery, cmd>>,
           Roll!At("replace") => late' \/ (UNCHANGED <<local, late>>)
    PROVE  CmdOK'
BY DEF CmdOK, Roll!Pending, Committed, Roll!At

\* A command moves on.
LEMMA CommandMoves ==
    ASSUME RollbackInv, cmd # Roll!Idle, UNCHANGED <<accepted, records, recovery>>,
           NEW step \in {"publish", "recheck", "replace", "verify", "save"}, Roll!Go(step),
           step = "publish" => cmd.step = "recheck-heads",
           step # "publish" => cmd.step \in {"observe", "recheck", "replace", "verify"},
           step = "replace" => local' = cmd.seen
    PROVE  CmdOK'
<1>1. cmd \in Roll!Running
      BY Distinct DEF RollbackInv, Roll!TypeOK
<1>2. cmd' = [cmd EXCEPT !.step = step] /\ cmd'.step = step
      BY <1>1 DEF Roll!Go, Roll!Running
<1>3. /\ cmd'.seen = cmd.seen /\ cmd'.blob = cmd.blob /\ cmd'.id = cmd.id
      /\ cmd'.head = cmd.head /\ cmd'.time = cmd.time
      BY <1>1, <1>2 DEF Roll!Running
<1>4. CmdOK /\ Committed' = Committed /\ Roll!Pending' = Roll!Pending
      BY DEF RollbackInv, Committed, Roll!Pending
<1> QED BY <1>2, <1>3, <1>4 DEF CmdOK, Operation

LEMMA MoveTypes ==
    ASSUME Roll!TypeOK, cmd # Roll!Idle,
           NEW step \in {"recheck-heads", "publish", "observe", "recheck", "replace", "verify", "save"},
           Roll!Go(step)
    PROVE  cmd' \in Roll!Running
BY DEF Roll!TypeOK, Roll!Go, Roll!Running

LEMMA RecheckHeadsKeeps == RollbackInv /\ Roll!RecheckHeads => RollbackInv'
<1> SUFFICES ASSUME RollbackInv, Roll!RecheckHeads PROVE RollbackInv'
    OBVIOUS
<1>1. VaultOK' /\ RecoveryOK'
      BY VaultSame, RecoverySame DEF RollbackInv, Roll!RecheckHeads, Roll!remoteVars
<1>2. Roll!Go("publish") \/ Roll!Stop
      BY DEF Roll!RecheckHeads
<1>3. Roll!TypeOK'
      BY <1>2, MoveTypes DEF RollbackInv, Roll!TypeOK, Roll!RecheckHeads, Roll!At, Roll!Stop,
          Roll!remoteVars, Roll!ghosts
<1>4. CmdOK'
      BY <1>2, CommandEnds, CommandMoves DEF Roll!RecheckHeads, Roll!At, Roll!Stop,
          Roll!remoteVars
<1> QED BY <1>1, <1>3, <1>4 DEF RollbackInv

LEMMA ObserveKeeps == RollbackInv /\ Roll!Observe => RollbackInv'
<1> SUFFICES ASSUME RollbackInv, Roll!Observe PROVE RollbackInv'
    OBVIOUS
<1>1. VaultOK' /\ RecoveryOK'
      BY VaultSame, RecoverySame DEF RollbackInv, Roll!Observe, Roll!remoteVars
<1>2. Roll!Go("recheck") \/ Roll!Stop
      BY DEF Roll!Observe
<1>3. Roll!TypeOK'
      BY <1>2, MoveTypes DEF RollbackInv, Roll!TypeOK, Roll!Observe, Roll!At, Roll!Stop,
          Roll!remoteVars, Roll!ghosts
<1>4. CmdOK'
      BY <1>2, CommandEnds, CommandMoves DEF Roll!Observe, Roll!At, Roll!Stop, Roll!remoteVars
<1> QED BY <1>1, <1>3, <1>4 DEF RollbackInv

LEMMA RecheckKeeps == RollbackInv /\ Roll!Recheck => RollbackInv'
<1> SUFFICES ASSUME RollbackInv, Roll!Recheck PROVE RollbackInv'
    OBVIOUS
<1>1. VaultOK' /\ RecoveryOK'
      BY VaultSame, RecoverySame DEF RollbackInv, Roll!Recheck, Roll!remoteVars
<1>2. (Roll!Go("replace") /\ local' = cmd.seen) \/ Roll!Stop
      BY DEF Roll!Recheck
<1>3. Roll!TypeOK'
      BY <1>2, MoveTypes DEF RollbackInv, Roll!TypeOK, Roll!Recheck, Roll!At, Roll!Stop,
          Roll!remoteVars
<1>4. CmdOK'
      BY <1>2, CommandEnds, CommandMoves DEF Roll!Recheck, Roll!At, Roll!Stop, Roll!remoteVars
<1> QED BY <1>1, <1>3, <1>4 DEF RollbackInv

LEMMA ReplaceKeeps == RollbackInv /\ Roll!Replace => RollbackInv'
<1> SUFFICES ASSUME RollbackInv, Roll!Replace PROVE RollbackInv'
    OBVIOUS
<1>1. VaultOK' /\ RecoveryOK'
      BY VaultSame, RecoverySame DEF RollbackInv, Roll!Replace, Roll!remoteVars
<1>2. cmd \in Roll!Running
      BY Distinct DEF RollbackInv, Roll!TypeOK, Roll!Replace, Roll!At
<1>3. local' \in Roll!RemoteSlot
      BY <1>2, AssumptionOfRollback DEF Roll!RollbackAssumption, Roll!Replace, Roll!Running,
          Roll!RemoteSlot
<1>4. Roll!TypeOK'
      BY <1>3, MoveTypes DEF RollbackInv, Roll!TypeOK, Roll!Replace, Roll!At, Roll!remoteVars,
          Roll!ghosts
<1>5. CmdOK'
      BY CommandMoves DEF Roll!Replace, Roll!At, Roll!remoteVars
<1> QED BY <1>1, <1>4, <1>5 DEF RollbackInv

LEMMA VerifyKeeps == RollbackInv /\ Roll!Verify => RollbackInv'
<1> SUFFICES ASSUME RollbackInv, Roll!Verify PROVE RollbackInv'
    OBVIOUS
<1>1. VaultOK' /\ RecoveryOK'
      BY VaultSame, RecoverySame DEF RollbackInv, Roll!Verify, Roll!remoteVars
<1>2. Roll!Go("save") \/ Roll!Stop
      BY DEF Roll!Verify
<1>3. Roll!TypeOK'
      BY <1>2, MoveTypes DEF RollbackInv, Roll!TypeOK, Roll!Verify, Roll!At, Roll!Stop,
          Roll!remoteVars, Roll!ghosts
<1>4. CmdOK'
      BY <1>2, CommandEnds, CommandMoves DEF Roll!Verify, Roll!At, Roll!Stop, Roll!remoteVars
<1> QED BY <1>1, <1>3, <1>4 DEF RollbackInv

LEMMA SaveKeeps == RollbackInv /\ Roll!Save => RollbackInv'
<1> SUFFICES ASSUME RollbackInv, Roll!Save PROVE RollbackInv'
    OBVIOUS
<1>1. VaultOK'
      BY VaultSame DEF RollbackInv, Roll!Save, Roll!remoteVars
<1>2. RecoveryOK' /\ CmdOK'
      BY CommandEnds DEF Roll!Save, Roll!Stop, RecoveryOK, Roll!Pending
<1>3. cmd \in Roll!Running
      BY Distinct DEF RollbackInv, Roll!TypeOK, Roll!Save, Roll!At
<1>4. Roll!TypeOK'
      BY <1>3 DEF RollbackInv, Roll!TypeOK, Roll!Save, Roll!Stop, Roll!SavedBaseline,
          Roll!Running, Roll!Revision,
           Roll!remoteVars, Roll!ghosts
<1> QED BY <1>1, <1>2, <1>4 DEF RollbackInv

\* What a rollback begins with is a command, whose content some commit keeps.
LEMMA BeginFacts ==
    ASSUME RollbackInv, NEW h \in listed, NEW blob \in Blob, NEW id \in Nat,
           NEW time \in Time \cup {0}, NEW step \in {"save-recovery", "recheck-heads", "recheck", "verify"},
           Roll!Begin(h, blob, step, id, time)
    PROVE  /\ cmd' \in Roll!Running /\ cmd' # Roll!Idle
           /\ cmd'.step = step /\ cmd'.blob = blob /\ cmd'.head = h.id /\ cmd'.seen = local
           /\ cmd'.id = id /\ cmd'.time = time
<1>1. h.id \in Nat /\ local \in Roll!RemoteSlot
      BY HeadsAccepted DEF RollbackInv, Roll!TypeOK, Roll!CommitRecord
<1> QED BY <1>1, Distinct DEF Roll!Begin, Roll!Running

LEMMA AlreadyAcknowledgedKeeps ==
    ASSUME RollbackInv, NEW h \in listed, NEW blob \in Blob, Roll!AlreadyAcknowledged(h, blob)
    PROVE  RollbackInv'
<1>1. VaultOK'
      BY VaultSame DEF RollbackInv, Roll!AlreadyAcknowledged, Roll!remoteVars
<1>2. RecoveryOK' /\ CmdOK'
      BY DEF Roll!AlreadyAcknowledged, Roll!MayRoll, RecoveryOK, Roll!Pending, CmdOK
<1>3. Roll!TypeOK'
      BY DEF RollbackInv, Roll!TypeOK, Roll!AlreadyAcknowledged, Roll!remoteVars, Roll!ghosts
<1> QED BY <1>1, <1>2, <1>3 DEF RollbackInv

\* The preimage, and what is at its target, is kept by a commit.
LEMMA ConvergeKeeps ==
    ASSUME RollbackInv, NEW h \in listed, NEW blob \in Blob, Roll!Converge(h, blob)
    PROVE  RollbackInv'
<1>1. VaultOK' /\ RecoveryOK'
      BY VaultSame, RecoverySame DEF RollbackInv, Roll!Converge, Roll!remoteVars
<1>2. PICK step \in {"verify", "recheck"} : Roll!Begin(h, blob, step, h.id, 0)
      BY DEF Roll!Converge
<1>3. h \in accepted /\ h.id \in Nat /\ h.blob = blob /\ Roll!SlotOf(h.blob) \in Committed
      BY HeadsAccepted DEF Roll!Converge, RollbackInv, Roll!CommitRecord
<1>4. /\ cmd' \in Roll!Running /\ cmd'.step = step /\ cmd'.blob = blob /\ cmd'.seen = local
      BY <1>2, <1>3, BeginFacts
<1>5. Roll!TypeOK'
      BY <1>4 DEF RollbackInv, Roll!TypeOK, Roll!Converge, Roll!remoteVars, Roll!ghosts
<1>6. local \in Committed
      <2>1. CASE local = ContentOf[blob]
            BY <1>3, <2>1 DEF Roll!SlotOf
      <2>2. CASE Roll!Pending /\ local = recovery.preimage
            BY <2>2 DEF RollbackInv, RecoveryOK
      <2> QED BY <2>1, <2>2 DEF Roll!Converge, Roll!ConvergeAllowed, Roll!Proven
<1>7. Roll!Pending => recovery.blob = blob /\ h.id = recovery.id
      BY DEF Roll!Converge, Roll!MayRoll, Roll!Proven
<1>8. Committed' = Committed /\ Roll!Pending' = Roll!Pending /\ accepted' = accepted /\ recovery' = recovery
      BY DEF Roll!Converge, Committed, Roll!Pending, Roll!remoteVars
<1>9. CmdOK'
      BY <1>3, <1>4, <1>6, <1>7, <1>8 DEF CmdOK
<1> QED BY <1>1, <1>5, <1>9 DEF RollbackInv

LEMMA PrepareKeeps ==
    ASSUME RollbackInv, NEW h \in listed, NEW blob \in Blob, NEW now \in Time, Roll!Prepare(h, blob, now)
    PROVE  RollbackInv'
<1> DEFINE r == [id |-> Roll!FreshId, blob |-> blob, time |-> now]
<1>1. /\ Roll!FreshId \in Nat
      /\ \A c \in accepted : c.id # Roll!FreshId
      /\ \A s \in records : s.id # Roll!FreshId
      BY FreshIdIsFresh DEF RollbackInv
<1>2. records' = records \cup {r} /\ ~Roll!Pending /\ Roll!Begin(h, blob, "save-recovery", Roll!FreshId, now)
      BY DEF Roll!Prepare
<1>3. /\ UNCHANGED <<accepted, listed, local, baseline, recovery, plan, edits, faults, edited, late>>
      /\ Committed' = Committed /\ ~Roll!Pending'
      BY <1>2 DEF Roll!Prepare, Roll!remoteVars, Roll!ghosts, Committed, Roll!Pending
<1>4. /\ cmd' \in Roll!Running /\ cmd'.step = "save-recovery" /\ cmd'.blob = blob /\ cmd'.seen = local
      /\ cmd'.id = Roll!FreshId /\ cmd'.time = now
      BY <1>1, <1>2, BeginFacts
<1>5. r \in [id : Nat, blob : Blob, time : Time] /\ r.id = Roll!FreshId
      BY <1>1
<1> HIDE DEF r
<1>6. Roll!TypeOK'
      BY <1>2, <1>3, <1>4, <1>5 DEF RollbackInv, Roll!TypeOK
<1>7. VaultOK'
      <2>1. IsFiniteSet(records')
            BY <1>2, FS_Singleton, FS_Union DEF RollbackInv, VaultOK
      <2>2. \A s, t \in records' : s.id = t.id => s = t
            BY <1>1, <1>2, <1>5 DEF RollbackInv, VaultOK
      <2> QED BY <1>3, <2>1, <2>2 DEF RollbackInv, VaultOK, Roll!DuplicatesAgree
<1>8. RecoveryOK'
      BY <1>3 DEF RecoveryOK
<1>9. local \in Committed
      BY HeadsAccepted, CleanIsEqual DEF Roll!Prepare, Roll!CleanForRollback, Roll!Status,
          RollbackInv
<1>10. Operation(cmd') \in records'
      BY <1>2, <1>4 DEF Operation, r
<1>11. CmdOK'
      BY <1>1, <1>3, <1>4, <1>9, <1>10 DEF CmdOK, Operation
<1> QED BY <1>6, <1>7, <1>8, <1>11 DEF RollbackInv

LEMMA SaveRecoveryKeeps == RollbackInv /\ Roll!SaveRecovery => RollbackInv'
<1> SUFFICES ASSUME RollbackInv, Roll!SaveRecovery PROVE RollbackInv'
    OBVIOUS
<1> DEFINE saved == [id |-> cmd.id, source |-> cmd.head, blob |-> cmd.blob, preimage |-> cmd.seen]
<1>1. cmd \in Roll!Running /\ cmd # Roll!Idle /\ cmd.step = "save-recovery"
      BY Distinct DEF RollbackInv, Roll!TypeOK, Roll!SaveRecovery, Roll!At
<1>2. /\ cmd.seen \in Committed /\ Operation(cmd) \in records
      /\ \A c \in accepted : c.id # cmd.id
      BY <1>1 DEF RollbackInv, CmdOK
<1>3. saved \in Roll!Recovery /\ recovery' = saved
      BY <1>1 DEF Roll!Running, Roll!Recovery, Roll!SaveRecovery
<1>4. /\ cmd'.step = "recheck-heads" /\ cmd'.seen = cmd.seen /\ cmd'.blob = cmd.blob
      /\ cmd'.head = cmd.head /\ cmd'.id = cmd.id /\ cmd'.time = cmd.time
      /\ cmd' \in Roll!Running
      BY <1>1 DEF Roll!SaveRecovery, Roll!Go, Roll!Running
<1>5. Roll!Pending' /\ Committed' = Committed
      BY <1>3, Distinct DEF Roll!Pending, Committed, Roll!SaveRecovery, Roll!remoteVars
<1>6. UNCHANGED <<accepted, listed, local, baseline, records, plan, edits, faults, late>>
      /\ edited' \in BOOLEAN
      BY DEF Roll!SaveRecovery, Roll!remoteVars
<1>7. Roll!TypeOK'
      BY <1>3, <1>4, <1>6 DEF RollbackInv, Roll!TypeOK
<1>8. VaultOK'
      BY <1>6, VaultSame DEF RollbackInv
<1>9. /\ recovery'.id = cmd.id /\ recovery'.source = cmd.head /\ recovery'.blob = cmd.blob
      /\ recovery'.preimage = cmd.seen
      BY <1>3
<1>10. RecoveryOK'
      BY <1>2, <1>5, <1>6, <1>9 DEF RecoveryOK, Operation
<1>11. CmdOK'
      BY <1>2, <1>4, <1>5, <1>6, <1>9 DEF CmdOK, Operation
<1> QED BY <1>7, <1>8, <1>10, <1>11 DEF RollbackInv

\* The head of a retry is the source: the commit of the rollback is at the revision already.
LEMMA RetryKeeps ==
    ASSUME RollbackInv, NEW h \in listed, NEW blob \in Blob, NEW now \in Time, Roll!Retry(h, blob, now)
    PROVE  RollbackInv'
<1>1. PICK r \in records : /\ r.id = recovery.id /\ r.blob = blob
                           /\ Roll!Begin(h, blob, "recheck-heads", r.id, r.time)
      BY DEF Roll!Retry, Roll!OperationTime
<1>2. Roll!Pending /\ recovery.blob = blob /\ h.id \in {recovery.source, recovery.id} /\ h.blob # blob
      BY DEF Roll!Retry, Roll!CleanForRollback, Roll!MayRoll
<1>3. h.id = recovery.source
      <2>1. h.id = recovery.id => h.blob = recovery.blob
            BY <1>2, HeadsAccepted DEF RollbackInv, RecoveryOK, AsCommit
      <2> QED BY <1>2, <2>1
<1>4. r.id \in Nat /\ r.time \in Time /\ r = [id |-> r.id, blob |-> r.blob, time |-> r.time]
      BY DEF RollbackInv, Roll!TypeOK
<1>5. /\ cmd' \in Roll!Running /\ cmd'.step = "recheck-heads" /\ cmd'.blob = blob /\ cmd'.head = h.id
      /\ cmd'.seen = local /\ cmd'.id = r.id /\ cmd'.time = r.time
      BY <1>1, <1>4, BeginFacts
<1>6. UNCHANGED <<accepted, listed, local, baseline, recovery, records, plan, edits, faults, edited, late>>
      BY DEF Roll!Retry, Roll!remoteVars, Roll!ghosts
<1>7. VaultOK' /\ RecoveryOK' /\ Roll!TypeOK'
      BY <1>5, <1>6, VaultSame, RecoverySame DEF RollbackInv, Roll!TypeOK
<1>8. local \in Committed
      BY <1>2 DEF Roll!Retry, RollbackInv, RecoveryOK
<1>9. Committed' = Committed /\ Roll!Pending'
      BY <1>2, <1>6 DEF Committed, Roll!Pending
<1>10. [id |-> cmd'.id, blob |-> cmd'.blob, time |-> cmd'.time] \in records'
      BY <1>1, <1>4, <1>5, <1>6
<1>11. CmdOK'
      BY <1>1, <1>2, <1>3, <1>5, <1>6, <1>8, <1>9, <1>10 DEF CmdOK, Operation
<1> QED BY <1>7, <1>11 DEF RollbackInv

\* A commit that is new, or that agrees with all of its id, may be added to the vault.
LEMMA CommitAdded ==
    ASSUME RollbackInv, NEW c \in Roll!CommitRecord, \A d \in accepted : d.id = c.id => d = c,
           accepted' \in {accepted, accepted \cup {c}}, records' = records
    PROVE  VaultOK' /\ accepted' \subseteq Roll!CommitRecord /\ Committed \subseteq Committed'
<1>1. IsFiniteSet(accepted')
      <2>1. IsFiniteSet(accepted)
            BY DEF RollbackInv, VaultOK
      <2>2. IsFiniteSet(accepted \cup {c})
            BY <2>1, FS_Singleton, FS_Union
      <2> QED BY <2>1, <2>2
<1>2. \A d, e \in accepted' : d.id = e.id => d = e
      BY DEF RollbackInv, VaultOK, Roll!DuplicatesAgree
<1>3. accepted' \subseteq Roll!CommitRecord
      BY DEF RollbackInv, Roll!TypeOK
<1>4. Committed \subseteq Committed'
      BY DEF Committed
<1> QED BY <1>1, <1>2, <1>3, <1>4 DEF RollbackInv, VaultOK, Roll!DuplicatesAgree

\* However often it is published, the commit of a rollback is the one of its records.
LEMMA PublishKeeps ==
    ASSUME RollbackInv, NEW o \in Roll!Outcome, Roll!Publish(o)
    PROVE  RollbackInv'
<1> DEFINE c == [id |-> cmd.id, parents |-> {cmd.head}, blob |-> cmd.blob,
                 kind |-> "rollback", time |-> cmd.time]
           stored == IF o.accepted THEN accepted \cup {c} ELSE accepted
           shown == IF o.listed THEN listed \cup {c} ELSE listed
<1>1. cmd \in Roll!Running /\ cmd # Roll!Idle /\ cmd.step = "publish"
      BY Distinct DEF RollbackInv, Roll!TypeOK, Roll!Publish, Roll!At
<1>2. /\ cmd.seen \in Committed /\ Roll!Pending /\ Operation(cmd) \in records
      /\ recovery.id = cmd.id /\ recovery.source = cmd.head /\ recovery.blob = cmd.blob
      BY <1>1 DEF RollbackInv, CmdOK
<1>3. c \in Roll!CommitRecord
      BY <1>1 DEF Roll!Running, Roll!CommitRecord, Roll!Revision
<1>4. c = AsCommit(Operation(cmd), recovery.source)
      BY <1>2 DEF AsCommit, Operation
<1>5. PICK r \in records :
        /\ r.id = recovery.id /\ r.blob = recovery.blob
        /\ \A d \in accepted : d.id = recovery.id => d = AsCommit(r, recovery.source)
      BY <1>2 DEF RollbackInv, RecoveryOK
<1>6. r = Operation(cmd)
      BY <1>2, <1>5 DEF RollbackInv, VaultOK, Operation
<1>7. c.id = recovery.id /\ \A d \in accepted : d.id = c.id => d = c
      BY <1>2, <1>4, <1>5, <1>6
<1>8. accepted' = stored /\ listed' = shown /\ faults' \in 0..MaxFaults
      BY AssumptionOfRollback DEF Roll!Publish, RollbackInv, Roll!TypeOK, Roll!RollbackAssumption
<1>9. /\ UNCHANGED <<local, baseline, records, plan, edits, edited, late, recovery>>
      /\ \/ Roll!Go("observe") /\ (o.certain \/ {d \in shown : d.id = c.id} = {c})
         \/ Roll!Stop
      BY DEF Roll!Publish, Roll!AfterFailure
<1>10. (o.listed => o.accepted) /\ (o.certain => o.accepted)
      BY DEF Roll!Outcome
<1>11. c \in shown \/ o.certain => c \in stored
      BY <1>10 DEF RollbackInv, Roll!TypeOK
<1>12. shown \subseteq stored
      BY <1>10 DEF RollbackInv, Roll!TypeOK
<1> HIDE DEF c
<1>13. VaultOK' /\ accepted' \subseteq Roll!CommitRecord /\ Committed \subseteq Committed'
      BY <1>3, <1>7, <1>8, <1>9, CommitAdded
<1>14. cmd' \in Roll!Running \cup {Roll!Idle}
      BY <1>1, <1>9, MoveTypes DEF RollbackInv, Roll!Stop
<1>15. Roll!TypeOK'
      BY <1>8, <1>9, <1>12, <1>13, <1>14 DEF RollbackInv, Roll!TypeOK
<1>16. \A d \in accepted' : d.id = recovery.id => d = AsCommit(r, recovery.source)
      BY <1>4, <1>5, <1>6, <1>8
<1>17. RecoveryOK'
      <2>1. recovery.preimage \in Committed
            BY <1>2 DEF RollbackInv, RecoveryOK
      <2> QED BY <1>5, <1>9, <1>13, <1>16, <2>1 DEF RecoveryOK
<1>18. CmdOK'
      <2>1. CASE Roll!Stop
            BY <2>1, CommandEnds DEF Roll!Stop
      <2>2. CASE Roll!Go("observe") /\ (o.certain \/ {d \in shown : d.id = c.id} = {c})
            <3>1. cmd' = [cmd EXCEPT !.step = "observe"] /\ cmd'.step = "observe"
                  BY <1>1, <2>2 DEF Roll!Go, Roll!Running
            <3>2. cmd'.seen = cmd.seen /\ cmd'.blob = cmd.blob
                  BY <1>1, <3>1 DEF Roll!Running
            <3>3. c \in accepted'
                  BY <1>8, <1>11, <2>2
            <3> QED BY <1>2, <1>7, <1>9, <1>13, <3>1, <3>2, <3>3 DEF CmdOK
      <2> QED BY <1>9, <2>1, <2>2
<1> QED BY <1>13, <1>15, <1>17, <1>18 DEF RollbackInv

\* A push, here or elsewhere, takes a new id.
LEMMA NewCommitKeeps ==
    ASSUME RollbackInv, NEW blob \in Roll!Revision, Roll!NewCommit(blob),
           baseline' \in Roll!Revision \cup {Unknown},
           UNCHANGED <<local, recovery, records, cmd, plan, edits, faults, edited, late>>
    PROVE  RollbackInv'
<1> DEFINE c == [id |-> Roll!FreshId, parents |-> {h.id : h \in Roll!Heads}, blob |-> blob,
                 kind |-> "push", time |-> 0]
<1>1. /\ Roll!FreshId \in Nat
      /\ \A d \in accepted : d.id # Roll!FreshId
      /\ \A r \in records : r.id # Roll!FreshId
      /\ Roll!Pending => recovery.id # Roll!FreshId
      BY FreshIdIsFresh DEF RollbackInv
<1>2. {h.id : h \in Roll!Heads} \subseteq Nat
      BY DEF RollbackInv, Roll!TypeOK, Roll!Heads, Roll!CommitRecord
<1>3. c \in Roll!CommitRecord /\ c.id = Roll!FreshId
      BY <1>1, <1>2 DEF Roll!CommitRecord
<1>4. accepted' = accepted \cup {c} /\ listed' = listed \cup {c}
      BY DEF Roll!NewCommit
<1> HIDE DEF c
<1>5. VaultOK' /\ accepted' \subseteq Roll!CommitRecord /\ Committed \subseteq Committed'
      BY <1>1, <1>3, <1>4, CommitAdded
<1>6. Roll!TypeOK'
      BY <1>4, <1>5 DEF RollbackInv, Roll!TypeOK
<1>7. Roll!Pending' = Roll!Pending
      BY DEF Roll!Pending
<1>8. RecoveryOK'
      BY <1>1, <1>3, <1>4, <1>5, <1>7 DEF RollbackInv, RecoveryOK
<1>9. CmdOK'
      <2> SUFFICES ASSUME cmd # Roll!Idle PROVE CmdOK'
          BY DEF CmdOK
      <2>1. cmd.step = "save-recovery" => cmd.id # Roll!FreshId
            <3> SUFFICES ASSUME cmd.step = "save-recovery" PROVE cmd.id # Roll!FreshId
                OBVIOUS
            <3>1. Operation(cmd) \in records
                  BY DEF RollbackInv, CmdOK
            <3> QED BY <1>1, <3>1 DEF Operation
      <2> QED BY <1>3, <1>4, <1>5, <1>7, <2>1 DEF RollbackInv, CmdOK, Operation
<1> QED BY <1>5, <1>6, <1>8, <1>9 DEF RollbackInv

LEMMA PushKeeps ==
    ASSUME RollbackInv, NEW h \in listed, Roll!Push(h)
    PROVE  RollbackInv'
<1>1. PICK blob \in Roll!Revision : Roll!NewCommit(blob) /\ baseline' = blob
      BY DEF Roll!Push
<1> QED BY <1>1, NewCommitKeeps DEF Roll!Push, Roll!ghosts

LEMMA OtherCommitKeeps == RollbackInv /\ Roll!OtherCommit => RollbackInv'
<1> SUFFICES ASSUME RollbackInv, Roll!OtherCommit PROVE RollbackInv'
    OBVIOUS
<1>1. PICK blob \in Roll!Revision : Roll!NewCommit(blob)
      BY DEF Roll!OtherCommit
<1>2. baseline' \in Roll!Revision \cup {Unknown}
      BY DEF Roll!OtherCommit, RollbackInv, Roll!TypeOK
<1> QED BY <1>1, <1>2, NewCommitKeeps DEF Roll!OtherCommit, Roll!ghosts

------------------------------------------------------------------------------
\* What others do with the file

\* Nothing but the file and its baseline changes, and no write is overtaken unseen.
LEMMA FileKeeps ==
    ASSUME RollbackInv, Roll!TypeOK', UNCHANGED <<accepted, records, recovery, cmd>>,
           Roll!At("replace") => late' \/ (UNCHANGED <<local, late>>)
    PROVE  RollbackInv'
BY VaultSame, RecoverySame, CommandSame DEF RollbackInv

LEMMA RestoreLoadKeeps ==
    ASSUME RollbackInv, NEW target \in Roll!Revision, Roll!RestoreLoad(target)
    PROVE  RollbackInv'
<1>1. Roll!TypeOK'
      BY DEF RollbackInv, Roll!TypeOK, Roll!RestoreLoad, Roll!remoteVars, Roll!ghosts
<1> QED BY <1>1, FileKeeps DEF Roll!RestoreLoad, Roll!remoteVars, Roll!ghosts

LEMMA RestoreApplyKeeps ==
    ASSUME RollbackInv, NEW overwrite \in BOOLEAN, NEW acknowledge \in BOOLEAN, NEW saved \in BOOLEAN,
           Roll!RestoreApply(overwrite, acknowledge, saved)
    PROVE  RollbackInv'
<1>1. plan.target \in Roll!Revision
      BY DEF RollbackInv, Roll!TypeOK, Roll!RestoreApply
<1>2. Roll!SlotOf(plan.target) \in Roll!RemoteSlot
      BY <1>1, SlotType
<1>3. Roll!TypeOK'
      BY <1>1, <1>2 DEF RollbackInv, Roll!TypeOK, Roll!RestoreApply, Roll!remoteVars
<1>4. ~Roll!At("replace")
      BY DEF Roll!RestoreApply, Roll!At
<1> QED BY <1>3, <1>4, FileKeeps DEF Roll!RestoreApply, Roll!remoteVars

LEMMA PullKeeps ==
    ASSUME RollbackInv, NEW h \in listed, NEW allowDelete \in BOOLEAN, Roll!Pull(h, allowDelete)
    PROVE  RollbackInv'
<1>1. h.blob \in Roll!Revision
      BY HeadsAccepted DEF RollbackInv, Roll!CommitRecord
<1>2. Roll!SlotOf(h.blob) \in Roll!RemoteSlot
      BY <1>1, SlotType
<1>3. local' \in Roll!RemoteSlot
      BY <1>2 DEF Roll!Pull, RollbackInv, Roll!TypeOK
<1>4. Roll!TypeOK'
      BY <1>1, <1>3 DEF RollbackInv, Roll!TypeOK, Roll!Pull, Roll!remoteVars, Roll!ghosts
<1>5. ~Roll!At("replace")
      BY DEF Roll!Pull, Roll!At
<1> QED BY <1>4, <1>5, FileKeeps DEF Roll!Pull, Roll!remoteVars, Roll!ghosts

LEMMA EditKeeps == RollbackInv /\ Roll!Edit => RollbackInv'
<1> SUFFICES ASSUME RollbackInv, Roll!Edit PROVE RollbackInv'
    OBVIOUS
<1>1. local' \in Roll!RemoteSlot
      BY AssumptionOfRollback DEF Roll!Edit, Roll!RollbackAssumption, Roll!RemoteSlot
<1>2. edits' \in 0..MaxEdits
      BY AssumptionOfRollback DEF Roll!Edit, Roll!RollbackAssumption, RollbackInv, Roll!TypeOK
<1>3. late' \in BOOLEAN
      BY DEF Roll!Edit, RollbackInv, Roll!TypeOK
<1>4. Roll!TypeOK'
      BY <1>1, <1>2, <1>3 DEF RollbackInv, Roll!TypeOK, Roll!Edit, Roll!remoteVars
<1> QED BY <1>4, FileKeeps DEF Roll!Edit, Roll!remoteVars

LEMMA CrashKeeps == RollbackInv /\ Roll!Crash => RollbackInv'
<1> SUFFICES ASSUME RollbackInv, Roll!Crash PROVE RollbackInv'
    OBVIOUS
<1>1. faults' \in 0..MaxFaults
      BY AssumptionOfRollback DEF Roll!Crash, Roll!RollbackAssumption, RollbackInv, Roll!TypeOK
<1>2. Roll!TypeOK'
      BY <1>1 DEF RollbackInv, Roll!TypeOK, Roll!Crash, Roll!Stop, Roll!remoteVars
<1> QED BY <1>2, VaultSame, RecoverySame, CommandEnds DEF Roll!Crash, Roll!Stop,
            Roll!remoteVars, RollbackInv

LEMMA SurfaceKeeps == RollbackInv /\ Roll!Surface => RollbackInv'
<1> SUFFICES ASSUME RollbackInv, Roll!Surface PROVE RollbackInv'
    OBVIOUS
<1>1. Roll!TypeOK'
      BY DEF RollbackInv, Roll!TypeOK, Roll!Surface, Roll!ghosts
<1> QED BY <1>1, FileKeeps DEF Roll!Surface, Roll!ghosts

------------------------------------------------------------------------------

LEMMA RollbackInitially == Roll!Init => RollbackInv
<1> SUFFICES ASSUME Roll!Init PROVE RollbackInv
    OBVIOUS
<1>1. local \in Roll!RemoteSlot /\ baseline \in Roll!Revision \cup {Unknown}
      <2>1. PICK c \in FirstRecords :
              \/ local = (IF c.blob = Absent THEN Absent ELSE ContentOf[c.blob]) /\ baseline = c.blob
              \/ local = Absent /\ baseline = Unknown
            BY DEF Roll!Init
      <2>2. c.blob \in Roll!Revision
            BY AssumptionOfRollback DEF Roll!RollbackAssumption, Roll!CommitRecord
      <2> QED BY <2>1, <2>2, AssumptionOfRollback DEF Roll!RollbackAssumption, Roll!Revision,
                  Roll!RemoteSlot
<1>2. Roll!TypeOK
      <2>1. edits \in 0..MaxEdits /\ faults \in 0..MaxFaults
            BY AssumptionOfRollback DEF Roll!Init, Roll!RollbackAssumption
      <2>2. accepted \subseteq Roll!CommitRecord /\ listed \subseteq accepted /\ records = {}
            BY AssumptionOfRollback DEF Roll!Init, Roll!RollbackAssumption
      <2>3. recovery = Roll!NoRecovery /\ cmd = Roll!Idle /\ plan = Roll!Idle /\ edited \in BOOLEAN /\ late \in BOOLEAN
            BY DEF Roll!Init
      <2> QED BY <1>1, <2>1, <2>2, <2>3 DEF Roll!TypeOK
<1>3. VaultOK
      BY AssumptionOfRollback, FS_EmptySet DEF Roll!IsFiniteSet, IsFiniteSet, Roll!Init,
          VaultOK, Roll!DuplicatesAgree,
           Roll!RollbackAssumption
<1> QED BY <1>2, <1>3 DEF Roll!Init, RollbackInv, RecoveryOK, CmdOK, Roll!Pending

LEMMA RollStepKeeps == RollbackInv /\ Roll!RollStep => RollbackInv'
BY SaveRecoveryKeeps, RecheckHeadsKeeps, ObserveKeeps, RecheckKeeps, ReplaceKeeps, VerifyKeeps,
   SaveKeeps, PublishKeeps DEF Roll!RollStep

LEMMA RollKeeps == ASSUME RollbackInv, NEW blob \in Blob, Roll!Roll(blob) PROVE RollbackInv'
BY AlreadyAcknowledgedKeeps, ConvergeKeeps, PrepareKeeps, RetryKeeps DEF Roll!Roll

LEMMA RollbackStep == RollbackInv /\ [Roll!Next]_(Roll!vars) => RollbackInv'
<1> SUFFICES ASSUME RollbackInv, [Roll!Next]_(Roll!vars) PROVE RollbackInv'
    OBVIOUS
<1>1. CASE UNCHANGED Roll!vars
      <2>1. Roll!TypeOK'
            BY <1>1 DEF Roll!vars, RollbackInv, Roll!TypeOK
      <2> QED BY <1>1, <2>1, FileKeeps DEF Roll!vars
<1>2. CASE \E blob \in Blob : Roll!Roll(blob)
      BY <1>2, RollKeeps
<1>3. CASE Roll!RollStep
      BY <1>3, RollStepKeeps
<1>4. CASE Roll!Edit \/ Roll!Crash \/ Roll!Surface \/ Roll!OtherCommit
      BY <1>4, EditKeeps, CrashKeeps, SurfaceKeeps, OtherCommitKeeps
<1>5. CASE \E h \in listed : Roll!Push(h) \/ \E allowDelete \in BOOLEAN : Roll!Pull(h, allowDelete)
      BY <1>5, PushKeeps, PullKeeps
<1>6. CASE \E target \in Roll!Revision : Roll!RestoreLoad(target)
      BY <1>6, RestoreLoadKeeps
<1>7. CASE \E overwrite, acknowledge, saved \in BOOLEAN : Roll!RestoreApply(overwrite, acknowledge, saved)
      BY <1>7, RestoreApplyKeeps
<1> QED BY <1>1, <1>2, <1>3, <1>4, <1>5, <1>6, <1>7 DEF Roll!Next

LEMMA RollbackInvariance == Roll!Spec => []RollbackInv
BY RollbackInitially, RollbackStep, PTL DEF Roll!Spec

\* A behaviour of the parts is one of Rollback.
LEMMA IsRollback == FileSpec => Roll!Spec
<1>1. FileInit => Roll!Init
      BY DEF FileInit
<1>2. [FileNext]_fileVars => [Roll!Next]_(Roll!vars)
      BY DEF FileNext, InWiki, InSync, InRollback, InGraph, fileVars, rollVars, Roll!vars
<1> QED BY <1>1, <1>2, PTL DEF FileSpec, Roll!Spec

\* However often a rollback is retried after an uncertain answer, the records of its commit
\* are equal (rollback.ts 434-486, history-store.ts 142, records.ts 702-726).
THEOREM RecordsAlwaysAgree == FileSpec => []RecordsAgree
<1>1. RollbackInv => RecordsAgree
      BY DEF RollbackInv, VaultOK, RecordsAgree, Roll!RecordsAgree
<1> QED BY <1>1, RollbackInvariance, IsRollback, PTL

\* What a rollback replaces is the content that it began with, unless the user changed it
\* after the last check.
LEMMA ReplacesCommitted == RollbackInv => Roll!OverwritesOnlyCommitted
<1> SUFFICES ASSUME RollbackInv, Roll!Replace, ~late
             PROVE  local \in {Roll!SlotOf(c.blob) : c \in accepted} \cup {Absent, ContentOf[cmd.blob]}
    BY DEF Roll!OverwritesOnlyCommitted
<1>1. local = cmd.seen /\ cmd.seen \in Committed
      BY DEF RollbackInv, CmdOK, Roll!Replace, Roll!At
<1> QED BY <1>1 DEF Committed

\* Only a rollback that is done, and one that was done before, drops the evidence.
LEMMA RetiredWhenDone == RollbackInv /\ [Roll!Next]_(Roll!vars) => Roll!RetiredOnlyWhenDone
<1> SUFFICES ASSUME RollbackInv, [Roll!Next]_(Roll!vars), Roll!Pending, recovery' # recovery
             PROVE  /\ recovery' = Roll!NoRecovery /\ baseline' = recovery.blob
                    /\ \E c \in accepted : c.id = recovery.id
    BY DEF Roll!RetiredOnlyWhenDone
<1>1. CASE Roll!Save
      <2>1. cmd # Roll!Idle /\ cmd.step = "save" /\ recovery' = Roll!NoRecovery /\ baseline' = cmd.blob
            BY <1>1 DEF Roll!Save, Roll!At, Roll!SavedBaseline
      <2> QED BY <2>1 DEF RollbackInv, CmdOK
<1>2. ASSUME NEW h \in listed, NEW blob \in Blob, Roll!AlreadyAcknowledged(h, blob)
      PROVE  /\ recovery' = Roll!NoRecovery /\ baseline' = recovery.blob
             /\ \E c \in accepted : c.id = recovery.id
      BY <1>2, HeadsAccepted DEF Roll!AlreadyAcknowledged, Roll!MayRoll, Roll!Proven, RollbackInv
<1>3. ~Roll!SaveRecovery
      BY DEF Roll!SaveRecovery, Roll!At, RollbackInv, CmdOK
<1>4. ASSUME NEW h \in listed, NEW blob \in Blob,
             Roll!Converge(h, blob) \/ \E now \in Time : Roll!Prepare(h, blob, now) \/ Roll!Retry(h, blob, now)
      PROVE  FALSE
      BY <1>4 DEF Roll!Converge, Roll!Prepare, Roll!Retry
<1>5. ~(Roll!RecheckHeads \/ Roll!Observe \/ Roll!Recheck \/ Roll!Replace \/ Roll!Verify)
      BY DEF Roll!RecheckHeads, Roll!Observe, Roll!Recheck, Roll!Replace, Roll!Verify
<1>6. \A o \in Roll!Outcome : ~Roll!Publish(o)
      BY DEF Roll!Publish, Roll!AfterFailure
<1>7. ~(Roll!Edit \/ Roll!Crash \/ Roll!Surface \/ Roll!OtherCommit \/ UNCHANGED Roll!vars)
      BY DEF Roll!Edit, Roll!Crash, Roll!Surface, Roll!OtherCommit, Roll!vars
<1>8. /\ \A h \in listed : ~Roll!Push(h) /\ \A allowDelete \in BOOLEAN : ~Roll!Pull(h, allowDelete)
      /\ \A target \in Roll!Revision : ~Roll!RestoreLoad(target)
      /\ \A overwrite, acknowledge, saved \in BOOLEAN : ~Roll!RestoreApply(overwrite, acknowledge, saved)
      BY DEF Roll!Push, Roll!Pull, Roll!RestoreLoad, Roll!RestoreApply
<1> QED BY <1>1, <1>2, <1>3, <1>4, <1>5, <1>6, <1>7, <1>8 DEF Roll!Next, Roll!Roll, Roll!RollStep

\* A rollback that is interrupted and repeated neither destroys what no commit keeps nor
\* forgets what it has begun (rollback.ts 222-295, 418-420, 520-562).
THEOREM RetriesAreSafe == FileSpec => RetryIsSafe
<1>1. RollbackInv /\ [Roll!Next]_(Roll!vars) => [Roll!OverwritesOnlyCommitted /\ Roll!RetiredOnlyWhenDone]_(Roll!vars)
      BY ReplacesCommitted, RetiredWhenDone
<1> QED BY <1>1, RollbackInvariance, IsRollback, PTL DEF Roll!Spec, RetryIsSafe, Roll!RetryIsSafe

------------------------------------------------------------------------------
\* Confluence: what happens to the pages of a space

\* The marks of an id that is no page, and the target, are told from each other.
LEMMA TypesDiffer ==
    /\ NoPage.type = "absent" /\ Trashed.type = "trash" /\ NoPage # Trashed
    /\ Target \in Id /\ NoId \notin Id /\ NoId # Target
    /\ Id \subseteq Nat /\ MaxPage \in Nat
BY AssumptionOfConfluence DEF ConfluenceAssumption, NoPage, Trashed, Target, Id, NoId

\* A live page of a space has its fields.
LEMMA LiveShape ==
    ASSUME NEW g, IsSpace(g), NEW p \in LiveIn(g)
    PROVE  /\ p \in Id /\ IsPage(g[p]) /\ g[p] # NoPage /\ g[p] # Trashed
           /\ g[p].type \in {"page", "folder"} /\ g[p].version \in Nat
BY TypesDiffer DEF IsSpace, LiveIn, IsPage

\* A space with r at p.
With(g, p, r) == [g EXCEPT ![p] = r]

\* The record r may stand in the place of the page p.
Replaces(g, p, r) ==
    /\ IsPage(r) /\ r.type = g[p].type /\ r.up = g[p].up /\ r.above = g[p].above
    /\ p = Target => IsParent(r.body)

\* A page that is there gets other contents.
LEMMA Written ==
    ASSUME NEW g, IsSpace(g), NEW p \in LiveIn(g), NEW r, Replaces(g, p, r),
           NEW h, h = With(g, p, r)
    PROVE  /\ IsSpace(h) /\ LiveIn(h) = LiveIn(g)
           /\ h[p] = r /\ \A q \in Id \ {p} : h[q] = g[q]
           /\ \A q \in Id : h[q] = NoPage <=> g[q] = NoPage
<1>1. p \in Id /\ g = [q \in Id |-> g[q]]
    BY DEF IsSpace, LiveIn
<1>2. h[p] = r /\ \A q \in Id \ {p} : h[q] = g[q]
    BY <1>1 DEF With
<1>3. h = [q \in Id |-> h[q]]
    BY <1>1 DEF With
<1> USE DEF Replaces
<1>4. r.type \in {"page", "folder"} /\ r # NoPage /\ g[p] # NoPage
    BY LiveShape, TypesDiffer DEF IsPage
<1>5. LiveIn(h) = LiveIn(g)
    BY <1>1, <1>2, <1>4 DEF LiveIn
<1>6. \A q \in Id : h[q].type = g[q].type /\ (q \in LiveIn(g) => h[q].up = g[q].up /\ h[q].above = g[q].above)
    BY <1>2
<1>7. IsTree(h)
    <2>1. IsTree(g) /\ LiveIn(g) \subseteq Id
        BY DEF IsSpace, LiveIn
    <2>2. /\ Target \in LiveIn(h) /\ h[Target].type = "page"
          /\ h[Target].up = NoId /\ h[Target].above = {}
        BY <1>5, <1>6, <2>1 DEF IsTree
    <2>3. ASSUME NEW q \in LiveIn(h) \ {Target}
          PROVE  /\ h[q].up \in LiveIn(h) /\ h[q].above = h[h[q].up].above \cup {h[q].up}
                 /\ q \notin h[q].above /\ Target \in h[q].above
                 /\ \A a \in h[q].above : a \in LiveIn(h) /\ h[a].above \subseteq h[q].above
                 /\ \A a, b \in h[q].above : a = b \/ a \in h[b].above \/ b \in h[a].above
        <3>1. /\ g[q].up \in LiveIn(g) /\ g[q].above = g[g[q].up].above \cup {g[q].up}
              /\ q \notin g[q].above /\ Target \in g[q].above
              /\ \A a \in g[q].above : a \in LiveIn(g) /\ g[a].above \subseteq g[q].above
              /\ \A a, b \in g[q].above : a = b \/ a \in g[b].above \/ b \in g[a].above
            BY <1>5, <2>1, <2>3 DEF IsTree
        <3>2. /\ h[q].up = g[q].up /\ h[q].above = g[q].above /\ h[g[q].up].above = g[g[q].up].above
              /\ \A a \in g[q].above : h[a].above = g[a].above
            BY <1>5, <1>6, <2>1, <3>1
        <3> QED BY <1>5, <3>1, <3>2
    <2> QED BY <2>2, <2>3 DEF IsTree
<1>8. IsParent(h[Target].body)
    <2>1. IsParent(g[Target].body) /\ Target \in Id
        BY TypesDiffer DEF IsSpace
    <2> QED BY <1>2, <2>1
<1>9. ASSUME NEW q \in Id
      PROVE  h[q] = NoPage \/ h[q] = Trashed \/ IsPage(h[q])
    BY <1>2, <1>4, <1>9 DEF IsSpace
<1> QED BY <1>2, <1>3, <1>4, <1>5, <1>7, <1>8, <1>9 DEF IsSpace

\* A new page.
LEMMA Added ==
    ASSUME NEW g, IsSpace(g), NEW n \in Id, g[n] = NoPage,
           NEW r, IsPage(r), r.up \in LiveIn(g), r.above = g[r.up].above \cup {r.up},
           NEW h, h = With(g, n, r)
    PROVE  /\ IsSpace(h) /\ LiveIn(h) = LiveIn(g) \cup {n}
           /\ n \notin LiveIn(g) /\ n # Target
           /\ h[n] = r /\ \A q \in Id \ {n} : h[q] = g[q]
<1>1. g = [q \in Id |-> g[q]] /\ IsTree(g) /\ LiveIn(g) \subseteq Id
    BY DEF IsSpace, LiveIn
<1>2. h[n] = r /\ \A q \in Id \ {n} : h[q] = g[q]
    BY <1>1 DEF With
<1>3. h = [q \in Id |-> h[q]]
    BY <1>1 DEF With
<1>4. n \notin LiveIn(g) /\ n # Target
    <2>1. n \notin LiveIn(g)
        BY TypesDiffer DEF LiveIn
    <2>2. Target \in LiveIn(g)
        BY <1>1 DEF IsTree
    <2> QED BY <2>1, <2>2
<1>5. LiveIn(h) = LiveIn(g) \cup {n}
    BY <1>1, <1>2 DEF LiveIn, IsPage
<1>6. \A q \in LiveIn(g) : h[q] = g[q]
    BY <1>1, <1>2, <1>4
<1>7. IsTree(h)
    <2>1. /\ Target \in LiveIn(h) /\ h[Target].type = "page"
          /\ h[Target].up = NoId /\ h[Target].above = {}
        BY <1>1, <1>5, <1>6 DEF IsTree
    <2>2. ASSUME NEW q \in LiveIn(g) \ {Target}
          PROVE  /\ h[q].up \in LiveIn(h) /\ h[q].above = h[h[q].up].above \cup {h[q].up}
                 /\ q \notin h[q].above /\ Target \in h[q].above
                 /\ \A a \in h[q].above : a \in LiveIn(h) /\ h[a].above \subseteq h[q].above
                 /\ \A a, b \in h[q].above : a = b \/ a \in h[b].above \/ b \in h[a].above
        <3>1. /\ g[q].up \in LiveIn(g) /\ g[q].above = g[g[q].up].above \cup {g[q].up}
              /\ q \notin g[q].above /\ Target \in g[q].above
              /\ \A a \in g[q].above : a \in LiveIn(g) /\ g[a].above \subseteq g[q].above
              /\ \A a, b \in g[q].above : a = b \/ a \in g[b].above \/ b \in g[a].above
            BY <1>1, <2>2 DEF IsTree
        <3>2. /\ h[q] = g[q] /\ h[g[q].up] = g[g[q].up]
              /\ \A a \in g[q].above : h[a] = g[a]
            BY <1>6, <2>2, <3>1
        <3> QED BY <1>5, <3>1, <3>2
    <2>3. /\ h[n].up \in LiveIn(h) /\ h[n].above = h[h[n].up].above \cup {h[n].up}
          /\ n \notin h[n].above /\ Target \in h[n].above
          /\ \A a \in h[n].above : a \in LiveIn(h) /\ h[a].above \subseteq h[n].above
          /\ \A a, b \in h[n].above : a = b \/ a \in h[b].above \/ b \in h[a].above
        <3> DEFINE u == r.up
        <3>1. /\ u \in LiveIn(g) /\ h[u] = g[u] /\ h[n].up = u /\ h[n].above = g[u].above \cup {u}
            BY <1>2, <1>6
        <3> HIDE DEF u
        <3>2. /\ \A a \in g[u].above : a \in LiveIn(g) /\ g[a].above \subseteq g[u].above
              /\ \A a, b \in g[u].above : a = b \/ a \in g[b].above \/ b \in g[a].above
              /\ Target \in g[u].above \cup {u}
            <4>1. CASE u = Target
                BY <1>1, <3>1, <4>1 DEF IsTree
            <4>2. CASE u # Target
                <5>1. u \in LiveIn(g) \ {Target}
                    BY <3>1, <4>2
                <5> QED BY <1>1, <5>1 DEF IsTree
            <4> QED BY <4>1, <4>2
        <3>3. \A a \in h[n].above : a \in LiveIn(g) /\ h[a] = g[a]
            BY <1>6, <3>1, <3>2
        <3> QED BY <1>4, <1>5, <3>1, <3>2, <3>3
    <2>4. ASSUME NEW q \in LiveIn(h) \ {Target}
          PROVE  /\ h[q].up \in LiveIn(h) /\ h[q].above = h[h[q].up].above \cup {h[q].up}
                 /\ q \notin h[q].above /\ Target \in h[q].above
                 /\ \A a \in h[q].above : a \in LiveIn(h) /\ h[a].above \subseteq h[q].above
                 /\ \A a, b \in h[q].above : a = b \/ a \in h[b].above \/ b \in h[a].above
        <3>1. CASE q = n
            BY <2>3, <3>1
        <3>2. CASE q # n
            <4>1. q \in LiveIn(g) \ {Target}
                BY <1>5, <2>4, <3>2
            <4> QED BY <2>2, <4>1
        <3> QED BY <3>1, <3>2
    <2> QED BY <2>1, <2>4 DEF IsTree
<1>8. IsParent(h[Target].body)
    <2>1. IsParent(g[Target].body) /\ Target \in Id
        BY TypesDiffer DEF IsSpace
    <2> QED BY <1>2, <1>4, <2>1
<1>9. ASSUME NEW q \in Id
      PROVE  h[q] = NoPage \/ h[q] = Trashed \/ IsPage(h[q])
    BY <1>2, <1>9 DEF IsSpace
<1> QED BY <1>2, <1>3, <1>4, <1>5, <1>7, <1>8, <1>9 DEF IsSpace

\* A page goes, and with it what is below it.
TrashIn(g, p) == [q \in Id |-> IF q \in {p} \cup BelowP(g, p) THEN Trashed ELSE g[q]]
\* A space without a page, and without what is below it, is a space.
LEMMA Removed ==
    ASSUME NEW g, IsSpace(g), NEW p \in Id \ {Target}, NEW h, h = TrashIn(g, p)
    PROVE  /\ IsSpace(h) /\ LiveIn(h) = LiveIn(g) \ ({p} \cup BelowP(g, p))
           /\ \A q \in LiveIn(h) : h[q] = g[q]
           /\ \A q \in Id : q \notin {p} \cup BelowP(g, p) => h[q] = g[q]
           /\ \A q \in Id : h[q] = NoPage => g[q] = NoPage
<1>1. g = [q \in Id |-> g[q]] /\ IsTree(g) /\ LiveIn(g) \subseteq Id
    BY DEF IsSpace, LiveIn
<1>2. \A q \in Id : h[q] = IF q \in {p} \cup BelowP(g, p) THEN Trashed ELSE g[q]
    BY DEF TrashIn
<1>3. h = [q \in Id |-> h[q]]
    BY DEF TrashIn
<1>4. LiveIn(h) = LiveIn(g) \ ({p} \cup BelowP(g, p)) /\ \A q \in LiveIn(h) : h[q] = g[q]
    BY <1>2, TypesDiffer DEF LiveIn, BelowP
<1>5. Target \in LiveIn(h) /\ h[Target] = g[Target]
    <2>1. Target \in LiveIn(g) /\ g[Target].above = {}
        BY <1>1 DEF IsTree
    <2> QED BY <1>4, <2>1 DEF BelowP
<1>6. ASSUME NEW q \in LiveIn(h), NEW a \in g[q].above
      PROVE  a \in LiveIn(h) /\ h[a] = g[a]
    <2>1. q \in LiveIn(g) /\ p # q /\ p \notin g[q].above
        BY <1>4, <1>6 DEF BelowP
    <2>2. a \in LiveIn(g) /\ g[a].above \subseteq g[q].above
        BY <1>1, <1>6, <2>1 DEF IsTree
    <2>3. a # p /\ a \notin BelowP(g, p)
        BY <1>6, <2>1, <2>2 DEF BelowP
    <2> QED BY <1>4, <2>2, <2>3
<1>7. IsTree(h)
    <2>1. ASSUME NEW q \in LiveIn(h) \ {Target}
          PROVE  /\ h[q].up \in LiveIn(h) /\ h[q].above = h[h[q].up].above \cup {h[q].up}
                 /\ q \notin h[q].above /\ Target \in h[q].above
                 /\ \A a \in h[q].above : a \in LiveIn(h) /\ h[a].above \subseteq h[q].above
                 /\ \A a, b \in h[q].above : a = b \/ a \in h[b].above \/ b \in h[a].above
        <3>1. q \in LiveIn(g) /\ h[q] = g[q]
            BY <1>4, <2>1
        <3>2. /\ g[q].up \in LiveIn(g) /\ g[q].above = g[g[q].up].above \cup {g[q].up}
              /\ q \notin g[q].above /\ Target \in g[q].above
              /\ \A a \in g[q].above : a \in LiveIn(g) /\ g[a].above \subseteq g[q].above
              /\ \A a, b \in g[q].above : a = b \/ a \in g[b].above \/ b \in g[a].above
            BY <1>1, <2>1, <3>1 DEF IsTree
        <3>3. \A a \in g[q].above : a \in LiveIn(h) /\ h[a] = g[a]
            BY <1>6, <2>1
        <3>4. g[q].up \in LiveIn(h) /\ h[g[q].up] = g[g[q].up]
            BY <3>2, <3>3
        <3> QED BY <3>1, <3>2, <3>3, <3>4
    <2> QED BY <1>1, <1>5, <2>1 DEF IsTree
<1>8. IsParent(h[Target].body)
    BY <1>5 DEF IsSpace
<1>9. ASSUME NEW q \in Id
      PROVE  h[q] = NoPage \/ h[q] = Trashed \/ IsPage(h[q])
    BY <1>2, <1>9 DEF IsSpace
<1> QED BY <1>2, <1>3, <1>4, <1>7, <1>8, <1>9, TypesDiffer DEF IsSpace

\* A set of natural numbers that is not empty has a least one.
LEMMA HasLeast ==
    ASSUME NEW K \in SUBSET Nat, K # {}
    PROVE  \E k \in K : \A m \in K : k <= m
<1> DEFINE R == {ss \in Nat \X Nat : ss[1] < ss[2]}
<1>1. IsWellFoundedOn(R, Nat) BY NatLessThanWellFounded DEF OpToRel
<1>2. PICK x \in K : \A y \in K : <<y, x>> \notin R
      <2> HIDE DEF R
      <2> QED BY <1>1, WFMin
<1>3. ASSUME NEW m \in K PROVE x <= m
      <2>1. ~(m < x) BY <1>2
      <2> QED BY <2>1
<1> QED BY <1>2, <1>3

------------------------------------------------------------------------------
\* Ways from the target

\* What IsTree says of one page.
LEMMA TreeFacts ==
    ASSUME NEW g, IsSpace(g), NEW p \in LiveIn(g)
    PROVE  /\ p = Target => g[p].up = NoId /\ g[p].above = {}
           /\ p # Target => /\ g[p].up \in LiveIn(g) /\ Target \in g[p].above
                            /\ g[p].above = g[g[p].up].above \cup {g[p].up}
                            /\ p \notin g[p].above
           /\ \A q \in g[p].above : q \in LiveIn(g) /\ g[q].above \subseteq g[p].above
           /\ \A q, r \in g[p].above : q = r \/ q \in g[r].above \/ r \in g[q].above
BY DEF IsSpace, IsTree

\* A page below another is not the target.
LEMMA HasUp ==
    ASSUME NEW g, IsSpace(g), NEW p \in LiveIn(g), NEW u, u \in Id, g[p].up = u
    PROVE  p # Target /\ u \in LiveIn(g) /\ u \in g[p].above
BY TreeFacts, TypesDiffer

\* A chain is made of live pages, the target aside.
LEMMA ChainAt ==
    ASSUME NEW g, IsSpace(g), NEW T, NEW p, NEW path, NEW n \in Nat \ {0}, NEW c, Chain(g, T, c, p, path, n)
    PROVE  \A i \in 1..n : c[i] \in LiveIn(g) /\ c[i] # Target /\ (i > 1 => c[i - 1] \in LiveIn(g))
<1> SUFFICES ASSUME NEW i \in 1..n
             PROVE  c[i] \in LiveIn(g) /\ c[i] # Target /\ (i > 1 => c[i - 1] \in LiveIn(g))
    OBVIOUS
<1>1. c[i] \in LiveIn(g)
    BY DEF Chain
<1>2. i > 1 => i - 1 \in 1..n
    OBVIOUS
<1>3. i > 1 => c[i - 1] \in LiveIn(g)
    BY <1>2 DEF Chain
<1>4. g[c[i]].up = IF i = 1 THEN Target ELSE c[i - 1]
    BY DEF Chain
<1>5. g[c[i]].up \in Id
    <2>1. CASE i = 1
        BY <1>4, <2>1, TypesDiffer
    <2>2. CASE i # 1
        BY <1>3, <1>4, <2>2 DEF LiveIn
    <2> QED BY <2>1, <2>2
<1> QED BY <1>1, <1>3, <1>5, HasUp

\* What is at the end of a path is live, and not the target.
LEMMA LocLive ==
    ASSUME NEW g, IsSpace(g), NEW T, NEW p, NEW path, NEW n \in Nat \ {0}, LocTo(g, T, p, path, n)
    PROVE  p \in LiveIn(g) /\ p # Target
<1>1. PICK c : Chain(g, T, c, p, path, n)
    BY DEF LocTo
<1>2. n \in 1..n /\ c[n] = p
    BY <1>1 DEF Chain
<1> QED BY <1>1, <1>2, ChainAt

\* One step further down.
LEMMA LocNext ==
    ASSUME NEW g, IsSpace(g), NEW T, NEW p, NEW path, NEW n \in Nat,
           n = 0 => p = Target, n # 0 => LocTo(g, T, p, path, n),
           NEW q \in LiveIn(g), g[q].up = p, g[q].title = path[n + 1], g[q].label \/ q \in T
    PROVE  LocTo(g, T, q, path, n + 1)
<1>1. CASE n = 0
    <2> DEFINE c == [i \in 1..1 |-> q]
    <2>1. c \in [1..1 -> LiveIn(g)] /\ c[1] = q
        OBVIOUS
    <2>2. Chain(g, T, c, q, path, 1)
        <3>1. \A i \in 1..1 : i = 1
            OBVIOUS
        <3> QED BY <1>1, <2>1, <3>1 DEF Chain
    <2> HIDE DEF c
    <2>3. LocTo(g, T, q, path, 1)
        BY <2>1, <2>2 DEF LocTo
    <2> QED BY <1>1, <2>3
<1>2. CASE n # 0
    <2>1. PICK b : Chain(g, T, b, p, path, n)
        BY <1>2 DEF LocTo
    <2>2. b \in [1..n -> LiveIn(g)] /\ b[n] = p
        BY <2>1 DEF Chain
    <2> DEFINE c == [i \in 1..(n + 1) |-> IF i = n + 1 THEN q ELSE b[i]]
    <2>3. /\ c \in [1..(n + 1) -> LiveIn(g)] /\ c[n + 1] = q
          /\ \A i \in 1..n : c[i] = b[i]
        BY <2>2
    <2> HIDE DEF c
    <2>4. ASSUME NEW i \in 1..(n + 1)
          PROVE  /\ g[c[i]].title = path[i]
                 /\ g[c[i]].up = IF i = 1 THEN Target ELSE c[i - 1]
                 /\ g[c[i]].label \/ c[i] \in T
        <3>1. CASE i = n + 1
            <4>1. i # 1 /\ i - 1 = n /\ n \in 1..n
                BY <1>2, <3>1
            <4> QED BY <2>2, <2>3, <3>1, <4>1
        <3>2. CASE i # n + 1
            <4>1. i \in 1..n /\ c[i] = b[i] /\ (i # 1 => i - 1 \in 1..n)
                BY <2>3, <3>2
            <4>2. i # 1 => c[i - 1] = b[i - 1]
                BY <2>3, <4>1
            <4>3. /\ g[b[i]].title = path[i]
                  /\ g[b[i]].up = IF i = 1 THEN Target ELSE b[i - 1]
                  /\ g[b[i]].label \/ b[i] \in T
                BY <2>1, <4>1 DEF Chain
            <4> QED BY <4>1, <4>2, <4>3
        <3> QED BY <3>1, <3>2
    <2>5. Chain(g, T, c, q, path, n + 1)
        BY <2>3, <2>4 DEF Chain
    <2> QED BY <2>3, <2>5 DEF LocTo
<1> QED BY <1>1, <1>2

\* What is later the case in a space of which T were touched by others, and then V.
Later(g, T, h, V) ==
    /\ IsSpace(g) /\ IsSpace(h) /\ T \subseteq V
    /\ \A q \in Id : g[q] # NoPage => h[q] # NoPage
    /\ \A q \in LiveIn(h) : g[q] # NoPage =>
         /\ q \in LiveIn(g)
         /\ h[q].type = g[q].type /\ h[q].up = g[q].up
         /\ h[q].above = g[q].above /\ h[q].title = g[q].title
         /\ g[q].files \subseteq h[q].files
         /\ g[q].label => h[q].label \/ q \in V

\* A page stays at the end of its path as long as it is there: its title and the way to it
\* never change, and labels go only from touched pages.
LEMMA LocLater ==
    ASSUME NEW g, NEW T, NEW h, NEW V, Later(g, T, h, V),
           NEW p, NEW path, NEW n \in Nat \ {0}, LocTo(g, T, p, path, n), p \in LiveIn(h)
    PROVE  LocTo(h, V, p, path, n)
<1>1. IsSpace(g) /\ IsSpace(h) /\ T \subseteq V
    BY DEF Later
<1>2. PICK c : Chain(g, T, c, p, path, n)
    BY DEF LocTo
<1>3. c \in [1..n -> LiveIn(g)] /\ c[n] = p
    BY <1>2 DEF Chain
<1>4. \A q \in LiveIn(g) : g[q] # NoPage
    BY <1>1, LiveShape
<1> DEFINE K == {k \in 0..(n - 1) : c[n - k] \notin LiveIn(h)}
<1>5. K = {}
    <2>1. SUFFICES ASSUME K # {} PROVE FALSE
        OBVIOUS
    <2>2. K \in SUBSET Nat
        OBVIOUS
    <2>3. PICK k \in K : \A m \in K : k <= m
        <3> HIDE DEF K
        <3> QED BY <2>1, <2>2, HasLeast
    <2>4. k \in 0..(n - 1) /\ c[n - k] \notin LiveIn(h)
        BY <2>3
    <2>5. k # 0
        BY <1>3, <2>4
    <2>6. k - 1 \in 0..(n - 1) /\ k - 1 \notin K
        <3>1. k - 1 \in 0..(n - 1) /\ ~(k <= k - 1)
            BY <2>4, <2>5
        <3> HIDE DEF K
        <3> QED BY <2>3, <3>1
    <2> DEFINE i == n - (k - 1)
    <2>7. i \in 1..n /\ i # 1 /\ i - 1 = n - k /\ c[i] \in LiveIn(h)
        BY <2>4, <2>5, <2>6
    <2> HIDE DEF i, K
    <2>8. /\ c[i] \in LiveIn(g) /\ g[c[i]].up = c[i - 1]
          /\ c[i] # Target
        <3>1. c[i] \in LiveIn(g) /\ c[i] # Target
            BY <1>1, <1>2, <2>7, ChainAt
        <3>2. g[c[i]].up = c[i - 1]
            BY <1>2, <2>7 DEF Chain
        <3> QED BY <3>1, <3>2
    <2>9. h[c[i]].up = c[i - 1]
        BY <1>4, <2>7, <2>8 DEF Later
    <2>10. c[i - 1] \in LiveIn(h)
        BY <1>1, <2>7, <2>8, <2>9, TreeFacts
    <2> QED BY <2>4, <2>7, <2>10
<1>6. ASSUME NEW i \in 1..n PROVE c[i] \in LiveIn(h)
    <2>1. n - i \in 0..(n - 1) /\ n - (n - i) = i
        OBVIOUS
    <2> QED BY <1>5, <2>1
<1> HIDE DEF K
<1>7. c \in [1..n -> LiveIn(h)]
    BY <1>3, <1>6
<1>8. ASSUME NEW i \in 1..n
      PROVE  /\ h[c[i]].title = path[i]
             /\ h[c[i]].up = IF i = 1 THEN Target ELSE c[i - 1]
             /\ h[c[i]].label \/ c[i] \in V
    <2>1. c[i] \in LiveIn(g) /\ c[i] \in LiveIn(h) /\ g[c[i]] # NoPage
        BY <1>3, <1>4, <1>6
    <2>2. /\ h[c[i]].title = g[c[i]].title /\ h[c[i]].up = g[c[i]].up
          /\ g[c[i]].label => h[c[i]].label \/ c[i] \in V
        BY <2>1 DEF Later
    <2>3. /\ g[c[i]].title = path[i]
          /\ g[c[i]].up = IF i = 1 THEN Target ELSE c[i - 1]
          /\ g[c[i]].label \/ c[i] \in T
        BY <1>2 DEF Chain
    <2> QED BY <1>1, <2>2, <2>3
<1> QED BY <1>3, <1>7, <1>8 DEF LocTo, Chain

\* A page has one path.
LEMMA ChainsMeet ==
    ASSUME NEW g, IsSpace(g), NEW T, NEW p, NEW s, NEW t, NEW n \in Nat \ {0}, NEW m \in Nat \ {0},
           NEW c, Chain(g, T, c, p, s, n), NEW b, Chain(g, T, b, p, t, m), n <= m
    PROVE  \A k \in 0..(n - 1) : c[n - k] = b[m - k]
<1> DEFINE K == {k \in 0..(n - 1) : c[n - k] # b[m - k]}
<1>1. SUFFICES ASSUME K # {} PROVE FALSE
    OBVIOUS
<1>2. K \in SUBSET Nat
    OBVIOUS
<1>3. PICK k \in K : \A j \in K : k <= j
    <2> HIDE DEF K
    <2> QED BY <1>1, <1>2, HasLeast
<1>4. k \in 0..(n - 1) /\ c[n - k] # b[m - k]
    BY <1>3
<1>5. k # 0
    BY <1>4 DEF Chain
<1>6. k - 1 \in 0..(n - 1) /\ c[n - (k - 1)] = b[m - (k - 1)]
    <2>1. k - 1 \in 0..(n - 1) /\ ~(k <= k - 1)
        BY <1>4, <1>5
    <2>2. k - 1 \notin K
        <3> HIDE DEF K
        <3> QED BY <1>3, <2>1
    <2> QED BY <2>1, <2>2
<1> DEFINE i == n - (k - 1)
           j == m - (k - 1)
<1>7. i \in 1..n /\ i # 1 /\ i - 1 = n - k /\ j \in 1..m /\ j # 1 /\ j - 1 = m - k /\ c[i] = b[j]
    BY <1>4, <1>5, <1>6
<1> HIDE DEF i, j, K
<1>8. g[c[i]].up = c[i - 1] /\ g[b[j]].up = b[j - 1]
    BY <1>7 DEF Chain
<1> QED BY <1>4, <1>7, <1>8

\* Two paths to one page are of one length ...
LEMMA NoLonger ==
    ASSUME NEW g, IsSpace(g), NEW T, NEW p, NEW s, NEW t, NEW n \in Nat \ {0}, NEW m \in Nat \ {0},
           NEW c, Chain(g, T, c, p, s, n), NEW b, Chain(g, T, b, p, t, m), n <= m
    PROVE  n = m
<1>1. SUFFICES ASSUME n # m PROVE FALSE
    OBVIOUS
<1>2. n - 1 \in 0..(n - 1) /\ n - (n - 1) = 1
    OBVIOUS
<1>3. c[1] = b[m - (n - 1)]
    <2>1. \A k \in 0..(n - 1) : c[n - k] = b[m - k]
        BY ChainsMeet
    <2> QED BY <1>2, <2>1
<1> DEFINE j == m - (n - 1)
<1>4. j \in 1..m /\ j > 1 /\ j # 1 /\ j - 1 \in 1..m
    BY <1>1
<1> HIDE DEF j
<1>5. g[c[1]].up = Target
    BY DEF Chain
<1>6. g[b[j]].up = b[j - 1] /\ b[j - 1] # Target
    <2>1. b[j - 1] # Target
        BY <1>4, ChainAt
    <2>2. g[b[j]].up = b[j - 1]
        BY <1>4 DEF Chain
    <2> QED BY <2>1, <2>2
<1> QED BY <1>3, <1>5, <1>6 DEF j

\* ... and have the same titles: a page is at the end of one path only.
LEMMA OnePath ==
    ASSUME NEW g, IsSpace(g), NEW T, NEW p, NEW s, NEW t, NEW n \in Nat \ {0}, NEW m \in Nat \ {0},
           LocTo(g, T, p, s, n), LocTo(g, T, p, t, m)
    PROVE  n = m /\ \A i \in 1..n : s[i] = t[i]
<1>1. PICK c : Chain(g, T, c, p, s, n)
    BY DEF LocTo
<1>2. PICK b : Chain(g, T, b, p, t, m)
    BY DEF LocTo
<1>3. n = m
    <2>1. n <= m \/ m <= n
        OBVIOUS
    <2> QED BY <1>1, <1>2, <2>1, NoLonger
<1>4. ASSUME NEW i \in 1..n PROVE s[i] = t[i]
    <2>1. n - i \in 0..(n - 1) /\ n - (n - i) = i /\ m - (n - i) = i /\ n <= m
        BY <1>3
    <2>2. \A k \in 0..(n - 1) : c[n - k] = b[m - k]
        <3>1. n <= m
            BY <2>1
        <3> QED BY ONLY IsSpace(g), n \in Nat \ {0}, m \in Nat \ {0}, <3>1, <1>1, <1>2, ChainsMeet
    <2>3. c[i] = b[i]
        BY <2>1, <2>2
    <2> QED BY <1>1, <1>2, <1>3, <2>3 DEF Chain
<1> QED BY <1>3, <1>4

------------------------------------------------------------------------------
\* What others do while a run goes on

ByOthers(g, T, F, U, h, V, W, X) ==
    /\ Later(g, T, h, V) /\ F \subseteq W /\ W \subseteq V
    /\ \A q \in Id : q \notin W => h[q] = g[q]
    /\ \A q \in LiveIn(g) \ LiveIn(h) : g[q].above \cup {q} \subseteq V
    /\ \A q \in LiveIn(h) : g[q] # NoPage =>
         /\ g[q].version <= h[q].version /\ (q \in X => q \in U \/ g[q].version < h[q].version)
         /\ h[q].label => g[q].label
    /\ h[Target].version = g[Target].version => h[Target].body.own = g[Target].body.own

\* What stays as it is in a page that was there before.
LEMMA LaterLive ==
    ASSUME NEW g, NEW T, NEW h, NEW V, Later(g, T, h, V), NEW q \in LiveIn(h), g[q] # NoPage
    PROVE  /\ q \in LiveIn(g) /\ q \in Id
           /\ h[q].type = g[q].type /\ h[q].up = g[q].up
           /\ h[q].above = g[q].above /\ h[q].title = g[q].title
           /\ g[q].files \subseteq h[q].files /\ (g[q].label => h[q].label \/ q \in V)
BY DEF Later, LiveIn

\* A page that others left alone is as it was.
LEMMA OthersSame ==
    ASSUME NEW g, NEW T, NEW F, NEW U, NEW h, NEW V, NEW W, NEW X, ByOthers(g, T, F, U, h, V, W, X),
           NEW q \in LiveIn(h), q \notin W
    PROVE  q \in LiveIn(g) /\ h[q] = g[q] /\ q \notin F /\ q \in Id
BY DEF ByOthers, LiveIn

\* The path of a file is a sequence, and not empty.
LEMMA SegmentsLen == \A d \in Doc : Len(Segments[d]) \in Nat \ {0} /\ Segments[d] \in Seq(Range(Segments[d]))
<1> TAKE d \in Doc
<1>1. Segments[d] \in Seq(Range(Segments[d])) /\ Segments[d] # <<>>
    BY AssumptionOfConfluence DEF ConfluenceAssumption
<1>2. Len(Segments[d]) \in Nat /\ Len(Segments[d]) # 0
    BY <1>1
<1> QED BY <1>1, <1>2

\* The next entry is one of those that are left.
LEMMA FirstIn ==
    ASSUME NEW S, S \subseteq Doc, S # {}
    PROVE  FirstOf(S) \in S /\ FirstOf(S) \in Doc
<1> DEFINE K == {i \in DOMAIN Files : Files[i] \in S}
<1>1. DOMAIN Files = 1..Len(Files) /\ Len(Files) \in Nat
    BY AssumptionOfConfluence DEF ConfluenceAssumption
<1>2. K \in SUBSET Nat /\ K # {}
    BY <1>1 DEF Doc, Range
<1>3. PICK k \in K : \A m \in K : k <= m
    <2> HIDE DEF K
    <2> QED BY <1>2, HasLeast
<1>4. \A j \in 1..(k - 1) : j \in DOMAIN Files /\ ~(k <= j)
    BY <1>1, <1>3
<1>5. \E i \in DOMAIN Files : Files[i] \in S /\ \A j \in 1..(i - 1) : Files[j] \notin S
    BY <1>3, <1>4
<1> QED BY <1>5 DEF FirstOf

\* What a run has mapped stays where it belongs.
LEMMA MappedLater ==
    ASSUME NEW g, NEW T, NEW h, NEW V, Later(g, T, h, V), NEW s, MappedOK(g, T, s),
           \A m \in s.mapped : m \in LiveIn(g) => m \in LiveIn(h) \/ m \in V
    PROVE  MappedOK(h, V, s)
<1>1. T \subseteq V /\ \A q \in Id : g[q] # NoPage => h[q] # NoPage
    BY DEF Later
<1>2. \A m \in s.mapped : m \in Id \ {Target} /\ g[m] # NoPage /\ h[m] # NoPage /\ (m \in LiveIn(h) \/ m \in V)
    BY <1>1 DEF MappedOK
<1>3. ASSUME NEW c \in s.cache
      PROVE  c.id \in s.mapped /\ (c.id \in LiveIn(h) => h[c.id].up = c.up /\ h[c.id].title = c.title)
    <2>1. c.id \in s.mapped /\ (c.id \in LiveIn(g) => g[c.id].up = c.up /\ g[c.id].title = c.title)
        BY DEF MappedOK
    <2> QED BY <1>2, <2>1, LaterLive
<1>4. ASSUME NEW m \in s.sure PROVE m \in s.mapped /\ (m \in LiveIn(h) => h[m].label \/ m \in V)
    <2>1. m \in s.mapped /\ (m \in LiveIn(g) => g[m].label \/ m \in T)
        BY DEF MappedOK
    <2> QED BY <1>1, <1>2, <2>1, LaterLive
<1>5. ASSUME NEW d \in Doc, s.placed[d] # NoId
      PROVE  /\ s.placed[d] \in s.mapped
             /\ s.placed[d] \in LiveIn(h) => LocIn(h, V, s.placed[d], Segments[d])
    <2>1. /\ s.placed[d] \in s.mapped
          /\ s.placed[d] \in LiveIn(g) => LocIn(g, T, s.placed[d], Segments[d])
        BY <1>5 DEF MappedOK
    <2>2. ASSUME s.placed[d] \in LiveIn(h) PROVE LocIn(h, V, s.placed[d], Segments[d])
        <3>1. s.placed[d] \in LiveIn(g)
            BY <1>2, <2>1, <2>2, LaterLive
        <3>2. LocTo(g, T, s.placed[d], Segments[d], Len(Segments[d]))
            BY <2>1, <3>1 DEF LocIn
        <3> QED BY <2>2, <3>2, SegmentsLen, LocLater DEF LocIn
    <2> QED BY <2>1, <2>2
<1> QED BY <1>2, <1>3, <1>4, <1>5 DEF MappedOK

\* The pages of an entry on the way to its own are where they were.
LEMMA AtLater ==
    ASSUME NEW g, NEW T, NEW h, NEW V, Later(g, T, h, V), NEW p, NEW d, NEW n \in Nat,
           AtIn(g, T, p, d, n), p = Target \/ g[p] # NoPage
    PROVE  AtIn(h, V, p, d, n)
<1>1. CASE n = 0
    BY <1>1 DEF AtIn
<1>2. CASE n # 0
    <2>1. SUFFICES ASSUME p \in LiveIn(h) PROVE LocTo(h, V, p, Segments[d], n)
        BY <1>2 DEF AtIn
    <2>2. g[p] # NoPage
        <3>1. Target \in LiveIn(g) /\ IsSpace(g)
            BY DEF Later, IsSpace, IsTree
        <3> QED BY <3>1, LiveShape
    <2>3. p \in LiveIn(g)
        BY <2>1, <2>2, LaterLive
    <2>4. LocTo(g, T, p, Segments[d], n)
        BY <1>2, <2>3 DEF AtIn
    <2> QED BY <1>2, <2>1, <2>4, LocLater
<1> QED BY <1>1, <1>2

\* What others do does not disturb the files that are done, ...
LEMMA OthersDone ==
    ASSUME NEW g, NEW T, NEW F, NEW U, NEW h, NEW V, NEW W, NEW X, ByOthers(g, T, F, U, h, V, W, X),
           NEW s, DoneOK(g, T, s)
    PROVE  DoneOK(h, V, s)
<1> SUFFICES ASSUME NEW d \in Doc \ s.todo, s.text[d] # Gone
             PROVE  /\ s.placed[d] # NoId
                    /\ AloneIn(s, d) /\ s.placed[d] \in LiveIn(h) \ V => ShowsIn(h, s.placed[d], d, s.text[d])
    BY DEF DoneOK
<1>1. /\ s.placed[d] # NoId
      /\ AloneIn(s, d) /\ s.placed[d] \in LiveIn(g) \ T => ShowsIn(g, s.placed[d], d, s.text[d])
    BY DEF DoneOK
<1>2. ASSUME AloneIn(s, d), s.placed[d] \in LiveIn(h) \ V PROVE ShowsIn(h, s.placed[d], d, s.text[d])
    <2>1. T \subseteq V /\ W \subseteq V
        BY DEF ByOthers, Later
    <2>2. s.placed[d] \in LiveIn(g) \ T /\ h[s.placed[d]] = g[s.placed[d]]
        BY <1>2, <2>1, OthersSame
    <2> QED BY <1>1, <1>2, <2>2 DEF ShowsIn
<1> QED BY <1>1, <1>2

\* ... the entry at hand, ...
LEMMA OthersEntry ==
    ASSUME NEW g, NEW T, NEW F, NEW U, NEW h, NEW V, NEW W, NEW X, ByOthers(g, T, F, U, h, V, W, X),
           NEW s, ShapeOK(s), MappedOK(g, T, s), EntryOK(g, T, U, s)
    PROVE  EntryOK(h, V, X, s)
<1> SUFFICES ASSUME s.pc \in EntryPcs PROVE EntryOK(h, V, X, s)
    BY DEF EntryOK
<1>1. Later(g, T, h, V) /\ T \subseteq V /\ W \subseteq V
    BY DEF ByOthers, Later
<1>2. \A m \in s.mapped : g[m] # NoPage /\ m \in Id
    BY DEF MappedOK
<1>3. \A d \in Doc : s.placed[d] # NoId => s.placed[d] \in s.mapped
    BY DEF MappedOK
<1> DEFINE d == Current(s)
<1>4. /\ s.seg \in 1..Len(Segments[d]) /\ s.at \in s.mapped \cup {Target}
      /\ AtIn(g, T, s.at, d, s.seg - 1)
    BY DEF EntryOK
<1> HIDE DEF d
<1>5. AtIn(h, V, s.at, d, s.seg - 1)
    <2>1. s.seg - 1 \in Nat
        BY <1>4
    <2> QED BY <1>1, <1>2, <1>4, <2>1, AtLater
<1>6. ASSUME s.pc \in {"labels", "addlabel"}
      PROVE  /\ s.id \in s.mapped
             /\ s.id \in LiveIn(h) => h[s.id].up = s.at /\ h[s.id].title = Segments[d][s.seg]
             /\ s.made => /\ s.seg = Len(Segments[d])
                          /\ s.id \in LiveIn(h) \ V => h[s.id].body = Body(d, s.text[d], "plain")
    <2>1. /\ s.id \in s.mapped
          /\ s.id \in LiveIn(g) => g[s.id].up = s.at /\ g[s.id].title = Segments[d][s.seg]
          /\ s.made => /\ s.seg = Len(Segments[d])
                       /\ s.id \in LiveIn(g) \ T => g[s.id].body = Body(d, s.text[d], "plain")
        BY <1>6 DEF EntryOK, d
    <2>2. s.id \in LiveIn(h) => s.id \in LiveIn(g) /\ h[s.id].up = g[s.id].up /\ h[s.id].title = g[s.id].title
        BY <1>1, <1>2, <2>1, LaterLive
    <2>3. s.id \in LiveIn(h) \ V => s.id \in LiveIn(g) \ T /\ h[s.id] = g[s.id]
        BY <1>1, OthersSame
    <2> QED BY <2>1, <2>2, <2>3
<1>7. ASSUME s.pc \in {"fetch", "rewrite", "put"}
      PROVE  s.id # NoId /\ s.id = s.placed[d]
    BY <1>7 DEF EntryOK, d
<1>8. ASSUME s.pc \in {"rewrite", "put"}, s.id \in LiveIn(h)
      PROVE  /\ s.version \in Nat /\ s.version <= h[s.id].version
             /\ s.id \in X => s.version < h[s.id].version
             /\ s.id \in LiveIn(g) /\ g[s.id].files \subseteq h[s.id].files
    <2>1. s.id \in Id /\ W \subseteq V /\ \A q \in Id : q \notin W => h[q] = g[q]
        BY <1>8 DEF LiveIn, ByOthers
    <2>2. g[s.id] # NoPage
        <3>1. d \in Doc
            BY FirstIn DEF d, Current, ShapeOK
        <3> QED BY <1>2, <1>3, <1>7, <1>8, <3>1
    <2> QED
        <3>1. s.id \in LiveIn(g) /\ g[s.id].files \subseteq h[s.id].files
            BY <1>1, <1>8, <2>2, LaterLive
        <3>2. s.version \in Nat /\ s.version <= g[s.id].version /\ (s.id \in U => s.version < g[s.id].version)
            BY <1>8, <3>1 DEF EntryOK, d
        <3>3. g[s.id].version <= h[s.id].version /\ (s.id \in X => s.id \in U \/ g[s.id].version < h[s.id].version)
            BY <1>8, <2>2 DEF ByOthers
        <3>4. g[s.id].version \in Nat /\ h[s.id].version \in Nat
            <4>1. IsSpace(g) /\ IsSpace(h)
                BY <1>1 DEF Later
            <4> QED BY <1>8, <3>1, <4>1, LiveShape
        <3> QED BY <3>1, <3>2, <3>3, <3>4
<1>9. ASSUME s.pc = "put"
      PROVE  \E form \in {"plain", "image", "code"} :
                /\ s.body = Body(d, s.text[d], form)
                /\ form = "image" /\ s.id \in LiveIn(h) => s.text[d] \in h[s.id].files
    <2>1. PICK form \in {"plain", "image", "code"} :
                /\ s.body = Body(d, s.text[d], form)
                /\ form = "image" /\ s.id \in LiveIn(g) => s.text[d] \in g[s.id].files
        BY <1>9 DEF EntryOK, d
    <2> QED BY <1>8, <1>9, <2>1
<1> QED BY <1>4, <1>5, <1>6, <1>7, <1>8, <1>9 DEF EntryOK, d

\* ... the listing, ...
LEMMA OthersListed ==
    ASSUME NEW g, NEW T, NEW F, NEW U, NEW h, NEW V, NEW W, NEW X, ByOthers(g, T, F, U, h, V, W, X),
           NEW s, ListedOK(g, T, F, s)
    PROVE  ListedOK(h, V, W, s)
<1>1. Later(g, T, h, V) /\ T \subseteq V /\ \A q \in Id : g[q] # NoPage => h[q] # NoPage
    BY DEF ByOthers, Later
<1>2. ASSUME NEW p \in BelowP(h, Target) \ W
      PROVE  p \in Ids(s.listing) /\ h[p].above \subseteq Ids(s.listing) \cup {Target}
    <2>1. p \in LiveIn(g) /\ h[p] = g[p] /\ p \notin F /\ Target \in h[p].above
        BY <1>2, OthersSame DEF BelowP
    <2>2. p \in BelowP(g, Target) \ F
        BY <2>1 DEF BelowP
    <2> QED BY <2>1, <2>2 DEF ListedOK
<1>3. ASSUME NEW e \in s.listing
      PROVE  /\ e.id \in Id \ {Target} /\ h[e.id] # NoPage
             /\ IF e.id \in LiveIn(h) THEN e = [id |-> e.id, type |-> h[e.id].type, above |-> h[e.id].above]
                ELSE {e.id} \cup e.above \subseteq V
    <2>1. e.id \in Id \ {Target} /\ g[e.id] # NoPage
        BY DEF ListedOK
    <2>2. CASE e.id \in LiveIn(h)
        <3>1. e.id \in LiveIn(g) /\ h[e.id].type = g[e.id].type /\ h[e.id].above = g[e.id].above
            BY <1>1, <2>1, <2>2, LaterLive
        <3>2. e = [id |-> e.id, type |-> g[e.id].type, above |-> g[e.id].above]
            BY <3>1 DEF ListedOK
        <3> QED BY <1>1, <2>1, <2>2, <3>1, <3>2
    <2>3. CASE e.id \notin LiveIn(h) /\ e.id \in LiveIn(g)
        <3>1. e = [id |-> e.id, type |-> g[e.id].type, above |-> g[e.id].above]
            BY <2>3 DEF ListedOK
        <3>2. e.above = g[e.id].above
            BY <3>1
        <3>3. g[e.id].above \cup {e.id} \subseteq V
            BY <2>3 DEF ByOthers
        <3> QED BY <1>1, <2>1, <2>3, <3>2, <3>3
    <2>4. CASE e.id \notin LiveIn(h) /\ e.id \notin LiveIn(g)
        <3>1. {e.id} \cup e.above \subseteq T
            BY <2>4 DEF ListedOK
        <3> QED BY <1>1, <2>1, <2>4, <3>1
    <2> QED BY <2>2, <2>3, <2>4
<1> QED BY <1>2, <1>3 DEF ListedOK

\* ... the deletions that are planned, ...
LEMMA OthersPrune ==
    ASSUME NEW g, NEW T, NEW F, NEW U, NEW h, NEW V, NEW W, NEW X, ByOthers(g, T, F, U, h, V, W, X),
           NEW s, PruneOK(g, T, F, s)
    PROVE  PruneOK(h, V, W, s)
<1>1. /\ Later(g, T, h, V) /\ T \subseteq V /\ W \subseteq V
      /\ \A q \in Id : g[q] # NoPage => h[q] # NoPage
    BY DEF ByOthers, Later
<1>2. ASSUME NEW a, NEW p \in BelowP(h, a) \ V
      PROVE  p \in BelowP(g, a) \ T /\ h[p] = g[p] /\ p \in LiveIn(h)
    <2>1. p \in LiveIn(h) /\ p \notin W /\ a \in h[p].above
        BY <1>1, <1>2 DEF BelowP
    <2>2. p \in LiveIn(g) /\ h[p] = g[p]
        BY <2>1, OthersSame
    <2> QED BY <1>1, <1>2, <2>1, <2>2 DEF BelowP
<1>3. s.pc = "plan" => ListedOK(h, V, W, s)
    BY OthersListed DEF PruneOK
<1>4. ASSUME SparedOK(g, F, s) PROVE SparedOK(h, W, s)
    <2>1. SUFFICES ASSUME NEW p \in LiveIn(h), Doomed(h, s, p), p \notin W PROVE LeftIn(h, s, p)
        BY DEF SparedOK
    <2>2. p \in LiveIn(g) /\ h[p] = g[p] /\ p \notin F
        BY <2>1, OthersSame
    <2>3. Doomed(g, s, p)
        BY <2>1, <2>2 DEF Doomed
    <2>4. LeftIn(g, s, p)
        BY <1>4, <2>2, <2>3 DEF SparedOK
    <2> QED BY <2>2, <2>4 DEF LeftIn
<1>5. ASSUME KeptOK(g, T, s) PROVE KeptOK(h, V, s)
    <2>1. SUFFICES ASSUME NEW p \in BelowP(h, Target) \ V, LeftIn(h, s, p), p \notin Ids(s.queue)
                   PROVE  \E q \in BelowP(h, p) : ~LeftIn(h, s, q) /\ ~Doomed(h, s, q)
        BY DEF KeptOK
    <2>2. p \in BelowP(g, Target) \ T /\ h[p] = g[p]
        BY <1>2, <2>1
    <2>3. LeftIn(g, s, p)
        BY <2>1, <2>2 DEF LeftIn
    <2>4. PICK q \in BelowP(g, p) : ~LeftIn(g, s, q) /\ ~Doomed(g, s, q)
        BY <1>5, <2>1, <2>2, <2>3 DEF KeptOK
    <2>5. q \in LiveIn(g) /\ p \in g[q].above
        BY <2>4 DEF BelowP
    <2>6. q \in LiveIn(h)
        BY <2>1, <2>5 DEF ByOthers
    <2>7. g[q] # NoPage
        BY <1>1, <2>5, LiveShape DEF Later
    <2>8. h[q].type = g[q].type /\ h[q].above = g[q].above /\ (h[q].label => g[q].label)
        BY <1>1, <2>6, <2>7, LaterLive DEF ByOthers
    <2>9. q \in BelowP(h, p)
        BY <2>5, <2>6, <2>8 DEF BelowP
    <2>10. ~LeftIn(h, s, q) /\ ~Doomed(h, s, q)
        BY <2>4, <2>8 DEF LeftIn, Doomed
    <2> QED BY <2>9, <2>10
<1> QED BY <1>2, <1>3, <1>4, <1>5 DEF PruneOK

\* ... or any other part of a run.
LEMMA OthersKeep ==
    ASSUME NEW g, NEW T, NEW F, NEW U, NEW h, NEW V, NEW W, NEW X, ByOthers(g, T, F, U, h, V, W, X),
           NEW s, ShapeOK(s), RunOK(g, T, F, U, s)
    PROVE  RunOK(h, V, W, X, s)
<1> SUFFICES ASSUME s.pc \notin {"idle", "failed"} PROVE RunOK(h, V, W, X, s)
    BY DEF RunOK
<1>1. MappedOK(g, T, s) /\ DoneOK(g, T, s) /\ EntryOK(g, T, U, s) /\ PruneOK(g, T, F, s) /\ SummaryOK(g, U, s)
    BY DEF RunOK
<1>2. MappedOK(h, V, s)
    <2>1. \A m \in s.mapped : m \in LiveIn(g) => m \in LiveIn(h) \/ m \in V
        BY DEF ByOthers
    <2>2. Later(g, T, h, V)
        BY DEF ByOthers
    <2> QED BY <1>1, <2>1, <2>2, MappedLater
<1>3. DoneOK(h, V, s) /\ EntryOK(h, V, X, s) /\ PruneOK(h, V, W, s)
    BY <1>1, OthersDone, OthersEntry, OthersPrune
<1>4. SummaryOK(h, X, s)
    <2>1. SUFFICES ASSUME s.pc = "putsummary" PROVE SummaryOK(h, X, s)
        BY DEF SummaryOK
    <2>2. /\ s.version \in Nat /\ s.version <= g[Target].version
          /\ Target \in U => s.version < g[Target].version
          /\ s.version = g[Target].version => s.body.own = g[Target].body.own
          /\ IsParent(s.body)
        BY <1>1, <2>1 DEF SummaryOK
    <2>3. IsSpace(g) /\ IsSpace(h) /\ Target \in LiveIn(g) /\ Target \in LiveIn(h)
        BY DEF ByOthers, Later, IsSpace, IsTree
    <2>4. g[Target] # NoPage /\ g[Target].version \in Nat /\ h[Target].version \in Nat
        BY <2>3, LiveShape
    <2>5. /\ g[Target].version <= h[Target].version
          /\ Target \in X => Target \in U \/ g[Target].version < h[Target].version
          /\ h[Target].version = g[Target].version => h[Target].body.own = g[Target].body.own
        BY <2>3, <2>4 DEF ByOthers
    <2> QED BY <2>2, <2>4, <2>5 DEF SummaryOK
<1> QED BY <1>2, <1>3, <1>4 DEF RunOK

\* A page p of g as it is in h, but for what writes change.
SamePage(g, h, p) ==
    /\ h[p].type = g[p].type /\ h[p].up = g[p].up /\ h[p].above = g[p].above /\ h[p].title = g[p].title

\* The page p is the only one that differs.
OnlyIn(g, h, p) ==
    /\ IsSpace(h) /\ LiveIn(h) = LiveIn(g)
    /\ \A q \in Id \ {p} : h[q] = g[q]
    /\ \A q \in Id : h[q] = NoPage <=> g[q] = NoPage
    /\ SamePage(g, h, p)

\* A page is replaced by one with its title.
LEMMA OnlyWith ==
    ASSUME NEW g, IsSpace(g), NEW p \in LiveIn(g), NEW r, Replaces(g, p, r), r.title = g[p].title
    PROVE  OnlyIn(g, With(g, p, r), p) /\ With(g, p, r)[p] = r
<1> DEFINE h == With(g, p, r)
<1>1. h = With(g, p, r)
    OBVIOUS
<1> HIDE DEF h
<1>2. /\ IsSpace(h) /\ LiveIn(h) = LiveIn(g) /\ h[p] = r
      /\ \A q \in Id \ {p} : h[q] = g[q]
      /\ \A q \in Id : h[q] = NoPage <=> g[q] = NoPage
    BY <1>1, Written
<1> QED BY <1>1, <1>2 DEF OnlyIn, SamePage, Replaces

BodyAt(g, p, b) == [g EXCEPT ![p].body = b, ![p].version = @ + 1]
LabelAt(g, p, v) == [g EXCEPT ![p].label = v]
FileAt(g, p, t) == [g EXCEPT ![p].files = @ \cup {t}]
\* An update of a page changes its body and its version, ...
LEMMA BodyWritten ==
    ASSUME NEW g, IsSpace(g), NEW p \in LiveIn(g), NEW b, p = Target => IsParent(b),
           NEW h, h = BodyAt(g, p, b)
    PROVE  /\ OnlyIn(g, h, p) /\ h[p].body = b /\ h[p].version = g[p].version + 1
           /\ h[p].files = g[p].files /\ h[p].label = g[p].label
<1>1. p \in Id /\ g[p] = [x \in PageFields |-> g[p][x]] /\ IsPage(g[p]) /\ g = [q \in Id |-> g[q]]
    BY LiveShape DEF IsSpace, IsPage
<1> DEFINE o == g[p]
           r == [x \in PageFields |-> IF x = "body" THEN b ELSE IF x = "version" THEN o.version + 1 ELSE o[x]]
<1>2. o = [x \in PageFields |-> o[x]]
    BY <1>1
<1>3. [[o EXCEPT !.body = b] EXCEPT !.version = o.version + 1] = r
    BY <1>2 DEF PageFields
<1>4. h = [g EXCEPT ![p] = [[o EXCEPT !.body = b] EXCEPT !.version = o.version + 1]]
    BY <1>1, <1>2 DEF PageFields, BodyAt
<1>5. h = With(g, p, r)
    BY <1>3, <1>4 DEF With
<1>6. /\ r = [x \in PageFields |-> r[x]]
      /\ r.type = o.type /\ r.up = o.up /\ r.above = o.above /\ r.title = o.title
      /\ r.body = b /\ r.version = o.version + 1 /\ r.files = o.files /\ r.label = o.label
    BY DEF PageFields
<1> HIDE DEF r
<1>7. IsPage(r) /\ (p = Target => IsParent(r.body))
    <2>1. o.version \in Nat /\ o.type \in {"page", "folder"}
        BY <1>1 DEF IsPage
    <2> HIDE DEF o
    <2> QED BY <1>6, <2>1 DEF IsPage
<1>8. Replaces(g, p, r)
    BY <1>6, <1>7 DEF Replaces
<1>9. OnlyIn(g, With(g, p, r), p) /\ With(g, p, r)[p] = r
    BY <1>6, <1>8, OnlyWith
<1> QED BY <1>5, <1>6, <1>9

\* ... a change of the label changes nothing else, ...
LEMMA LabelWritten ==
    ASSUME NEW g, IsSpace(g), NEW p \in LiveIn(g), NEW v, NEW h, h = LabelAt(g, p, v)
    PROVE  /\ OnlyIn(g, h, p) /\ h[p].body = g[p].body /\ h[p].version = g[p].version
           /\ h[p].files = g[p].files /\ h[p].label = v
<1>1. p \in Id /\ g[p] = [x \in PageFields |-> g[p][x]] /\ IsPage(g[p]) /\ g = [q \in Id |-> g[q]]
    BY LiveShape DEF IsSpace, IsPage
<1> DEFINE o == g[p]
           r == [x \in PageFields |-> IF x = "label" THEN v ELSE o[x]]
<1>2. [o EXCEPT !.label = v] = r
    BY <1>1 DEF PageFields
<1>3. h = With(g, p, r)
    BY <1>1, <1>2 DEF With, LabelAt
<1>4. /\ r = [x \in PageFields |-> r[x]]
      /\ r.type = o.type /\ r.up = o.up /\ r.above = o.above /\ r.title = o.title
      /\ r.body = o.body /\ r.version = o.version /\ r.files = o.files /\ r.label = v
    BY DEF PageFields
<1> HIDE DEF r
<1>5. IsPage(r) /\ (p = Target => IsParent(r.body))
    <2>1. o.version \in Nat /\ o.type \in {"page", "folder"} /\ (p = Target => IsParent(o.body))
        BY <1>1 DEF IsSpace, IsPage
    <2> HIDE DEF o
    <2> QED BY <1>4, <2>1 DEF IsPage
<1>6. Replaces(g, p, r)
    BY <1>4, <1>5 DEF Replaces
<1>7. OnlyIn(g, With(g, p, r), p) /\ With(g, p, r)[p] = r
    BY <1>4, <1>6, OnlyWith
<1> QED BY <1>3, <1>4, <1>7

\* ... and an upload adds an attachment.
LEMMA FilesWritten ==
    ASSUME NEW g, IsSpace(g), NEW p \in LiveIn(g), NEW t, NEW h, h = FileAt(g, p, t)
    PROVE  /\ OnlyIn(g, h, p) /\ h[p].body = g[p].body /\ h[p].version = g[p].version
           /\ h[p].files = g[p].files \cup {t} /\ h[p].label = g[p].label
<1>1. p \in Id /\ g[p] = [x \in PageFields |-> g[p][x]] /\ IsPage(g[p]) /\ g = [q \in Id |-> g[q]]
    BY LiveShape DEF IsSpace, IsPage
<1> DEFINE o == g[p]
           r == [x \in PageFields |-> IF x = "files" THEN o.files \cup {t} ELSE o[x]]
<1>2. [o EXCEPT !.files = o.files \cup {t}] = r
    BY <1>1 DEF PageFields
<1>3. h = With(g, p, r)
    BY <1>1, <1>2 DEF With, FileAt
<1>4. /\ r = [x \in PageFields |-> r[x]]
      /\ r.type = o.type /\ r.up = o.up /\ r.above = o.above /\ r.title = o.title
      /\ r.body = o.body /\ r.version = o.version /\ r.files = o.files \cup {t} /\ r.label = o.label
    BY DEF PageFields
<1> HIDE DEF r
<1>5. IsPage(r) /\ (p = Target => IsParent(r.body))
    <2>1. o.version \in Nat /\ o.type \in {"page", "folder"} /\ (p = Target => IsParent(o.body))
        BY <1>1 DEF IsSpace, IsPage
    <2> HIDE DEF o
    <2> QED BY <1>4, <2>1 DEF IsPage
<1>6. Replaces(g, p, r)
    BY <1>4, <1>5 DEF Replaces
<1>7. OnlyIn(g, With(g, p, r), p) /\ With(g, p, r)[p] = r
    BY <1>4, <1>6, OnlyWith
<1> QED BY <1>3, <1>4, <1>7

\* Such a write is later, whoever did it.
LEMMA OnlyLater ==
    ASSUME NEW g, IsSpace(g), NEW p \in LiveIn(g), NEW h, OnlyIn(g, h, p),
           NEW T, NEW V, T \subseteq V, g[p].files \subseteq h[p].files,
           g[p].label => h[p].label \/ p \in V
    PROVE  Later(g, T, h, V)
<1>1. p \in Id
    BY DEF LiveIn
<1>2. ASSUME NEW q \in LiveIn(h)
      PROVE  /\ q \in LiveIn(g)
             /\ h[q].type = g[q].type /\ h[q].up = g[q].up
             /\ h[q].above = g[q].above /\ h[q].title = g[q].title
             /\ g[q].files \subseteq h[q].files
             /\ g[q].label => h[q].label \/ q \in V
    <2>1. q \in LiveIn(g) /\ q \in Id
        BY DEF OnlyIn, LiveIn
    <2>2. CASE q = p
        BY <2>1, <2>2 DEF OnlyIn, SamePage
    <2>3. CASE q # p
        <3>1. h[q] = g[q]
            BY <2>1, <2>3 DEF OnlyIn
        <3> QED BY <2>1, <3>1
    <2> QED BY <2>2, <2>3
<1> QED BY <1>2 DEF Later, OnlyIn

\* What users write on a page p, and what is unread then.
UserWrote(g, h, p, U, X) ==
    /\ h[p].files = g[p].files /\ (h[p].label => g[p].label)
    /\ g[p].version <= h[p].version
    /\ h[p].version = g[p].version => h[p].body = g[p].body
    /\ X \subseteq U \cup {p}
    /\ p \in X => p \in U \/ g[p].version < h[p].version

\* Others may change one page that is there, ...
LEMMA OthersWrite ==
    ASSUME NEW g, IsSpace(g), NEW p \in LiveIn(g), NEW h, OnlyIn(g, h, p),
           NEW U, NEW X, UserWrote(g, h, p, U, X), NEW T, NEW F, F \subseteq T
    PROVE  ByOthers(g, T, F, U, h, T \cup {p}, F \cup {p}, X)
<1> USE DEF UserWrote
<1>1. Later(g, T, h, T \cup {p})
    BY OnlyLater
<1>2. \A q \in Id : q \notin F \cup {p} => h[q] = g[q]
    BY DEF OnlyIn
<1>3. \A q \in LiveIn(g) \ LiveIn(h) : g[q].above \cup {q} \subseteq T \cup {p}
    BY DEF OnlyIn
<1>4. ASSUME NEW q \in LiveIn(h), g[q] # NoPage
      PROVE  /\ g[q].version <= h[q].version /\ (q \in X => q \in U \/ g[q].version < h[q].version)
             /\ h[q].label => g[q].label
    <2>1. CASE q = p
        BY <2>1
    <2>2. CASE q # p
        <3>1. q \in Id /\ h[q] = g[q] /\ q \in LiveIn(g)
            BY <2>2 DEF OnlyIn, LiveIn
        <3>2. g[q].version \in Nat
            BY <3>1, LiveShape
        <3>3. q \in X => q \in U
            BY <2>2
        <3> QED BY <3>1, <3>2, <3>3
    <2> QED BY <2>1, <2>2
<1>5. h[Target].version = g[Target].version => h[Target].body.own = g[Target].body.own
    <2>1. CASE Target = p
        BY <2>1
    <2>2. CASE Target # p
        BY <2>2, TypesDiffer DEF OnlyIn
    <2> QED BY <2>1, <2>2
<1> QED BY <1>1, <1>2, <1>3, <1>4, <1>5 DEF ByOthers

\* ... add one, ...
LEMMA OthersAdd ==
    ASSUME NEW g, IsSpace(g), NEW n \in Id, g[n] = NoPage,
           NEW r, IsPage(r), r.up \in LiveIn(g), r.above = g[r.up].above \cup {r.up},
           NEW h, h = With(g, n, r),
           NEW T, NEW F, F \subseteq T, NEW U
    PROVE  ByOthers(g, T, F, U, h, T \cup {n}, F \cup {n}, U)
<1>1. /\ IsSpace(h) /\ LiveIn(h) = LiveIn(g) \cup {n} /\ n \notin LiveIn(g) /\ n # Target
      /\ h[n] = r /\ \A q \in Id \ {n} : h[q] = g[q]
    BY Added
<1>2. r # NoPage
    BY TypesDiffer DEF IsPage
<1>3. ASSUME NEW q \in LiveIn(h), g[q] # NoPage
      PROVE  q \in LiveIn(g) /\ h[q] = g[q] /\ g[q].version \in Nat
    <2>1. q # n /\ q \in LiveIn(g) /\ q \in Id
        BY <1>1, <1>3 DEF LiveIn
    <2>2. g[q].version \in Nat
        BY <2>1, LiveShape
    <2> QED BY <1>1, <2>1, <2>2
<1>4. Later(g, T, h, T \cup {n})
    BY <1>1, <1>2, <1>3 DEF Later
<1>5. h[Target].version = g[Target].version => h[Target].body.own = g[Target].body.own
    BY <1>1, TypesDiffer
<1> QED BY <1>1, <1>3, <1>4, <1>5 DEF ByOthers

\* ... or trash one with what is below it.
LEMMA OthersTrash ==
    ASSUME NEW g, IsSpace(g), NEW p \in Id \ {Target}, p \in LiveIn(g), NEW h, h = TrashIn(g, p),
           NEW T, NEW F, F \subseteq T, NEW U
    PROVE  ByOthers(g, T, F, U, h, T \cup {p} \cup BelowP(g, p) \cup g[p].above,
                    F \cup {p} \cup BelowP(g, p), U)
<1> DEFINE V == T \cup {p} \cup BelowP(g, p) \cup g[p].above
           W == F \cup {p} \cup BelowP(g, p)
<1>1. /\ IsSpace(h) /\ LiveIn(h) = LiveIn(g) \ ({p} \cup BelowP(g, p))
      /\ \A q \in LiveIn(h) : h[q] = g[q]
      /\ \A q \in Id : q \notin {p} \cup BelowP(g, p) => h[q] = g[q]
      /\ \A q \in Id : h[q] = NoPage => g[q] = NoPage
    BY Removed
<1>2. Later(g, T, h, V)
    BY <1>1 DEF Later
<1>3. ASSUME NEW q \in LiveIn(g) \ LiveIn(h) PROVE g[q].above \cup {q} \subseteq V
    <2>1. q = p \/ q \in BelowP(g, p)
        BY <1>1, <1>3
    <2>2. CASE q = p
        BY <2>2
    <2>3. CASE q \in BelowP(g, p)
        <3>1. q \in LiveIn(g) /\ p \in g[q].above
            BY <2>3 DEF BelowP
        <3>2. ASSUME NEW a \in g[q].above PROVE a \in V
            <4>1. a = p \/ a \in g[p].above \/ p \in g[a].above
                BY <3>1, TreeFacts
            <4>2. a \in LiveIn(g)
                BY <3>1, TreeFacts
            <4> QED BY <4>1, <4>2 DEF BelowP
        <3> QED BY <2>3, <3>2
    <2> QED BY <2>1, <2>2, <2>3
<1>4. ASSUME NEW q \in LiveIn(h)
      PROVE  q \in LiveIn(g) /\ h[q] = g[q] /\ g[q].version \in Nat
    BY <1>1, LiveShape
<1>5. Target \in LiveIn(h)
    BY <1>1 DEF IsSpace, IsTree
<1>6. h[Target].version = g[Target].version => h[Target].body.own = g[Target].body.own
    BY <1>4, <1>5
<1> HIDE DEF V
<1>7. F \subseteq W /\ W \subseteq V /\ \A q \in Id : q \notin W => h[q] = g[q]
    BY <1>1 DEF V
<1> HIDE DEF W
<1>8. ByOthers(g, T, F, U, h, V, W, U)
    BY <1>2, <1>3, <1>4, <1>6, <1>7 DEF ByOthers
<1> QED BY <1>8 DEF V, W

\* A write in flight still fits the space.
LEMMA InflightLater ==
    ASSUME NEW g, NEW T, NEW h, NEW V, Later(g, T, h, V), NEW ws, InflightOK(g, ws)
    PROVE  InflightOK(h, ws)
<1> SUFFICES ASSUME NEW w \in ws
             PROVE  /\ w.kind = "create" =>
                         /\ IsPage(w.page)
                         /\ w.page.up \in Id /\ h[w.page.up] # NoPage
                         /\ w.page.up \in LiveIn(h) => w.page.above = h[w.page.up].above \cup {w.page.up}
                    /\ w.kind = "delete" => w.id \in Id \ {Target}
    BY DEF InflightOK
<1>1. /\ w.kind = "create" =>
           /\ IsPage(w.page)
           /\ w.page.up \in Id /\ g[w.page.up] # NoPage
           /\ w.page.up \in LiveIn(g) => w.page.above = g[w.page.up].above \cup {w.page.up}
      /\ w.kind = "delete" => w.id \in Id \ {Target}
    BY DEF InflightOK
<1> DEFINE u == w.page.up
<1>2. w.kind = "create" => h[u] # NoPage
    BY <1>1 DEF Later
<1>3. w.kind = "create" /\ u \in LiveIn(h) => u \in LiveIn(g) /\ h[u].above = g[u].above
    BY <1>1, LaterLive
<1> QED BY <1>1, <1>2, <1>3

\* A new page gets an id that was never used.
LEMMA NextIdUnused == Unused # {} => NextId \in Id /\ page[NextId] = NoPage
<1> SUFFICES ASSUME Unused # {} PROVE NextId \in Unused
    BY DEF Unused
<1>1. Unused \in SUBSET Nat
    BY TypesDiffer DEF Unused
<1>2. \E p \in Unused : \A q \in Unused : p <= q
    BY <1>1, HasLeast
<1> QED BY <1>2 DEF NextId

\* A write that landed is not missed.
LEMMA InflightFewer ==
    ASSUME NEW g, NEW ws, InflightOK(g, ws), NEW vs, vs \subseteq ws
    PROVE  InflightOK(g, vs)
BY DEF InflightOK

\* What others do keeps the invariant.
LEMMA OthersKeepAll ==
    ASSUME WikiInv, ByOthers(page, touched, fresh, unread, page', touched', fresh', unread'),
           sync' = sync, inflight' \subseteq inflight, tree' = [d \in Doc |-> tree'[d]]
    PROVE  WikiInv'
<1>1. Later(page, touched, page', touched') /\ fresh' \subseteq touched' /\ IsSpace(page')
    BY DEF ByOthers, Later
<1>2. ShapeOK(sync) /\ RunOK(page, touched, fresh, unread, sync) /\ InflightOK(page, inflight)
    BY DEF WikiInv
<1>3. RunOK(page', touched', fresh', unread', sync)
    BY <1>2, OthersKeep
<1>4. InflightOK(page', inflight)
    BY <1>1, <1>2, InflightLater
<1>5. InflightOK(page', inflight')
    BY <1>4, InflightFewer
<1> QED BY <1>1, <1>2, <1>3, <1>5 DEF WikiInv

\* The fields of a new page.
LEMMA PageAtIsPage ==
    \A type, up, above, title, body :
        LET r == PageAt(type, up, above, title, body) IN
        /\ r = [x \in PageFields |-> r[x]]
        /\ r.type = type /\ r.up = up /\ r.above = above /\ r.title = title
        /\ r.body = body /\ r.version = 1 /\ r.label = FALSE /\ r.files = {}
<1> TAKE type, up, above, title, body
<1> DEFINE r == PageAt(type, up, above, title, body)
<1>1. r = PageAt(type, up, above, title, body)
    OBVIOUS
<1> HIDE DEF r
<1>2. /\ r = [x \in PageFields |-> r[x]]
      /\ r.type = type /\ r.up = up /\ r.above = above /\ r.title = title
      /\ r.body = body /\ r.version = 1 /\ r.label = FALSE /\ r.files = {}
    BY <1>1 DEF PageAt, PageFields
<1> QED BY <1>2 DEF r

\* Others may do nothing.
LEMMA SameByOthers ==
    ASSUME NEW g, IsSpace(g), NEW T, NEW F, F \subseteq T, NEW U
    PROVE  ByOthers(g, T, F, U, g, T, F, U)
<1>1. \A q \in LiveIn(g) : g[q].version \in Nat
    BY LiveShape
<1> QED BY <1>1 DEF ByOthers, Later

\* The target keeps the shape of its body when a user edits it.
LEMMA ParentEdited ==
    ASSUME NEW b, IsParent(b), NEW v
    PROVE  IsParent([b EXCEPT !.own = v]) /\ IsParent([b EXCEPT !.marks = v])
<1>1. b = [x \in BodyFields |-> b[x]]
    BY DEF IsParent
<1>2. ASSUME NEW f \in BodyFields PROVE IsParent([b EXCEPT ![f] = v])
    BY <1>1 DEF IsParent
<1> QED BY <1>2 DEF BodyFields

\* A user edits a page, ...
LEMMA UserEditsKeeps ==
    ASSUME WikiInv, NEW p \in Id, UserEdits(p) PROVE WikiInv'
<1>1. /\ IsSpace(page) /\ p \in LiveIn(page) /\ fresh \subseteq touched
      /\ sync' = sync /\ inflight' = inflight /\ tree' = tree /\ tree = [d \in Doc |-> tree[d]]
      /\ unread' = unread \cup {p} /\ touched' = touched \cup {p} /\ fresh' = fresh \cup {p}
    BY DEF WikiInv, UserEdits, Change, Others, Live
<1>2. PICK body : /\ page' = BodyAt(page, p, body)
                  /\ p = Target => IsParent(body)
    <2>1. IsParent(page[Target].body)
        BY <1>1 DEF IsSpace
    <2> DEFINE b == page[p].body
    <2>2. PICK body \in IF p = Target THEN {[b EXCEPT !.own = @ + 1], [b EXCEPT !.marks = "damaged"]} ELSE {Edited} :
             page' = [page EXCEPT ![p].body = body, ![p].version = @ + 1]
        BY DEF UserEdits
    <2>3. ASSUME p = Target PROVE IsParent(body)
        <3>1. IsParent(b)
            BY <2>1, <2>3
        <3>2. body = [b EXCEPT !.own = b.own + 1] \/ body = [b EXCEPT !.marks = "damaged"]
            BY <2>2, <2>3
        <3> HIDE DEF b
        <3>3. IsParent([b EXCEPT !.own = b.own + 1]) /\ IsParent([b EXCEPT !.marks = "damaged"])
            BY <3>1, ParentEdited
        <3> QED BY <3>2, <3>3
    <2> QED BY <2>2, <2>3 DEF BodyAt
<1>3. /\ OnlyIn(page, page', p) /\ page'[p].version = page[p].version + 1
      /\ page'[p].files = page[p].files /\ page'[p].label = page[p].label
    BY <1>1, <1>2, BodyWritten
<1>4. page[p].version \in Nat
    BY <1>1, LiveShape
<1>5. ByOthers(page, touched, fresh, unread, page', touched', fresh', unread')
    <2>1. page[p].version < page'[p].version /\ page[p].version <= page'[p].version
        BY <1>3, <1>4
    <2>2. UserWrote(page, page', p, unread, unread \cup {p})
        BY <1>3, <1>4, <2>1 DEF UserWrote
    <2>3. ByOthers(page, touched, fresh, unread, page', touched \cup {p}, fresh \cup {p}, unread \cup {p})
        BY <1>1, <1>3, <2>2, OthersWrite
    <2> QED BY <1>1, <2>3
<1> QED BY <1>1, <1>5, OthersKeepAll

No == FALSE
Yes == TRUE
\* ... takes its label away, ...
LEMMA UserUnlabelsKeeps ==
    ASSUME WikiInv, NEW p \in Id, UserUnlabels(p) PROVE WikiInv'
<1>1. /\ IsSpace(page) /\ p \in LiveIn(page) /\ fresh \subseteq touched
      /\ sync' = sync /\ inflight' = inflight /\ tree' = tree /\ tree = [d \in Doc |-> tree[d]]
      /\ unread' = unread /\ touched' = touched \cup {p} /\ fresh' = fresh \cup {p}
      /\ page' = LabelAt(page, p, No)
    BY DEF WikiInv, UserUnlabels, Change, Others, Live, LabelAt, No
<1>2. /\ OnlyIn(page, page', p) /\ page'[p].body = page[p].body /\ page'[p].version = page[p].version
      /\ page'[p].files = page[p].files /\ page'[p].label = FALSE
    <2>1. /\ OnlyIn(page, page', p) /\ page'[p].body = page[p].body /\ page'[p].version = page[p].version
          /\ page'[p].files = page[p].files /\ page'[p].label = No
        BY <1>1, LabelWritten
    <2> QED BY <2>1 DEF No
<1>3. page[p].version \in Nat
    BY <1>1, LiveShape
<1>4. ByOthers(page, touched, fresh, unread, page', touched', fresh', unread')
    <2>1. UserWrote(page, page', p, unread, unread)
        BY <1>2, <1>3 DEF UserWrote
    <2>2. ByOthers(page, touched, fresh, unread, page', touched \cup {p}, fresh \cup {p}, unread)
        BY <1>1, <1>2, <2>1, OthersWrite
    <2> QED BY <1>1, <2>2
<1> QED BY <1>1, <1>4, OthersKeepAll

\* A deletion, with the space as a parameter.
LEMMA TrashIsTrashIn == \A p \in Id : Trash(p) = TrashIn(page, p) /\ Below(p) = BelowP(page, p)
BY DEF Trash, TrashIn, Below, BelowP, Live

\* ... trashes it, ...
LEMMA UserTrashesKeeps ==
    ASSUME WikiInv, NEW p \in Id, UserTrashes(p) PROVE WikiInv'
<1>1. /\ IsSpace(page) /\ p \in LiveIn(page) /\ p # Target /\ fresh \subseteq touched
      /\ sync' = sync /\ inflight' = inflight /\ tree' = tree /\ tree = [d \in Doc |-> tree[d]]
      /\ unread' = unread /\ page' = TrashIn(page, p)
      /\ touched' = touched \cup {p} \cup BelowP(page, p) \cup page[p].above
      /\ fresh' = fresh \cup {p} \cup BelowP(page, p)
    BY TrashIsTrashIn DEF WikiInv, UserTrashes, Change, Live
<1>2. ByOthers(page, touched, fresh, unread, page', touched', fresh', unread')
    <2>1. ByOthers(page, touched, fresh, unread, page', touched \cup {p} \cup BelowP(page, p) \cup page[p].above,
                   fresh \cup {p} \cup BelowP(page, p), unread)
        BY <1>1, OthersTrash
    <2> QED BY <1>1, <2>1
<1> QED BY <1>1, <1>2, OthersKeepAll

\* ... or adds one.
LEMMA UserAddsKeeps ==
    ASSUME WikiInv, NEW type \in {"page", "folder"}, NEW up \in Id, NEW title, UserAdds(type, up, title)
    PROVE  WikiInv'
<1> DEFINE r == NewPage(type, up, title, Edited)
           n == NextId
<1>1. /\ IsSpace(page) /\ up \in LiveIn(page) /\ fresh \subseteq touched
      /\ sync' = sync /\ inflight' = inflight /\ tree' = tree /\ tree = [d \in Doc |-> tree[d]]
      /\ unread' = unread /\ page' = With(page, n, r)
      /\ touched' = touched \cup {n} /\ fresh' = fresh \cup {n} /\ n \in Id /\ page[n] = NoPage
    BY NextIdUnused DEF WikiInv, UserAdds, Change, Others, Live, With
<1>2. IsPage(r) /\ r.up = up /\ r.above = page[up].above \cup {up}
    <2> DEFINE above == page[up].above \cup {up}
    <2>1. r = PageAt(type, up, above, title, Edited)
        BY DEF NewPage
    <2> HIDE DEF r, above
    <2>2. r = [x \in PageFields |-> r[x]] /\ r.type = type /\ r.up = up /\ r.above = above /\ r.version = 1
        BY <2>1, PageAtIsPage
    <2> QED BY <2>2 DEF above, IsPage
<1> HIDE DEF r, n
<1>3. r.up \in LiveIn(page) /\ r.above = page[r.up].above \cup {r.up}
    BY <1>1, <1>2
<1>4. ByOthers(page, touched, fresh, unread, page', touched \cup {n}, fresh \cup {n}, unread)
    BY <1>1, <1>2, <1>3, OthersAdd
<1>5. ByOthers(page, touched, fresh, unread, page', touched', fresh', unread')
    BY <1>1, <1>4
<1> QED BY <1>1, <1>5, OthersKeepAll

\* A change of the files is not read before the next run.
LEMMA FilesKeep ==
    ASSUME WikiInv, (\E d \in Doc : FileChanges(d)) \/ RendererChanges PROVE WikiInv'
<1>1. /\ IsSpace(page) /\ fresh \subseteq touched /\ sync' = sync /\ inflight' = inflight
      /\ page' = page /\ touched' = touched /\ fresh' = fresh /\ unread' = unread
    BY DEF WikiInv, FileChanges, RendererChanges, Change
<1>2. tree' = [d \in Doc |-> tree'[d]]
    <2>1. tree = [d \in Doc |-> tree[d]]
        BY DEF WikiInv
    <2>2. CASE RendererChanges
        BY <2>1, <2>2 DEF RendererChanges
    <2>3. CASE \E d \in Doc : FileChanges(d)
        BY <2>1, <2>3 DEF FileChanges
    <2> QED BY <2>2, <2>3
<1>3. ByOthers(page, touched, fresh, unread, page', touched', fresh', unread')
    BY <1>1, SameByOthers
<1> QED BY <1>1, <1>2, <1>3, OthersKeepAll

\* A write whose caller gave up may land at any time.
LEMMA LandsKeeps ==
    ASSUME WikiInv, NEW w \in inflight, Lands(w) PROVE WikiInv'
<1>1. /\ IsSpace(page) /\ fresh \subseteq touched /\ sync' = sync /\ inflight' \subseteq inflight
      /\ tree' = tree /\ unread' = unread /\ tree = [d \in Doc |-> tree[d]] /\ InflightOK(page, inflight)
    BY DEF WikiInv, Lands
<1>2. CASE UNCHANGED <<page, touched, fresh>>
    <2>1. ByOthers(page, touched, fresh, unread, page', touched', fresh', unread')
        BY <1>1, <1>2, SameByOthers
    <2> QED BY <1>1, <2>1, OthersKeepAll
<1>3. CASE /\ w.kind = "create" /\ w.page.up \in Live /\ Unused # {}
           /\ page' = [page EXCEPT ![NextId] = w.page] /\ Others({NextId})
    <2> DEFINE r == w.page
               n == NextId
    <2>1. /\ r.up \in LiveIn(page) /\ page' = With(page, n, r)
          /\ touched' = touched \cup {n} /\ fresh' = fresh \cup {n} /\ n \in Id /\ page[n] = NoPage
        BY <1>3, NextIdUnused DEF Others, Live, With
    <2>2. IsPage(r) /\ r.above = page[r.up].above \cup {r.up}
        BY <1>1, <1>3, <2>1 DEF InflightOK
    <2> HIDE DEF r, n
    <2>3. ByOthers(page, touched, fresh, unread, page', touched \cup {n}, fresh \cup {n}, unread)
        BY <1>1, <2>1, <2>2, OthersAdd
    <2>4. ByOthers(page, touched, fresh, unread, page', touched', fresh', unread')
        BY <1>1, <2>1, <2>3
    <2> QED BY <1>1, <2>4, OthersKeepAll
<1>4. CASE /\ w.kind = "delete" /\ w.id \in Live
           /\ page' = Trash(w.id) /\ fresh' = fresh \cup {w.id} \cup Below(w.id)
           /\ touched' = touched \cup {w.id} \cup Below(w.id) \cup page[w.id].above
    <2> DEFINE p == w.id
    <2>1. p \in Id \ {Target} /\ p \in LiveIn(page)
        BY <1>1, <1>4 DEF InflightOK, Live
    <2>2. /\ page' = TrashIn(page, p) /\ fresh' = fresh \cup {p} \cup BelowP(page, p)
          /\ touched' = touched \cup {p} \cup BelowP(page, p) \cup page[p].above
        BY <1>4, <2>1, TrashIsTrashIn
    <2> HIDE DEF p
    <2>3. ByOthers(page, touched, fresh, unread, page', touched \cup {p} \cup BelowP(page, p) \cup page[p].above,
                   fresh \cup {p} \cup BelowP(page, p), unread)
        BY <1>1, <2>1, <2>2, OthersTrash
    <2>4. ByOthers(page, touched, fresh, unread, page', touched', fresh', unread')
        BY <1>1, <2>2, <2>3
    <2> QED BY <1>1, <2>4, OthersKeepAll
<1> QED BY <1>2, <1>3, <1>4 DEF Lands

\* Whatever others do, the invariant holds.
LEMMA UserKeeps ==
    ASSUME WikiInv, User PROVE WikiInv'
<1>1. CASE \E p \in Id : UserEdits(p) \/ UserUnlabels(p) \/ UserTrashes(p)
    BY <1>1, UserEditsKeeps, UserUnlabelsKeeps, UserTrashesKeeps
<1>2. CASE \E type \in {"page", "folder"}, up \in Id, title \in UserTitle : UserAdds(type, up, title)
    BY <1>2, UserAddsKeeps
<1>3. CASE (\E d \in Doc : FileChanges(d)) \/ RendererChanges
    BY <1>3, FilesKeep
<1>4. CASE \E w \in inflight : Lands(w)
    BY <1>4, LandsKeeps
<1> QED BY <1>1, <1>2, <1>3, <1>4 DEF User

IsRun(s) == s = [x \in RunFields |-> s[x]]

\* What the books of s say stays true when t has the same.
SameBooks(s, t) ==
    /\ t.text = s.text /\ t.mapped = s.mapped /\ t.cache = s.cache /\ t.sure = s.sure
    /\ t.placed = s.placed
SameTask(s, t) == t.clean = s.clean /\ t.todo = s.todo /\ t.queue = s.queue /\ t.listing = s.listing

\* What is mapped and done is the same for two states of a run with the same books.
LEMMA BooksKept ==
    ASSUME NEW g, NEW T, NEW s, NEW t, SameBooks(s, t)
    PROVE  /\ MappedOK(g, T, s) => MappedOK(g, T, t)
           /\ DoneOK(g, T, s) /\ t.todo = s.todo => DoneOK(g, T, t)
           /\ \A p : LeftIn(g, s, p) <=> LeftIn(g, t, p)
           /\ \A d \in Doc : AloneIn(s, d) <=> AloneIn(t, d)
<1>1. \A p : LeftIn(g, s, p) <=> LeftIn(g, t, p)
    BY DEF SameBooks, LeftIn
<1>2. \A d \in Doc : AloneIn(s, d) <=> AloneIn(t, d)
    BY DEF SameBooks, AloneIn
<1>3. MappedOK(g, T, s) => MappedOK(g, T, t)
    BY DEF SameBooks, MappedOK
<1>4. DoneOK(g, T, s) /\ t.todo = s.todo => DoneOK(g, T, t)
    BY <1>2 DEF SameBooks, DoneOK
<1> QED BY <1>1, <1>2, <1>3, <1>4

\* Between two steps of an entry, and before and after it.
ReadyOK(g, T, s) ==
    /\ IsRun(s) /\ s.text = [d \in Doc |-> s.text[d]] /\ s.placed = [d \in Doc |-> s.placed[d]]
    /\ s.todo \subseteq {d \in Doc : s.text[d] # Gone} /\ s.queue = {}
    /\ MappedOK(g, T, s) /\ DoneOK(g, T, s)
    /\ s.clean => BelowP(g, Target) \ T \subseteq s.mapped

\* What the beginning of an entry sets, and what it leaves alone.
LEMMA EntryFields ==
    ASSUME NEW s, IsRun(s), NEW t, t = Entry(s)
    PROVE  /\ IsRun(t) /\ SameBooks(s, t) /\ SameTask(s, t)
           /\ s.todo = {} => t.pc = IF s.clean THEN "summary" ELSE "list"
           /\ s.todo # {} => t.pc = "lookup" /\ t.seg = 1 /\ t.at = Target
<1>1. s = [x \in RunFields |-> s[x]]
    BY DEF IsRun
<1>2. CASE s.todo = {}
    <2>1. t = [s EXCEPT !.pc = IF s.clean THEN "summary" ELSE "list"]
        BY <1>2 DEF Entry, AfterEntries
    <2> QED BY <1>1, <1>2, <2>1 DEF RunFields, IsRun, SameBooks, SameTask
<1>3. CASE s.todo # {}
    <2>1. t = [s EXCEPT !.pc = "lookup", !.seg = 1, !.at = Target, !.id = NoId, !.made = FALSE,
                        !.version = 0, !.body = Empty]
        BY <1>3 DEF Entry
    <2> QED BY <1>1, <1>3, <2>1 DEF RunFields, IsRun, SameBooks, SameTask
<1> QED BY <1>2, <1>3

\* The next entry begins, or the pruning.
LEMMA EntryKeeps ==
    ASSUME NEW g, NEW T, NEW F, NEW U, NEW s, ReadyOK(g, T, s), NEW t, t = Entry(s)
    PROVE  ShapeOK(t) /\ RunOK(g, T, F, U, t)
<1>1. /\ IsRun(t) /\ SameBooks(s, t) /\ SameTask(s, t)
      /\ s.todo = {} => t.pc = IF s.clean THEN "summary" ELSE "list"
      /\ s.todo # {} => t.pc = "lookup" /\ t.seg = 1 /\ t.at = Target
    BY EntryFields DEF ReadyOK
<1>2. MappedOK(g, T, t) /\ DoneOK(g, T, t)
    BY <1>1, BooksKept DEF ReadyOK, SameTask
<1>3. ShapeOK(t)
    BY <1>1 DEF ReadyOK, ShapeOK, SameBooks, SameTask, Pcs, EntryPcs, IsRun
<1>4. EntryOK(g, T, U, t)
    <2> SUFFICES ASSUME t.pc \in EntryPcs PROVE EntryOK(g, T, U, t)
        BY DEF EntryOK
    <2>1. t.pc = "lookup" /\ t.seg = 1 /\ t.at = Target /\ s.todo # {}
        BY <1>1 DEF EntryPcs
    <2> DEFINE d == Current(t)
    <2>2. d \in Doc
        BY <1>1, <2>1, FirstIn DEF Current, ReadyOK, SameTask
    <2>3. t.seg \in 1..Len(Segments[d]) /\ AtIn(g, T, t.at, d, t.seg - 1)
        BY <2>1, <2>2, SegmentsLen DEF AtIn
    <2> HIDE DEF d
    <2> QED BY <2>1, <2>3 DEF EntryOK, d
<1>5. PruneOK(g, T, F, t)
    <2>1. t.pc \in {"lookup", "list"} \/ (t.clean /\ t.pc = "summary")
        BY <1>1 DEF SameTask
    <2>2. t.queue = {} /\ (t.clean => BelowP(g, Target) \ T \subseteq t.mapped)
        BY <1>1 DEF ReadyOK, SameTask, SameBooks
    <2> QED BY <2>1, <2>2 DEF PruneOK
<1>6. SummaryOK(g, U, t)
    BY <1>1 DEF SummaryOK
<1> QED BY <1>2, <1>3, <1>4, <1>5, <1>6 DEF RunOK

\* The end of an entry: the page of its file has been placed and shows its text.
NextOf(s) == Entry([s EXCEPT !.todo = @ \ {Current(s)}])
\* An entry ends when its page has its label, or its content.
LEMMA NextOfKeeps ==
    ASSUME NEW g, NEW T, NEW F, NEW U, NEW s, ReadyOK(g, T, s), s.todo # {},
           s.placed[Current(s)] # NoId,
           AloneIn(s, Current(s)) /\ s.placed[Current(s)] \in LiveIn(g) \ T
               => ShowsIn(g, s.placed[Current(s)], Current(s), s.text[Current(s)]),
           NEW t, t = NextOf(s)
    PROVE  ShapeOK(t) /\ RunOK(g, T, F, U, t)
<1> DEFINE d == Current(s)
           u == [s EXCEPT !.todo = s.todo \ {d}]
<1>1. t = Entry(u)
    BY DEF NextOf
<1>2. IsRun(u) /\ SameBooks(s, u) /\ u.todo = s.todo \ {d} /\ u.clean = s.clean /\ u.queue = s.queue
    <2>1. s = [x \in RunFields |-> s[x]]
        BY DEF ReadyOK, IsRun
    <2> HIDE DEF d
    <2> QED BY <2>1 DEF RunFields, IsRun, SameBooks
<1> HIDE DEF u
<1>3. MappedOK(g, T, u)
    BY <1>2, BooksKept DEF ReadyOK
<1>4. DoneOK(g, T, u)
    <2> SUFFICES ASSUME NEW e \in Doc \ u.todo, u.text[e] # Gone
                 PROVE  /\ u.placed[e] # NoId
                        /\ AloneIn(u, e) /\ u.placed[e] \in LiveIn(g) \ T => ShowsIn(g, u.placed[e], e, u.text[e])
        BY DEF DoneOK
    <2>1. u.placed[e] = s.placed[e] /\ u.text[e] = s.text[e] /\ (AloneIn(u, e) => AloneIn(s, e))
        BY <1>2, BooksKept DEF SameBooks
    <2>2. CASE e = d
        BY <2>1, <2>2
    <2>3. CASE e # d
        <3>1. e \in Doc \ s.todo
            BY <1>2, <2>3
        <3>2. DoneOK(g, T, s)
            BY DEF ReadyOK
        <3> QED BY <2>1, <3>1, <3>2 DEF DoneOK
    <2> QED BY <2>2, <2>3
<1>5. ReadyOK(g, T, u)
    BY <1>2, <1>3, <1>4 DEF ReadyOK, SameBooks
<1> QED BY <1>1, <1>5, EntryKeeps

\* Where an entry is, and the page found or made for its segment.
WayOK(g, T, s) ==
    /\ s.todo # {}
    /\ s.seg \in 1..Len(Segments[Current(s)]) /\ s.at \in s.mapped \cup {Target}
    /\ AtIn(g, T, s.at, Current(s), s.seg - 1)
FoundOK(g, T, s) ==
    /\ s.id \in s.mapped
    /\ s.id \in LiveIn(g) => g[s.id].up = s.at /\ g[s.id].title = Segments[Current(s)][s.seg]
    /\ s.made => /\ s.seg = Len(Segments[Current(s)])
                 /\ s.id \in LiveIn(g) \ T => g[s.id].body = Body(Current(s), s.text[Current(s)], "plain")

LabelledOf(s) ==
    LET t == [s EXCEPT !.sure = @ \cup {s.id}]
        d == Current(s)
    IN  IF s.seg # Len(Segments[d]) THEN [t EXCEPT !.pc = "lookup", !.seg = @ + 1, !.at = s.id]
        ELSE LET u == [t EXCEPT !.placed[d] = s.id]
             IN  IF s.made THEN NextOf(u) ELSE [u EXCEPT !.pc = "fetch"]

\* The current entry is of a file that is there.
LEMMA CurrentIn ==
    ASSUME NEW s, s.todo \subseteq {d \in Doc : s.text[d] # Gone}, s.todo # {}
    PROVE  Current(s) \in Doc /\ Current(s) \in s.todo /\ s.text[Current(s)] # Gone
<1>1. s.todo \subseteq Doc
    OBVIOUS
<1> QED BY <1>1, FirstIn DEF Current

\* The way to the page of the segment, once it has its label.
LEMMA LocFound ==
    ASSUME NEW g, IsSpace(g), NEW T, NEW s, ReadyOK(g, T, s), WayOK(g, T, s), FoundOK(g, T, s),
           s.id \in LiveIn(g), g[s.id].label \/ s.id \in T
    PROVE  LocTo(g, T, s.id, Segments[Current(s)], s.seg)
<1> DEFINE d == Current(s)
           n == s.seg - 1
<1>1. /\ n \in Nat /\ n + 1 = s.seg /\ s.at \in s.mapped \cup {Target}
      /\ AtIn(g, T, s.at, d, n) /\ d \in Doc
    <2>1. d \in Doc
        BY CurrentIn DEF WayOK, ReadyOK
    <2>2. Len(Segments[d]) \in Nat
        BY <2>1, SegmentsLen
    <2> QED BY <2>1, <2>2 DEF WayOK
<1>2. s.at \in Id
    BY <1>1, TypesDiffer DEF ReadyOK, MappedOK
<1>3. g[s.id].up = s.at /\ g[s.id].title = Segments[d][n + 1]
    BY <1>1 DEF FoundOK
<1>4. s.at \in LiveIn(g)
    BY <1>2, <1>3, HasUp
<1> HIDE DEF d, n
<1>5. (n = 0 => s.at = Target) /\ (n # 0 => LocTo(g, T, s.at, Segments[d], n))
    BY <1>1, <1>4 DEF AtIn
<1>6. LocTo(g, T, s.id, Segments[d], n + 1)
    BY <1>1, <1>3, <1>5, LocNext
<1> QED BY <1>1, <1>6 DEF d

\* The page of a segment has its label: the next segment, or the page of the file.
LEMMA LabelledKeeps ==
    ASSUME NEW g, IsSpace(g), NEW T, NEW F, NEW U, NEW s, ReadyOK(g, T, s), WayOK(g, T, s), FoundOK(g, T, s),
           s.id \in LiveIn(g) => g[s.id].label \/ s.id \in T,
           NEW t, t = LabelledOf(s)
    PROVE  ShapeOK(t) /\ RunOK(g, T, F, U, t)
<1> DEFINE d == Current(s)
           s1 == [s EXCEPT !.sure = s.sure \cup {s.id}]
<1>1. d \in Doc /\ d \in s.todo /\ s.text[d] # Gone
    BY CurrentIn DEF WayOK, ReadyOK
<1>2. /\ s = [x \in RunFields |-> s[x]] /\ s.placed = [e \in Doc |-> s.placed[e]]
      /\ s.text = [e \in Doc |-> s.text[e]]
    BY DEF ReadyOK, IsRun
<1>3. s.id \in s.mapped /\ s.id \in Id \ {Target} /\ s.id # NoId
    BY TypesDiffer DEF FoundOK, ReadyOK, MappedOK
<1>4. s.id \in LiveIn(g) => LocTo(g, T, s.id, Segments[d], s.seg)
    BY LocFound
<1>5. /\ IsRun(s1) /\ s1.text = s.text /\ s1.mapped = s.mapped /\ s1.cache = s.cache
      /\ s1.placed = s.placed /\ s1.sure = s.sure \cup {s.id} /\ SameTask(s, s1)
      /\ s1.seg = s.seg /\ s1.at = s.at /\ s1.id = s.id /\ s1.made = s.made
    BY <1>2 DEF RunFields, IsRun, SameTask
<1>6. t = IF s.seg # Len(Segments[d]) THEN [s1 EXCEPT !.pc = "lookup", !.seg = s1.seg + 1, !.at = s.id]
          ELSE IF s.made THEN NextOf([s1 EXCEPT !.placed[d] = s.id])
          ELSE [[s1 EXCEPT !.placed[d] = s.id] EXCEPT !.pc = "fetch"]
    BY DEF LabelledOf
<1> HIDE DEF d, s1
<1>7. MappedOK(g, T, s1)
    <2>1. MappedOK(g, T, s)
        BY DEF ReadyOK
    <2>2. \A m \in s1.sure : m \in s1.mapped /\ (m \in LiveIn(g) => g[m].label \/ m \in T)
        BY <1>3, <1>5, <2>1 DEF MappedOK
    <2> QED BY <1>5, <2>1, <2>2 DEF MappedOK
<1>8. DoneOK(g, T, s1)
    <2>1. DoneOK(g, T, s)
        BY DEF ReadyOK
    <2>2. \A e \in Doc : AloneIn(s1, e) <=> AloneIn(s, e)
        BY <1>5 DEF AloneIn
    <2> QED BY <1>5, <2>1, <2>2 DEF DoneOK, SameTask
<1>9. ReadyOK(g, T, s1)
    BY <1>5, <1>7, <1>8 DEF ReadyOK, SameTask
<1>10. CASE s.seg # Len(Segments[d])
    <2>1. t = [s1 EXCEPT !.pc = "lookup", !.seg = s1.seg + 1, !.at = s.id]
        BY <1>6, <1>10
    <2>2. /\ IsRun(t) /\ SameBooks(s1, t) /\ SameTask(s1, t)
          /\ t.pc = "lookup" /\ t.seg = s.seg + 1 /\ t.at = s.id
        BY <1>5, <2>1 DEF RunFields, IsRun, SameBooks, SameTask
    <2>3. MappedOK(g, T, t) /\ DoneOK(g, T, t)
        BY <1>9, <2>2, BooksKept DEF ReadyOK, SameTask
    <2>4. ShapeOK(t)
        BY <1>1, <1>5, <1>9, <2>2 DEF ReadyOK, ShapeOK, SameBooks, SameTask, Pcs, EntryPcs, IsRun
    <2>5. Current(t) = d
        BY <1>5, <2>2 DEF Current, SameTask, d
    <2>6. EntryOK(g, T, U, t)
        <3>1. t.seg \in 1..Len(Segments[d]) /\ t.seg - 1 = s.seg /\ s.seg # 0
            BY <1>1, <1>10, <2>2, SegmentsLen DEF WayOK, d
        <3>2. AtIn(g, T, t.at, d, t.seg - 1) /\ t.at \in t.mapped
            BY <1>3, <1>4, <1>5, <2>2, <3>1 DEF AtIn, SameBooks
        <3> QED BY <2>2, <2>5, <3>1, <3>2 DEF EntryOK
    <2>7. PruneOK(g, T, F, t)
        BY <1>9, <2>2 DEF ReadyOK, SameTask, SameBooks, PruneOK
    <2>8. SummaryOK(g, U, t)
        BY <2>2 DEF SummaryOK
    <2> QED BY <2>3, <2>4, <2>6, <2>7, <2>8 DEF RunOK
<1>11. CASE s.seg = Len(Segments[d])
    <2> DEFINE s2 == [s1 EXCEPT !.placed[d] = s.id]
    <2>1. /\ IsRun(s2) /\ s2.text = s.text /\ s2.mapped = s1.mapped /\ s2.cache = s1.cache /\ s2.sure = s1.sure
          /\ SameTask(s1, s2) /\ s2.made = s.made /\ s2.id = s.id /\ s2.seg = s.seg /\ s2.at = s.at
          /\ s2.placed = [s1.placed EXCEPT ![d] = s.id]
        BY <1>5 DEF RunFields, IsRun, SameTask
    <2>2. /\ s2.placed = [e \in Doc |-> s2.placed[e]] /\ s2.placed[d] = s.id
          /\ \A e \in Doc \ {d} : s2.placed[e] = s1.placed[e]
        BY <1>1, <1>2, <1>5, <2>1
    <2> HIDE DEF s2
    <2>3. MappedOK(g, T, s2)
        <3>1. ASSUME NEW e \in Doc, s2.placed[e] # NoId
              PROVE  s2.placed[e] \in s2.mapped /\ (s2.placed[e] \in LiveIn(g) => LocIn(g, T, s2.placed[e], Segments[e]))
            <4>1. CASE e = d
                BY <1>3, <1>4, <1>5, <1>11, <2>1, <2>2, <4>1 DEF LocIn
            <4>2. CASE e # d
                BY <1>7, <2>1, <2>2, <3>1, <4>2 DEF MappedOK
            <4> QED BY <4>1, <4>2
        <3> QED BY <1>7, <2>1, <3>1 DEF MappedOK
    <2>4. DoneOK(g, T, s2)
        <3>1. \A e \in Doc : AloneIn(s2, e) <=> AloneIn(s1, e)
            BY <1>5, <2>1 DEF AloneIn
        <3>2. \A e \in Doc \ s2.todo : e # d /\ s2.placed[e] = s1.placed[e] /\ e \notin s1.todo
            BY <1>1, <1>5, <2>1, <2>2 DEF SameTask
        <3> QED BY <1>5, <1>8, <2>1, <3>1, <3>2 DEF DoneOK
    <2>5. ReadyOK(g, T, s2)
        BY <1>5, <1>9, <2>1, <2>2, <2>3, <2>4 DEF ReadyOK, SameTask
    <2>6. Current(s2) = d /\ s2.todo # {}
        BY <1>1, <1>5, <2>1 DEF Current, SameTask, d
    <2>7. CASE s.made
        <3>1. t = NextOf(s2)
            BY <1>6, <1>11, <2>7 DEF s2
        <3>2. s.id \in LiveIn(g) \ T => ShowsIn(g, s.id, d, s.text[d])
            BY <2>7 DEF FoundOK, ShowsIn, Body, d
        <3> QED BY <1>3, <2>1, <2>2, <2>5, <2>6, <3>1, <3>2, NextOfKeeps
    <2>8. CASE ~s.made
        <3>1. t = [s2 EXCEPT !.pc = "fetch"]
            BY <1>6, <1>11, <2>8 DEF s2
        <3>2. /\ IsRun(t) /\ SameBooks(s2, t) /\ SameTask(s2, t)
              /\ t.pc = "fetch" /\ t.seg = s.seg /\ t.at = s.at /\ t.id = s.id
            BY <2>1, <3>1 DEF RunFields, IsRun, SameBooks, SameTask
        <3>3. MappedOK(g, T, t) /\ DoneOK(g, T, t)
            BY <2>5, <3>2, BooksKept DEF ReadyOK, SameTask
        <3>4. ShapeOK(t)
            BY <2>5, <2>6, <3>2 DEF ReadyOK, ShapeOK, SameBooks, SameTask, Pcs, EntryPcs, IsRun
        <3>5. Current(t) = d
            BY <2>6, <3>2 DEF Current, SameTask
        <3>6. EntryOK(g, T, U, t)
            <4>1. /\ t.seg \in 1..Len(Segments[d]) /\ t.at \in t.mapped \cup {Target}
                  /\ AtIn(g, T, t.at, d, t.seg - 1)
                BY <1>5, <2>1, <3>2 DEF WayOK, SameBooks, d
            <4>2. t.seg = Len(Segments[d]) /\ t.id # NoId /\ t.id = t.placed[d]
                BY <1>3, <1>11, <2>2, <3>2 DEF SameBooks
            <4> QED BY <3>2, <3>5, <4>1, <4>2 DEF EntryOK
        <3>7. PruneOK(g, T, F, t)
            BY <2>5, <3>2 DEF ReadyOK, SameTask, SameBooks, PruneOK
        <3>8. SummaryOK(g, U, t)
            BY <3>2 DEF SummaryOK
        <3> QED BY <3>3, <3>4, <3>6, <3>7, <3>8 DEF RunOK
    <2> QED BY <2>7, <2>8
<1> QED BY <1>10, <1>11

\* What the invariant says of a run that is at an entry.
LEMMA EntryReady ==
    ASSUME NEW g, NEW T, NEW F, NEW U, NEW s, ShapeOK(s), RunOK(g, T, F, U, s), s.pc \in EntryPcs
    PROVE  /\ ReadyOK(g, T, s) /\ WayOK(g, T, s)
           /\ s.pc \in {"labels", "addlabel"} => FoundOK(g, T, s)
<1>1. s.pc \notin {"idle", "failed"} /\ s.pc # "delete"
    BY DEF EntryPcs
<1>2. MappedOK(g, T, s) /\ DoneOK(g, T, s) /\ EntryOK(g, T, U, s) /\ PruneOK(g, T, F, s)
    BY <1>1 DEF RunOK
<1>3. ReadyOK(g, T, s)
    BY <1>1, <1>2 DEF ReadyOK, ShapeOK, IsRun, PruneOK
<1>4. WayOK(g, T, s)
    BY <1>2 DEF WayOK, EntryOK, ShapeOK
<1>5. s.pc \in {"labels", "addlabel"} => FoundOK(g, T, s)
    BY <1>2 DEF FoundOK, EntryOK
<1> QED BY <1>3, <1>4, <1>5

CacheItem(s, p) == [up |-> s.at, title |-> Segments[Current(s)][s.seg], id |-> p]
MappedOf(s, p, made) ==
    LET u == [s EXCEPT !.id = p, !.made = made, !.mapped = @ \cup {p}, !.cache = @ \cup {CacheItem(s, p)}]
    IN  IF p \in s.sure THEN LabelledOf(u) ELSE [u EXCEPT !.pc = "labels"]

\* The page p serves the segment that s is at.
ServesOK(g, T, s, p, made) ==
    /\ p \in Id \ {Target} /\ g[p] # NoPage /\ (p \in LiveIn(g) \/ p \in T)
    /\ p \in LiveIn(g) => g[p].up = s.at /\ g[p].title = Segments[Current(s)][s.seg]
    /\ made => /\ s.seg = Len(Segments[Current(s)])
               /\ p \in LiveIn(g) \ T => g[p].body = Body(Current(s), s.text[Current(s)], "plain")

\* Ready but for the page p, which a clean run has just made.
ReadyBut(g, T, s, p) ==
    /\ IsRun(s) /\ s.text = [d \in Doc |-> s.text[d]] /\ s.placed = [d \in Doc |-> s.placed[d]]
    /\ s.todo \subseteq {d \in Doc : s.text[d] # Gone} /\ s.queue = {}
    /\ MappedOK(g, T, s) /\ DoneOK(g, T, s)
    /\ s.clean => BelowP(g, Target) \ T \subseteq s.mapped \cup {p}

\* The page of a segment is found, or made.
LEMMA MappedKeeps ==
    ASSUME NEW g, IsSpace(g), NEW T, NEW F, NEW U, NEW s, NEW p, NEW made,
           ReadyBut(g, T, s, p), WayOK(g, T, s), ServesOK(g, T, s, p, made),
           NEW t, t = MappedOf(s, p, made)
    PROVE  ShapeOK(t) /\ RunOK(g, T, F, U, t)
<1> DEFINE item == CacheItem(s, p)
           u == [s EXCEPT !.id = p, !.made = made, !.mapped = s.mapped \cup {p}, !.cache = s.cache \cup {item}]
<1>1. t = IF p \in s.sure THEN LabelledOf(u) ELSE [u EXCEPT !.pc = "labels"]
    BY DEF MappedOf
<1>2. s = [x \in RunFields |-> s[x]]
    BY DEF ReadyBut, IsRun
<1>3. item.id = p /\ item.up = s.at /\ item.title = Segments[Current(s)][s.seg]
    BY DEF CacheItem
<1> HIDE DEF item
<1>4. /\ IsRun(u) /\ u.text = s.text /\ u.placed = s.placed /\ u.sure = s.sure /\ SameTask(s, u)
      /\ u.mapped = s.mapped \cup {p} /\ u.cache = s.cache \cup {item}
      /\ u.seg = s.seg /\ u.at = s.at /\ u.id = p /\ u.made = made
    BY <1>2 DEF RunFields, IsRun, SameTask
<1> HIDE DEF u
<1>5. MappedOK(g, T, u)
    <2>1. MappedOK(g, T, s)
        BY DEF ReadyBut
    <2>2. \A m \in u.mapped : m \in Id \ {Target} /\ g[m] # NoPage /\ (m \in LiveIn(g) \/ m \in T)
        BY <1>4, <2>1 DEF MappedOK, ServesOK
    <2>3. ASSUME NEW c \in u.cache
          PROVE  c.id \in u.mapped /\ (c.id \in LiveIn(g) => g[c.id].up = c.up /\ g[c.id].title = c.title)
        <3>1. CASE c = item
            BY <1>3, <1>4, <3>1 DEF ServesOK
        <3>2. CASE c # item
            BY <1>4, <2>1, <2>3, <3>2 DEF MappedOK
        <3> QED BY <3>1, <3>2
    <2> QED BY <1>4, <2>1, <2>2, <2>3 DEF MappedOK
<1>6. DoneOK(g, T, u)
    <2>1. \A e \in Doc : AloneIn(u, e) <=> AloneIn(s, e)
        BY <1>4 DEF AloneIn
    <2> QED BY <1>4, <2>1 DEF DoneOK, ReadyBut, SameTask
<1>7. ReadyOK(g, T, u)
    BY <1>4, <1>5, <1>6 DEF ReadyBut, ReadyOK, SameTask
<1>8. Current(u) = Current(s)
    BY <1>4 DEF Current, SameTask
<1>9. WayOK(g, T, u)
    BY <1>4, <1>8 DEF WayOK, SameTask
<1>10. FoundOK(g, T, u)
    BY <1>4, <1>8 DEF FoundOK, ServesOK
<1>11. CASE p \in s.sure
    <2>1. u.id \in LiveIn(g) => g[u.id].label \/ u.id \in T
        BY <1>4, <1>5, <1>11 DEF MappedOK
    <2>2. t = LabelledOf(u)
        BY <1>1, <1>11
    <2> QED BY <1>7, <1>9, <1>10, <2>1, <2>2, LabelledKeeps
<1>12. CASE p \notin s.sure
    <2>1. t = [u EXCEPT !.pc = "labels"]
        BY <1>1, <1>12
    <2>2. /\ IsRun(t) /\ SameBooks(u, t) /\ SameTask(u, t)
          /\ t.pc = "labels" /\ t.seg = u.seg /\ t.at = u.at /\ t.id = u.id /\ t.made = u.made
        BY <1>4, <2>1 DEF RunFields, IsRun, SameBooks, SameTask
    <2>3. MappedOK(g, T, t) /\ DoneOK(g, T, t)
        BY <1>7, <2>2, BooksKept DEF ReadyOK, SameTask
    <2>4. ShapeOK(t)
        BY <1>7, <1>9, <2>2 DEF ReadyOK, WayOK, ShapeOK, SameBooks, SameTask, Pcs, EntryPcs, IsRun
    <2>5. Current(t) = Current(u)
        BY <2>2 DEF Current, SameTask
    <2>6. EntryOK(g, T, U, t)
        <3> DEFINE d == Current(u)
        <3>1. /\ t.seg \in 1..Len(Segments[d]) /\ t.at \in t.mapped \cup {Target}
              /\ AtIn(g, T, t.at, d, t.seg - 1)
            BY <1>9, <2>2 DEF WayOK, SameBooks
        <3>2. /\ t.id \in t.mapped
              /\ t.id \in LiveIn(g) => g[t.id].up = t.at /\ g[t.id].title = Segments[d][t.seg]
              /\ t.made => /\ t.seg = Len(Segments[d])
                           /\ t.id \in LiveIn(g) \ T => g[t.id].body = Body(d, t.text[d], "plain")
            BY <1>10, <2>2 DEF FoundOK, SameBooks
        <3> HIDE DEF d
        <3>3. Current(t) = d
            BY <2>5 DEF d
        <3> QED BY <2>2, <3>1, <3>2, <3>3 DEF EntryOK
    <2>7. PruneOK(g, T, F, t)
        BY <1>7, <2>2 DEF ReadyOK, SameTask, SameBooks, PruneOK, EntryPcs
    <2>8. SummaryOK(g, U, t)
        BY <2>2 DEF SummaryOK
    <2> QED BY <2>3, <2>4, <2>6, <2>7, <2>8 DEF RunOK
<1> QED BY <1>11, <1>12

\* The steps of an entry, with the run as a parameter.
LEMMA LabelledIs ==
    ASSUME NEW s, IsRun(s), s.todo = sync.todo, s.seg = sync.seg PROVE Labelled(s) = LabelledOf(s)
<1> DEFINE d == File
           s1 == [s EXCEPT !.sure = s.sure \cup {s.id}]
           s2 == [s1 EXCEPT !.placed[d] = s.id]
<1>1. Current(s) = d /\ d = FirstOf(sync.todo)
    BY DEF Current, File
<1>2. s1.todo = s.todo /\ IsRun(s1) /\ s1.seg = s.seg
    BY DEF IsRun, RunFields
<1>3. Labelled(s) = IF s.seg # Len(Segments[d]) THEN [s1 EXCEPT !.pc = "lookup", !.seg = @ + 1, !.at = s.id]
                    ELSE IF s.made THEN NextEntry(s2) ELSE [s2 EXCEPT !.pc = "fetch"]
    BY DEF Labelled, Leaf
<1>4. LabelledOf(s) = IF s.seg # Len(Segments[d]) THEN [s1 EXCEPT !.pc = "lookup", !.seg = @ + 1, !.at = s.id]
                      ELSE IF s.made THEN NextOf(s2) ELSE [s2 EXCEPT !.pc = "fetch"]
    BY <1>1 DEF LabelledOf
<1> HIDE DEF d, s1
<1>5. s2.todo = s.todo
    BY <1>2 DEF IsRun, RunFields
<1> HIDE DEF s2
<1>6. NextEntry(s2) = NextOf(s2)
    BY <1>1, <1>5 DEF NextEntry, NextOf, Current, d
<1> QED BY <1>3, <1>4, <1>6

\* ... of the next entry, ...
LEMMA NextIs ==
    ASSUME NEW s, s.todo = sync.todo PROVE NextEntry(s) = NextOf(s)
BY DEF NextEntry, NextOf, Current, File

\* ... and of a page that is known.
LEMMA MappedIs ==
    ASSUME IsRun(sync), NEW p, NEW made PROVE Mapped(p, made) = MappedOf(sync, p, made)
<1> DEFINE item == Remember(p)
           u == [sync EXCEPT !.id = p, !.made = made, !.mapped = sync.mapped \cup {p},
                             !.cache = sync.cache \cup {item}]
<1>1. item = CacheItem(sync, p)
    BY DEF Remember, CacheItem, Title, Current, File
<1>2. Mapped(p, made) = IF p \in sync.sure THEN Labelled(u) ELSE [u EXCEPT !.pc = "labels"]
    BY DEF Mapped
<1>3. MappedOf(sync, p, made) = IF p \in sync.sure THEN LabelledOf(u) ELSE [u EXCEPT !.pc = "labels"]
    BY <1>1 DEF MappedOf
<1> HIDE DEF item
<1>4. IsRun(u) /\ u.todo = sync.todo /\ u.seg = sync.seg
    BY DEF IsRun, RunFields
<1> HIDE DEF u
<1> QED BY <1>2, <1>3, <1>4, LabelledIs

\* A step of the run keeps the invariant if the space, the writes in flight and the run are right.
LEMMA GoesOn ==
    ASSUME WikiInv, IsSpace(page'), InflightOK(page', inflight'), fresh' \subseteq touched', tree' = tree,
           ShapeOK(sync'), RunOK(page', touched', fresh', unread', sync')
    PROVE  WikiInv'
BY DEF WikiInv

\* A run that failed relies on nothing.
LEMMA FailedOK ==
    ASSUME NEW t, t = [Idle EXCEPT !.pc = "failed"]
    PROVE  ShapeOK(t) /\ \A g, T, F, U : RunOK(g, T, F, U, t)
<1>1. /\ t.pc = "failed" /\ IsRun(t) /\ t.todo = {} /\ t.queue = {} /\ t.clean = FALSE
      /\ t.text = [d \in Doc |-> Gone] /\ t.placed = [d \in Doc |-> NoId] /\ t.mapped = {}
    BY DEF Idle, IsRun, RunFields
<1>2. t.text = [d \in Doc |-> t.text[d]] /\ t.placed = [d \in Doc |-> t.placed[d]]
    BY <1>1
<1>3. ShapeOK(t)
    BY <1>1, <1>2 DEF ShapeOK, Pcs, EntryPcs, IsRun
<1> QED BY <1>1, <1>3 DEF RunOK

\* A run may fail at any time.
LEMMA FailKeeps ==
    ASSUME WikiInv, Fail, IsSpace(page'), InflightOK(page', inflight'), fresh' \subseteq touched', tree' = tree
    PROVE  WikiInv'
BY FailedOK, GoesOn DEF Fail

\* The end of a run that changed nothing.
LEMMA QuietFailKeeps ==
    ASSUME WikiInv, Fail, UNCHANGED <<page, inflight, touched, fresh, tree>> PROVE WikiInv'
<1>1. IsSpace(page') /\ InflightOK(page', inflight') /\ fresh' \subseteq touched'
    BY DEF WikiInv
<1> QED BY <1>1, FailKeeps

\* A step of an entry that only moves on.
LEMMA EntryStep ==
    ASSUME NEW g, NEW T, NEW F, NEW U, NEW s, ReadyOK(g, T, s), NEW t, IsRun(t), SameBooks(s, t), SameTask(s, t),
           t.pc \in EntryPcs, s.todo # {}, EntryOK(g, T, U, t)
    PROVE  ShapeOK(t) /\ RunOK(g, T, F, U, t)
<1>1. MappedOK(g, T, t) /\ DoneOK(g, T, t)
    BY BooksKept DEF ReadyOK, SameTask
<1>2. ShapeOK(t)
    BY DEF ReadyOK, ShapeOK, SameBooks, SameTask, Pcs, EntryPcs, IsRun
<1>3. PruneOK(g, T, F, t)
    BY DEF ReadyOK, SameTask, SameBooks, PruneOK, EntryPcs
<1>4. SummaryOK(g, U, t)
    BY DEF SummaryOK, EntryPcs
<1> QED BY <1>1, <1>2, <1>3, <1>4 DEF RunOK

\* The entry has to make its page.
LEMMA ToCreate ==
    ASSUME NEW g, NEW T, NEW F, NEW U, NEW s, ReadyOK(g, T, s), WayOK(g, T, s), NEW t, t = [s EXCEPT !.pc = "create"]
    PROVE  ShapeOK(t) /\ RunOK(g, T, F, U, t)
<1>1. /\ IsRun(t) /\ SameBooks(s, t) /\ SameTask(s, t) /\ t.pc = "create" /\ t.seg = s.seg /\ t.at = s.at
    BY DEF ReadyOK, IsRun, RunFields, SameBooks, SameTask
<1>2. Current(t) = Current(s)
    BY <1>1 DEF Current, SameTask
<1>3. EntryOK(g, T, U, t)
    BY <1>1, <1>2 DEF EntryOK, WayOK, SameBooks
<1> QED BY <1>1, <1>3, EntryStep DEF WayOK, EntryPcs

\* What the invariant says of the entry of the run.
LEMMA EntryFacts ==
    ASSUME WikiInv, sync.pc \in EntryPcs
    PROVE  /\ ReadyOK(page, touched, sync) /\ WayOK(page, touched, sync) /\ IsRun(sync) /\ IsSpace(page)
           /\ fresh \subseteq touched /\ InflightOK(page, inflight) /\ sync.at \in Id /\ File = Current(sync)
           /\ EntryOK(page, touched, unread, sync)
           /\ File \in Doc /\ File \in sync.todo /\ sync.text[File] # Gone
           /\ sync.pc \in {"labels", "addlabel"} => FoundOK(page, touched, sync)
<1>1. /\ ReadyOK(page, touched, sync) /\ WayOK(page, touched, sync)
      /\ sync.pc \in {"labels", "addlabel"} => FoundOK(page, touched, sync)
    BY EntryReady DEF WikiInv
<1>2. IsRun(sync) /\ sync.at \in Id
    BY <1>1, TypesDiffer DEF ReadyOK, WayOK, MappedOK
<1>3. File = Current(sync)
    BY DEF File, Current
<1>4. File \in Doc /\ File \in sync.todo /\ sync.text[File] # Gone
    BY <1>1, <1>3, CurrentIn DEF ReadyOK, WayOK
<1>5. EntryOK(page, touched, unread, sync)
    BY DEF WikiInv, RunOK, EntryPcs
<1> QED BY <1>1, <1>2, <1>3, <1>4, <1>5 DEF WikiInv

\* A read of an entry keeps the invariant if the run does.
LEMMA ReadKeeps ==
    ASSUME WikiInv, UNCHANGED <<page, inflight, touched, fresh, tree>>,
           ShapeOK(sync'), RunOK(page, touched, fresh, unread', sync')
    PROVE  WikiInv'
<1>1. IsSpace(page') /\ InflightOK(page', inflight') /\ fresh' \subseteq touched'
    BY DEF WikiInv
<1> QED BY <1>1, GoesOn

\* A lookup that found its page goes on.
LEMMA ServesKeeps ==
    ASSUME WikiInv, sync.pc \in EntryPcs, NEW p, NEW made, ServesOK(page, touched, sync, p, made),
           sync' = Mapped(p, made), UNCHANGED <<page, inflight, touched, fresh, tree, unread>>
    PROVE  WikiInv'
<1>1. /\ ReadyOK(page, touched, sync) /\ WayOK(page, touched, sync) /\ IsRun(sync) /\ IsSpace(page)
    BY EntryFacts
<1>2. ReadyBut(page, touched, sync, p)
    BY <1>1 DEF ReadyOK, ReadyBut
<1>3. sync' = MappedOf(sync, p, made)
    BY <1>1, MappedIs
<1>4. ShapeOK(sync') /\ RunOK(page, touched, fresh, unread, sync')
    BY <1>1, <1>2, <1>3, MappedKeeps
<1> QED BY <1>4, ReadKeeps

\* A page is taken from the cache, from the space, or to be created.
LEMMA LookupKeeps ==
    ASSUME WikiInv, Lookup PROVE WikiInv'
<1>1. sync.pc \in EntryPcs
    BY DEF Lookup, EntryPcs
<1>2. /\ ReadyOK(page, touched, sync) /\ WayOK(page, touched, sync) /\ IsRun(sync) /\ IsSpace(page)
      /\ sync.at \in Id /\ File = Current(sync)
    BY <1>1, EntryFacts
<1>3. CASE Reads(sync' = [sync EXCEPT !.pc = "create"])
    <2>1. ShapeOK(sync') /\ RunOK(page, touched, fresh, unread, sync')
        BY <1>2, <1>3, ToCreate DEF Reads
    <2> QED BY <1>3, <2>1, ReadKeeps DEF Reads, Quiet, space, history
<1> DEFINE no == FALSE
<1>4. CASE Reads(\E c \in Cached : sync' = Mapped(c.id, no))
    <2>1. PICK c \in Cached : sync' = Mapped(c.id, no)
        BY <1>4 DEF Reads
    <2>2. /\ c.id \in Id \ {Target} /\ page[c.id] # NoPage /\ (c.id \in LiveIn(page) \/ c.id \in touched)
          /\ c.id \in LiveIn(page) => page[c.id].up = sync.at /\ page[c.id].title = Title
        <3>1. c \in sync.cache /\ c.up = sync.at /\ c.title = Title
            BY <2>1 DEF Cached
        <3>2. MappedOK(page, touched, sync)
            BY <1>2 DEF ReadyOK
        <3> QED BY <3>1, <3>2 DEF MappedOK
    <2>3. ServesOK(page, touched, sync, c.id, no)
        BY <1>2, <2>2 DEF ServesOK, Title
    <2> HIDE DEF no
    <2> QED BY <1>1, <1>4, <2>1, <2>3, ServesKeeps DEF Reads, Quiet, space, history
<1>5. CASE Fails
    BY <1>5, QuietFailKeeps DEF Fails, space
<1>6. CASE Reads(\E p \in Matches : sync' = Mapped(p, no))
    <2>1. PICK p \in Matches : sync' = Mapped(p, no)
        BY <1>6 DEF Reads
    <2>2. p \in LiveIn(page) /\ page[p].title = Title /\ page[p].up = sync.at
        BY <2>1 DEF Matches, Live
    <2>3. p \in Id \ {Target} /\ page[p] # NoPage
        BY <1>2, <2>2, HasUp, LiveShape
    <2>4. ServesOK(page, touched, sync, p, no)
        BY <1>2, <2>2, <2>3 DEF ServesOK, Title
    <2> HIDE DEF no
    <2> QED BY <1>1, <1>6, <2>1, <2>4, ServesKeeps DEF Reads, Quiet, space, history
<1> QED BY <1>3, <1>4, <1>5, <1>6 DEF Lookup

\* A write of the run keeps the invariant if the run does, or if the run has ended.
LEMMA WriteKeeps ==
    ASSUME WikiInv, Later(page, touched, page', touched), UNCHANGED <<tree, inflight, touched, fresh, unread>>,
           Fail \/ (ShapeOK(sync') /\ RunOK(page', touched, fresh, unread, sync'))
    PROVE  WikiInv'
<1>1. IsSpace(page') /\ fresh' \subseteq touched'
    BY DEF Later, WikiInv
<1>2. InflightOK(page, inflight)
    BY DEF WikiInv
<1>3. InflightOK(page', inflight)
    BY <1>2, InflightLater
<1>4. InflightOK(page', inflight')
    BY <1>3
<1>5. CASE Fail
    BY <1>1, <1>4, <1>5, FailKeeps
<1>6. CASE ShapeOK(sync') /\ RunOK(page', touched, fresh, unread, sync')
    BY <1>1, <1>4, <1>6, GoesOn
<1> QED BY <1>5, <1>6

\* A write to a page moves none.
LEMMA BelowSame ==
    ASSUME NEW g, NEW h, NEW p, OnlyIn(g, h, p) PROVE \A q : BelowP(h, q) = BelowP(g, q)
<1>1. \A r \in LiveIn(g) : h[r].above = g[r].above
    BY DEF OnlyIn, SamePage, LiveIn
<1> QED BY <1>1 DEF BelowP, OnlyIn

\* A page that is written stays what it is for the run.
LEMMA WayLater ==
    ASSUME NEW g, NEW T, NEW h, Later(g, T, h, T), NEW s, ReadyOK(g, T, s), WayOK(g, T, s),
           LiveIn(g) \subseteq LiveIn(h)
    PROVE  MappedOK(h, T, s) /\ WayOK(h, T, s)
<1>1. MappedOK(g, T, s)
    BY DEF ReadyOK
<1>2. MappedOK(h, T, s)
    BY <1>1, MappedLater
<1>3. /\ s.todo # {} /\ s.seg \in 1..Len(Segments[Current(s)]) /\ s.at \in s.mapped \cup {Target}
      /\ AtIn(g, T, s.at, Current(s), s.seg - 1)
    BY DEF WayOK
<1>4. s.at = Target \/ g[s.at] # NoPage
    BY <1>1, <1>3 DEF MappedOK
<1> DEFINE n == s.seg - 1
<1>5. n \in Nat
    BY <1>3
<1>6. AtIn(g, T, s.at, Current(s), n)
    BY <1>3
<1> HIDE DEF n
<1>7. AtIn(h, T, s.at, Current(s), n)
    BY <1>4, <1>5, <1>6, AtLater
<1> QED BY <1>2, <1>3, <1>7 DEF WayOK, n

\* A write that takes no label, no attachment and no content keeps what is done.
LEMMA OnlyReady ==
    ASSUME NEW g, IsSpace(g), NEW T, NEW h, NEW p \in LiveIn(g), OnlyIn(g, h, p),
           g[p].label => h[p].label, g[p].files \subseteq h[p].files, h[p].body = g[p].body,
           NEW s, ReadyOK(g, T, s), WayOK(g, T, s)
    PROVE  Later(g, T, h, T) /\ ReadyOK(h, T, s) /\ WayOK(h, T, s)
<1>1. Later(g, T, h, T)
    BY OnlyLater
<1>2. LiveIn(h) = LiveIn(g)
    BY DEF OnlyIn
<1>3. MappedOK(h, T, s) /\ WayOK(h, T, s)
    BY <1>1, <1>2, WayLater
<1>4. \A q \in LiveIn(g) : h[q].body = g[q].body /\ g[q].files \subseteq h[q].files
    BY DEF OnlyIn, LiveIn
<1>5. DoneOK(h, T, s)
    BY <1>2, <1>4 DEF ReadyOK, DoneOK, ShowsIn
<1>6. BelowP(h, Target) = BelowP(g, Target)
    BY BelowSame
<1> QED BY <1>1, <1>3, <1>5, <1>6 DEF ReadyOK

\* A new page keeps what is done.
LEMMA CreateReady ==
    ASSUME NEW g, IsSpace(g), NEW T, NEW s, ReadyOK(g, T, s), WayOK(g, T, s),
           NEW n \in Id, g[n] = NoPage,
           NEW r, IsPage(r), r.up \in LiveIn(g), r.above = g[r.up].above \cup {r.up},
           NEW h, h = With(g, n, r)
    PROVE  Later(g, T, h, T) /\ ReadyBut(h, T, s, n) /\ WayOK(h, T, s)
<1>1. /\ IsSpace(h) /\ LiveIn(h) = LiveIn(g) \cup {n} /\ n \notin LiveIn(g) /\ n # Target
      /\ h[n] = r /\ \A q \in Id \ {n} : h[q] = g[q]
    BY Added
<1>2. r # NoPage
    BY TypesDiffer DEF IsPage
<1>3. \A q \in LiveIn(h) : q # n => q \in LiveIn(g) /\ h[q] = g[q]
    BY <1>1 DEF LiveIn
<1>4. Later(g, T, h, T)
    BY <1>1, <1>2, <1>3 DEF Later
<1>5. MappedOK(h, T, s) /\ WayOK(h, T, s)
    BY <1>1, <1>4, WayLater
<1>6. DoneOK(h, T, s)
    <2>1. \A m \in s.mapped : m # n
        BY DEF ReadyOK, MappedOK
    <2>2. \A d \in Doc : s.placed[d] # NoId => s.placed[d] \in s.mapped
        BY DEF ReadyOK, MappedOK
    <2>3. DoneOK(g, T, s)
        BY DEF ReadyOK
    <2> QED BY <1>3, <2>1, <2>2, <2>3 DEF DoneOK, ShowsIn
<1>7. s.clean => BelowP(h, Target) \ T \subseteq s.mapped \cup {n}
    BY <1>3 DEF ReadyOK, BelowP
<1> QED BY <1>4, <1>5, <1>6, <1>7 DEF ReadyOK, ReadyBut

\* A page is created, or its creation may land later.
LEMMA CreateKeeps ==
    ASSUME WikiInv, Create PROVE WikiInv'
<1>1. sync.pc \in EntryPcs
    BY DEF Create, EntryPcs
<1>2. /\ ReadyOK(page, touched, sync) /\ WayOK(page, touched, sync) /\ IsRun(sync) /\ IsSpace(page)
      /\ File = Current(sync) /\ InflightOK(page, inflight) /\ fresh \subseteq touched
    BY <1>1, EntryFacts
<1>3. CASE Fails
    BY <1>3, QuietFailKeeps DEF Fails, space
<1>4. CASE sync.at \in Live /\ Unused # {}
    <2> DEFINE n == NextId
               r == NewEntry
               made == Leaf /\ ~WithUploads
               above == page[sync.at].above \cup {sync.at}
               first == FirstBody
    <2>1. n \in Id /\ page[n] = NoPage /\ sync.at \in LiveIn(page) /\ page[sync.at] # NoPage
        BY <1>2, <1>4, NextIdUnused, LiveShape DEF Live
    <2>2. r = PageAt("page", sync.at, above, Title, first)
        BY DEF NewEntry, NewPage
    <2>3. made => first = Body(File, sync.text[File], "plain") /\ sync.seg = Len(Segments[File])
        BY DEF FirstBody, Leaf
    <2>4. \/ Writes([page EXCEPT ![n] = r], sync' = Mapped(n, made))
          \/ GivesUp([kind |-> "create", page |-> r])
        BY <1>4, <1>3 DEF Create
    <2> HIDE DEF n, r, made, above, first
    <2>5. /\ IsPage(r) /\ r.up = sync.at /\ r.above = above /\ r.title = Title /\ r.body = first
        BY <2>2, PageAtIsPage DEF IsPage
    <2>6. r.up \in LiveIn(page) /\ r.above = page[r.up].above \cup {r.up}
        BY <2>1, <2>5 DEF above
    <2>7. CASE Writes([page EXCEPT ![n] = r], sync' = Mapped(n, made))
        <3>1. page' = With(page, n, r)
            BY <2>7 DEF Writes, With
        <3>2. Later(page, touched, page', touched) /\ ReadyBut(page', touched, sync, n) /\ WayOK(page', touched, sync)
            BY <1>2, <2>1, <2>5, <2>6, <3>1, CreateReady
        <3>3. /\ IsSpace(page') /\ LiveIn(page') = LiveIn(page) \cup {n} /\ n # Target /\ page'[n] = r
            BY <1>2, <2>1, <2>5, <2>6, <3>1, Added
        <3>4. ServesOK(page', touched, sync, n, made)
            <4>1. page'[n].up = sync.at /\ page'[n].title = Segments[Current(sync)][sync.seg] /\ page'[n] # NoPage
                BY <1>2, <2>5, <3>3, TypesDiffer DEF Title, IsPage
            <4>2. made => page'[n].body = Body(Current(sync), sync.text[Current(sync)], "plain")
                           /\ sync.seg = Len(Segments[Current(sync)])
                BY <1>2, <2>3, <2>5, <3>3
            <4> QED BY <2>1, <3>3, <4>1, <4>2 DEF ServesOK
        <3>5. Fail \/ (ShapeOK(sync') /\ RunOK(page', touched, fresh, unread, sync'))
            <4>1. CASE sync' = Mapped(n, made)
                <5>1. sync' = MappedOf(sync, n, made)
                    BY <1>2, <4>1, MappedIs
                <5> QED BY <3>2, <3>3, <3>4, <5>1, MappedKeeps
            <4> QED BY <2>7, <4>1 DEF Writes
        <3> QED BY <2>7, <3>2, <3>5, WriteKeeps DEF Writes
    <2>8. CASE GivesUp([kind |-> "create", page |-> r])
        <3> DEFINE w == [kind |-> "create", page |-> r]
        <3>1. w.kind = "create" /\ w.page = r
            OBVIOUS
        <3>2. inflight' = inflight \cup {w} /\ Fail /\ UNCHANGED <<tree, page, touched, fresh>>
            BY <2>8 DEF GivesUp
        <3> HIDE DEF w
        <3>3. InflightOK(page, inflight \cup {w})
            <4>1. /\ IsPage(w.page) /\ w.page.up \in Id /\ page[w.page.up] # NoPage
                  /\ w.page.above = page[w.page.up].above \cup {w.page.up}
                BY <2>1, <2>5, <2>6, <3>1 DEF LiveIn
            <4> QED BY <1>2, <3>1, <4>1 DEF InflightOK
        <3>4. InflightOK(page', inflight') /\ IsSpace(page') /\ fresh' \subseteq touched'
            BY <1>2, <3>2, <3>3
        <3> QED BY <3>2, <3>4, FailKeeps
    <2> QED BY <2>4, <2>7, <2>8
<1> QED BY <1>3, <1>4 DEF Create

\* The label of a page is looked for, ...
LEMMA ReadLabelsKeeps ==
    ASSUME WikiInv, ReadLabels PROVE WikiInv'
<1>1. sync.pc \in EntryPcs /\ sync.pc = "labels"
    BY DEF ReadLabels, EntryPcs
<1>2. /\ ReadyOK(page, touched, sync) /\ WayOK(page, touched, sync) /\ IsRun(sync) /\ IsSpace(page)
      /\ FoundOK(page, touched, sync)
    BY <1>1, EntryFacts
<1>3. CASE Fails
    BY <1>3, QuietFailKeeps DEF Fails, space
<1>4. CASE Reads(sync' = IF HasMarker THEN Labelled(sync) ELSE [sync EXCEPT !.pc = "addlabel"])
    <2>1. CASE HasMarker
        <3>1. page[sync.id].label
            BY <2>1 DEF HasMarker
        <3>2. sync' = LabelledOf(sync)
            BY <1>2, <1>4, <2>1, LabelledIs DEF Reads
        <3>3. ShapeOK(sync') /\ RunOK(page, touched, fresh, unread, sync')
            BY <1>2, <3>1, <3>2, LabelledKeeps
        <3> QED BY <1>4, <3>3, ReadKeeps DEF Reads, Quiet, space, history
    <2>2. CASE ~HasMarker
        <3> DEFINE t == [sync EXCEPT !.pc = "addlabel"]
        <3>1. sync' = t
            BY <1>4, <2>2 DEF Reads
        <3>2. /\ IsRun(t) /\ SameBooks(sync, t) /\ SameTask(sync, t) /\ t.pc = "addlabel"
              /\ t.seg = sync.seg /\ t.at = sync.at /\ t.id = sync.id /\ t.made = sync.made
            BY <1>2 DEF IsRun, RunFields, SameBooks, SameTask
        <3> HIDE DEF t
        <3>3. Current(t) = Current(sync)
            BY <3>2 DEF Current, SameTask
        <3>4. EntryOK(page, touched, unread, t)
            BY <1>2, <3>2, <3>3 DEF EntryOK, WayOK, FoundOK, SameBooks
        <3>5. ShapeOK(t) /\ RunOK(page, touched, fresh, unread, t)
            BY <1>2, <3>2, <3>4, EntryStep DEF EntryPcs, WayOK
        <3> QED BY <1>4, <3>1, <3>5, ReadKeeps DEF Reads, Quiet, space, history
    <2> QED BY <2>1, <2>2
<1> QED BY <1>3, <1>4 DEF ReadLabels

\* ... and added.
LEMMA AddLabelKeeps ==
    ASSUME WikiInv, AddLabel PROVE WikiInv'
<1>1. sync.pc \in EntryPcs /\ sync.pc = "addlabel"
    BY DEF AddLabel, EntryPcs
<1>2. /\ ReadyOK(page, touched, sync) /\ WayOK(page, touched, sync) /\ IsRun(sync) /\ IsSpace(page)
      /\ FoundOK(page, touched, sync)
    BY <1>1, EntryFacts
<1>3. CASE Fails
    BY <1>3, QuietFailKeeps DEF Fails, space
<1>4. CASE sync.id \in Live /\ Writes([page EXCEPT ![sync.id].label = TRUE], sync' = Labelled(sync))
    <2> DEFINE p == sync.id
    <2>1. page' = LabelAt(page, p, Yes) /\ p \in LiveIn(page)
        BY <1>4 DEF Writes, LabelAt, Yes, Live
    <2> HIDE DEF p
    <2>2. /\ OnlyIn(page, page', p) /\ page'[p].body = page[p].body
          /\ page'[p].files = page[p].files /\ page'[p].label = Yes
        BY <1>2, <2>1, LabelWritten
    <2>3. page'[p].label /\ IsSpace(page')
        BY <2>2 DEF Yes, OnlyIn
    <2>4. Later(page, touched, page', touched) /\ ReadyOK(page', touched, sync) /\ WayOK(page', touched, sync)
        BY <1>2, <2>1, <2>2, <2>3, OnlyReady
    <2>5. FoundOK(page', touched, sync)
        BY <1>2, <2>2 DEF FoundOK, OnlyIn, SamePage, p
    <2>6. Fail \/ (ShapeOK(sync') /\ RunOK(page', touched, fresh, unread, sync'))
        <3>1. CASE sync' = Labelled(sync)
            <4>1. sync' = LabelledOf(sync)
                BY <1>2, <3>1, LabelledIs
            <4>2. page'[sync.id].label
                BY <2>3 DEF p
            <4> QED BY <2>3, <2>4, <2>5, <4>1, <4>2, LabelledKeeps
        <3> QED BY <1>4, <3>1 DEF Writes
    <2> QED BY <1>4, <2>4, <2>6, WriteKeeps DEF Writes
<1> QED BY <1>3, <1>4 DEF AddLabel

\* The page of the file is known; what is written there, and which version it replaces.
PlacedOK(s) == s.seg = Len(Segments[Current(s)]) /\ s.id # NoId /\ s.id = s.placed[Current(s)]
VersionFits(g, U, s, v) ==
    s.id \in LiveIn(g) => v \in Nat /\ v <= g[s.id].version /\ (s.id \in U => v < g[s.id].version)
BodyFits(g, s, b) ==
    \E form \in {"plain", "image", "code"} :
        /\ b = Body(Current(s), s.text[Current(s)], form)
        /\ form = "image" /\ s.id \in LiveIn(g) => s.text[Current(s)] \in g[s.id].files

\* What the run knows of the page that it is about to write.
LEMMA WriteFacts ==
    ASSUME WikiInv, sync.pc \in {"fetch", "rewrite", "put"}
    PROVE  /\ sync.pc \in EntryPcs /\ PlacedOK(sync) /\ sync.id \in Id \ {Target} /\ sync.id \in sync.mapped
           /\ sync.pc \in {"rewrite", "put"} => VersionFits(page, unread, sync, sync.version)
           /\ sync.pc = "put" => BodyFits(page, sync, sync.body)
<1>1. sync.pc \in EntryPcs
    BY DEF EntryPcs
<1>2. EntryOK(page, touched, unread, sync) /\ ReadyOK(page, touched, sync) /\ Current(sync) \in Doc
    BY <1>1, EntryFacts
<1>3. PlacedOK(sync)
    BY <1>1, <1>2 DEF EntryOK, PlacedOK
<1>4. sync.id \in sync.mapped /\ sync.id \in Id \ {Target}
    BY <1>2, <1>3 DEF ReadyOK, MappedOK, PlacedOK
<1>5. sync.pc \in {"rewrite", "put"} => VersionFits(page, unread, sync, sync.version)
    BY <1>1, <1>2 DEF EntryOK, VersionFits
<1>6. sync.pc = "put" => BodyFits(page, sync, sync.body)
    BY <1>1, <1>2 DEF EntryOK, BodyFits
<1> QED BY <1>1, <1>3, <1>4, <1>5, <1>6

\* What a run may rely on is the same for two states with the same books and task.
LEMMA ReadySame ==
    ASSUME NEW g, NEW T, NEW s, ReadyOK(g, T, s), NEW t, IsRun(t), SameBooks(s, t), SameTask(s, t)
    PROVE  ReadyOK(g, T, t)
<1>1. MappedOK(g, T, t) /\ DoneOK(g, T, t)
    BY BooksKept DEF ReadyOK, SameTask
<1> QED BY <1>1 DEF ReadyOK, SameBooks, SameTask

\* The body of the page is to be made, or written.
LEMMA ToWrite ==
    ASSUME NEW g, NEW T, NEW F, NEW U, NEW s, ReadyOK(g, T, s), WayOK(g, T, s), PlacedOK(s),
           NEW t, IsRun(t), SameBooks(s, t), SameTask(s, t), t.seg = s.seg, t.at = s.at, t.id = s.id,
           t.pc \in {"rewrite", "put"}, VersionFits(g, U, s, t.version),
           t.pc = "put" => BodyFits(g, s, t.body)
    PROVE  ShapeOK(t) /\ RunOK(g, T, F, U, t)
<1>1. Current(t) = Current(s)
    BY DEF Current, SameTask
<1>2. EntryOK(g, T, U, t)
    <2> DEFINE d == Current(s)
    <2>1. /\ t.seg \in 1..Len(Segments[d]) /\ t.at \in t.mapped \cup {Target}
          /\ AtIn(g, T, t.at, d, t.seg - 1)
        BY DEF WayOK, SameBooks
    <2>2. t.seg = Len(Segments[d]) /\ t.id # NoId /\ t.id = t.placed[d]
        BY DEF PlacedOK, SameBooks
    <2>3. t.id \in LiveIn(g) =>
             t.version \in Nat /\ t.version <= g[t.id].version /\ (t.id \in U => t.version < g[t.id].version)
        BY DEF VersionFits
    <2>4. t.pc = "put" => \E form \in {"plain", "image", "code"} :
                             /\ t.body = Body(d, t.text[d], form)
                             /\ form = "image" /\ t.id \in LiveIn(g) => t.text[d] \in g[t.id].files
        BY DEF BodyFits, SameBooks
    <2> HIDE DEF d
    <2>5. Current(t) = d
        BY <1>1 DEF d
    <2> QED BY <2>1, <2>2, <2>3, <2>4, <2>5 DEF EntryOK
<1>3. s.todo # {} /\ t.pc \in EntryPcs
    BY DEF WayOK, EntryPcs
<1> QED BY <1>2, <1>3, EntryStep

\* A page is read: it is as it should be, or it is to be written.
LEMMA FetchKeeps ==
    ASSUME WikiInv, Fetch PROVE WikiInv'
<1>1. sync.pc = "fetch"
    BY DEF Fetch
<1>2. sync.pc \in EntryPcs /\ PlacedOK(sync) /\ sync.id \in Id \ {Target}
    BY <1>1, WriteFacts
<1>3. /\ ReadyOK(page, touched, sync) /\ WayOK(page, touched, sync) /\ IsRun(sync) /\ IsSpace(page)
      /\ File = Current(sync) /\ File \in Doc
    BY <1>2, EntryFacts
<1>4. CASE Fails
    BY <1>4, QuietFailKeeps DEF Fails, space
<1>5. CASE ~Fails
    <2> DEFINE p == sync.id
               v == page[p].version
               s == [sync EXCEPT !.version = v]
    <2>1. /\ p \in LiveIn(page) /\ unread' = unread \ {p} /\ UNCHANGED <<page, inflight, touched, fresh, tree>>
          /\ sync' = IF Unchanged THEN NextEntry(s)
                     ELSE IF WithUploads THEN [s EXCEPT !.pc = "rewrite"]
                     ELSE [s EXCEPT !.pc = "put", !.body = FirstBody]
        BY <1>5 DEF Fetch, Live, space
    <2>2. v \in Nat
        BY <1>3, <2>1, LiveShape
    <2>3. /\ IsRun(s) /\ SameBooks(sync, s) /\ SameTask(sync, s) /\ s.seg = sync.seg /\ s.at = sync.at
          /\ s.id = p /\ s.version = v
        BY <1>3 DEF IsRun, RunFields, SameBooks, SameTask
    <2>4. VersionFits(page, unread', sync, v)
        BY <2>1, <2>2 DEF VersionFits
    <2> HIDE DEF s, v
    <2>5. CASE Unchanged
        <3>1. sync' = NextOf(s)
            BY <2>1, <2>3, <2>5, NextIs DEF SameTask
        <3>2. ReadyOK(page, touched, s)
            BY <1>3, <2>3, ReadySame
        <3>3. Current(s) = File /\ s.todo # {} /\ s.placed[Current(s)] = p /\ p # NoId /\ s.text[Current(s)] = sync.text[File]
            BY <1>2, <1>3, <2>3 DEF Current, SameTask, SameBooks, PlacedOK, WayOK
        <3>4. ShowsIn(page, p, File, sync.text[File])
            <4>1. PICK form \in Predicted : page[p].body = Body(File, sync.text[File], form)
                BY <2>5 DEF Unchanged
            <4>2. form \in {"plain", "image", "code"} /\ (form = "image" => sync.text[File] \in page[p].files)
                <5>1. Kind[File] \in {"text", "image", "mermaid"}
                    BY <1>3, AssumptionOfConfluence DEF ConfluenceAssumption
                <5> QED BY <4>1, <5>1 DEF Predicted, PredictedImage, PredictedDiagram, Uploaded
            <4> QED BY <4>1, <4>2 DEF ShowsIn, Body
        <3>5. AloneIn(s, Current(s)) /\ s.placed[Current(s)] \in LiveIn(page) \ touched
                 => ShowsIn(page, s.placed[Current(s)], Current(s), s.text[Current(s)])
            BY <3>3, <3>4
        <3>6. s.placed[Current(s)] # NoId
            BY <3>3
        <3>7. ShapeOK(sync') /\ RunOK(page, touched, fresh, unread', sync')
            BY <3>1, <3>2, <3>3, <3>5, <3>6, NextOfKeeps
        <3> QED BY <2>1, <3>7, ReadKeeps
    <2>6. CASE ~Unchanged
        <3>1. /\ IsRun(sync') /\ SameBooks(sync, sync') /\ SameTask(sync, sync')
              /\ sync'.seg = sync.seg /\ sync'.at = sync.at /\ sync'.id = sync.id
              /\ sync'.pc \in {"rewrite", "put"} /\ sync'.version = v
              /\ sync'.pc = "put" => ~WithUploads /\ sync'.body = FirstBody
            <4>1. CASE WithUploads
                <5>1. sync' = [s EXCEPT !.pc = "rewrite"]
                    BY <2>1, <2>6, <4>1
                <5> QED BY <2>3, <5>1 DEF IsRun, RunFields, SameBooks, SameTask
            <4>2. CASE ~WithUploads
                <5>1. sync' = [s EXCEPT !.pc = "put", !.body = FirstBody]
                    BY <2>1, <2>6, <4>2
                <5> QED BY <2>3, <4>2, <5>1 DEF IsRun, RunFields, SameBooks, SameTask
            <4> QED BY <4>1, <4>2
        <3>2. sync'.pc = "put" => BodyFits(page, sync, sync'.body)
            <4>1. ~WithUploads => FirstBody = Body(File, sync.text[File], "plain")
                BY <1>2, <1>3 DEF FirstBody, Leaf, PlacedOK
            <4> QED BY <1>3, <3>1, <4>1 DEF BodyFits
        <3>3. ShapeOK(sync') /\ RunOK(page, touched, fresh, unread', sync')
            BY <1>2, <1>3, <2>4, <3>1, <3>2, ToWrite
        <3> QED BY <2>1, <3>3, ReadKeeps
    <2> QED BY <2>5, <2>6
<1> QED BY <1>4, <1>5

\* What the run takes from a body that is made.
LEMMA RewrittenIs ==
    ASSUME IsRun(sync), NEW b, NEW t, t = [sync EXCEPT !.pc = "put", !.body = b]
    PROVE  /\ IsRun(t) /\ SameBooks(sync, t) /\ SameTask(sync, t) /\ t.seg = sync.seg /\ t.at = sync.at
           /\ t.id = sync.id /\ t.pc = "put" /\ t.version = sync.version /\ t.body = b
BY DEF IsRun, RunFields, SameBooks, SameTask

\* The pictures of a page are attached, or left as code.
LEMMA RewriteKeeps ==
    ASSUME WikiInv, Rewrite PROVE WikiInv'
<1>1. sync.pc = "rewrite"
    BY DEF Rewrite
<1>2. sync.pc \in EntryPcs /\ PlacedOK(sync) /\ VersionFits(page, unread, sync, sync.version)
    BY <1>1, WriteFacts
<1>3. /\ ReadyOK(page, touched, sync) /\ WayOK(page, touched, sync) /\ IsRun(sync) /\ IsSpace(page)
      /\ File = Current(sync)
    BY <1>2, EntryFacts
<1> DEFINE p == sync.id
           text == sync.text[File]
           image == Body(File, text, "image")
           code == Body(File, text, "code")
<1>4. ASSUME NEW b, b = image \/ b = code, b = image => text \in page'[p].files,
             IsSpace(page'), ReadyOK(page', touched, sync), WayOK(page', touched, sync),
             VersionFits(page', unread, sync, sync.version), sync' = [sync EXCEPT !.pc = "put", !.body = b]
      PROVE  ShapeOK(sync') /\ RunOK(page', touched, fresh, unread, sync')
    <2>1. /\ IsRun(sync') /\ SameBooks(sync, sync') /\ SameTask(sync, sync') /\ sync'.seg = sync.seg
          /\ sync'.at = sync.at /\ sync'.id = sync.id /\ sync'.pc = "put" /\ sync'.version = sync.version
          /\ sync'.body = b
        BY <1>3, <1>4, RewrittenIs
    <2>2. BodyFits(page', sync, sync'.body)
        BY <1>3, <1>4, <2>1 DEF BodyFits
    <2>3. sync'.pc \in {"rewrite", "put"} /\ VersionFits(page', unread, sync, sync'.version)
        BY <1>4, <2>1
    <2> QED BY <1>2, <1>4, <2>1, <2>2, <2>3, ToWrite
<1>5. CASE Fails
    BY <1>5, QuietFailKeeps DEF Fails, space
<1>6. CASE Reads(Rewritten("image")) /\ Uploaded
    <2>1. page' = page /\ UNCHANGED <<inflight, touched, fresh, tree, unread>>
          /\ sync' = [sync EXCEPT !.pc = "put", !.body = image] /\ text \in page[p].files
        BY <1>6 DEF Reads, Quiet, space, history, Rewritten, Uploaded
    <2> HIDE DEF image, code
    <2>2. ShapeOK(sync') /\ RunOK(page', touched, fresh, unread, sync')
        BY <1>2, <1>3, <1>4, <2>1
    <2> QED BY <2>1, <2>2, ReadKeeps
<1>7. CASE Reads(Rewritten("code")) \/ RenderFails
    <2>1. page' = page /\ UNCHANGED <<inflight, touched, fresh, tree, unread>>
          /\ sync' = [sync EXCEPT !.pc = "put", !.body = code]
        BY <1>7 DEF Reads, Quiet, space, history, Rewritten, RenderFails
    <2>2. code # image
        BY DEF Body
    <2> HIDE DEF image, code
    <2>3. ShapeOK(sync') /\ RunOK(page', touched, fresh, unread, sync')
        BY <1>2, <1>3, <1>4, <2>1, <2>2
    <2> QED BY <2>1, <2>3, ReadKeeps
<1>8. CASE Upload /\ p \in Live
    <2>1. page' = FileAt(page, p, text) /\ p \in LiveIn(page) /\ UNCHANGED <<tree, inflight, touched, fresh, unread>>
          /\ (Fail \/ sync' = [sync EXCEPT !.pc = "put", !.body = image])
        BY <1>8 DEF Upload, Writes, Rewritten, FileAt, Live
    <2> HIDE DEF image, code, p
    <2>2. /\ OnlyIn(page, page', p) /\ page'[p].body = page[p].body /\ page'[p].version = page[p].version
          /\ page'[p].files = page[p].files \cup {text} /\ page'[p].label = page[p].label
        BY <1>3, <2>1, FilesWritten
    <2>3. Later(page, touched, page', touched) /\ ReadyOK(page', touched, sync) /\ WayOK(page', touched, sync)
        BY <1>3, <2>1, <2>2, OnlyReady
    <2>4. VersionFits(page', unread, sync, sync.version) /\ IsSpace(page') /\ text \in page'[p].files
        BY <1>2, <2>2 DEF VersionFits, OnlyIn, p
    <2>5. Fail \/ (ShapeOK(sync') /\ RunOK(page', touched, fresh, unread, sync'))
        BY <1>4, <2>1, <2>3, <2>4
    <2> QED BY <2>1, <2>3, <2>5, WriteKeeps
<1> QED BY <1>5, <1>6, <1>7, <1>8 DEF Rewrite, RewriteDiagram, Renders, Attach

\* A body that is written is the one of the file alone.
LEMMA PutReady ==
    ASSUME NEW g, IsSpace(g), NEW T, NEW s, ReadyOK(g, T, s), WayOK(g, T, s), PlacedOK(s),
           NEW h, s.id \in LiveIn(g), OnlyIn(g, h, s.id),
           h[s.id].files = g[s.id].files, h[s.id].label = g[s.id].label
    PROVE  Later(g, T, h, T) /\ ReadyOK(h, T, s)
<1> DEFINE d == Current(s)
           p == s.id
<1>1. d \in Doc /\ d \in s.todo /\ s.text[d] # Gone
    BY CurrentIn DEF WayOK, ReadyOK
<1>2. p = s.placed[d] /\ p # NoId
    BY DEF PlacedOK
<1> HIDE DEF d
<1>3. Later(g, T, h, T)
    BY OnlyLater
<1>4. LiveIn(h) = LiveIn(g)
    BY DEF OnlyIn
<1>5. MappedOK(h, T, s)
    BY <1>3, <1>4, WayLater
<1>6. BelowP(h, Target) = BelowP(g, Target)
    BY BelowSame
<1>7. DoneOK(h, T, s)
    <2> SUFFICES ASSUME NEW e \in Doc \ s.todo, s.text[e] # Gone
                 PROVE  /\ s.placed[e] # NoId
                        /\ AloneIn(s, e) /\ s.placed[e] \in LiveIn(h) \ T => ShowsIn(h, s.placed[e], e, s.text[e])
        BY DEF DoneOK
    <2>1. /\ s.placed[e] # NoId
          /\ AloneIn(s, e) /\ s.placed[e] \in LiveIn(g) \ T => ShowsIn(g, s.placed[e], e, s.text[e])
        BY DEF ReadyOK, DoneOK
    <2>2. CASE s.placed[e] # p
        <3>1. s.placed[e] \in LiveIn(g) => h[s.placed[e]] = g[s.placed[e]]
            BY <2>2 DEF OnlyIn, LiveIn
        <3> QED BY <1>4, <2>1, <3>1 DEF ShowsIn
    <2>3. CASE s.placed[e] = p
        <3>1. LocIn(g, T, p, Segments[d]) /\ LocIn(g, T, p, Segments[e])
            BY <1>1, <1>2, <2>1, <2>3 DEF ReadyOK, MappedOK
        <3> DEFINE n == Len(Segments[d])
                   m == Len(Segments[e])
        <3>2. /\ n \in Nat \ {0} /\ m \in Nat \ {0} /\ Segments[d] \in Seq(Range(Segments[d]))
              /\ Segments[e] \in Seq(Range(Segments[e]))
            BY <1>1, SegmentsLen
        <3>3. LocTo(g, T, p, Segments[d], n) /\ LocTo(g, T, p, Segments[e], m)
            BY <3>1 DEF LocIn
        <3>4. n = m /\ \A i \in 1..n : Segments[d][i] = Segments[e][i]
            BY <3>2, <3>3, OnePath
        <3>5. Segments[d] = Segments[e]
            BY <3>2, <3>4
        <3>6. d # e
            BY <1>1
        <3>7. ~AloneIn(s, e)
            BY <1>1, <3>5, <3>6 DEF AloneIn
        <3> QED BY <2>1, <3>7
    <2> QED BY <2>2, <2>3
<1> QED BY <1>3, <1>5, <1>6, <1>7 DEF ReadyOK

\* A page gets its content, if nobody was there before.
LEMMA PutKeeps ==
    ASSUME WikiInv, Put PROVE WikiInv'
<1>1. sync.pc = "put"
    BY DEF Put
<1>2. sync.pc \in EntryPcs /\ PlacedOK(sync) /\ BodyFits(page, sync, sync.body) /\ sync.id # Target
    BY <1>1, WriteFacts
<1>3. /\ ReadyOK(page, touched, sync) /\ WayOK(page, touched, sync) /\ IsRun(sync) /\ IsSpace(page)
      /\ File = Current(sync)
    BY <1>2, EntryFacts
<1>4. CASE Fails
    BY <1>4, QuietFailKeeps DEF Fails, space
<1>5. CASE ~Fails
    <2> DEFINE p == sync.id
               b == sync.body
    <2>1. /\ page' = BodyAt(page, p, b) /\ p \in LiveIn(page) /\ UNCHANGED <<tree, inflight, touched, fresh, unread>>
          /\ (Fail \/ sync' = NextEntry(sync))
        BY <1>5 DEF Put, Accepts, Writes, BodyAt, Live
    <2> HIDE DEF b
    <2>2. /\ OnlyIn(page, page', p) /\ page'[p].body = b
          /\ page'[p].files = page[p].files /\ page'[p].label = page[p].label
        BY <1>2, <1>3, <2>1, BodyWritten
    <2>3. Later(page, touched, page', touched) /\ ReadyOK(page', touched, sync)
        BY <1>2, <1>3, <2>1, <2>2, PutReady
    <2>4. CASE sync' = NextEntry(sync)
        <3>1. sync' = NextOf(sync)
            BY <2>4, NextIs
        <3>2. ShowsIn(page', p, Current(sync), sync.text[Current(sync)])
            <4>1. PICK form \in {"plain", "image", "code"} :
                        /\ b = Body(Current(sync), sync.text[Current(sync)], form)
                        /\ form = "image" /\ p \in LiveIn(page) => sync.text[Current(sync)] \in page[p].files
                BY <1>2 DEF BodyFits, b
            <4>2. b.form = form
                BY <4>1 DEF Body
            <4> QED BY <2>1, <2>2, <4>1, <4>2 DEF ShowsIn
        <3>3. sync.todo # {} /\ sync.placed[Current(sync)] = p /\ p # NoId
            BY <1>2, <1>3 DEF WayOK, PlacedOK
        <3>4. AloneIn(sync, Current(sync)) /\ sync.placed[Current(sync)] \in LiveIn(page') \ touched
                 => ShowsIn(page', sync.placed[Current(sync)], Current(sync), sync.text[Current(sync)])
            BY <3>2, <3>3
        <3>5. sync.placed[Current(sync)] # NoId
            BY <3>3
        <3>6. ShapeOK(sync') /\ RunOK(page', touched, fresh, unread, sync')
            BY <2>3, <3>1, <3>3, <3>4, <3>5, NextOfKeeps
        <3> QED BY <2>1, <2>3, <3>6, WriteKeeps
    <2>5. CASE Fail
        BY <2>1, <2>3, <2>5, WriteKeeps
    <2> QED BY <2>1, <2>4, <2>5
<1> QED BY <1>4, <1>5

\* A run that is to delete the pages of its queue.
DeletingOK(g, T, F, t) ==
    /\ IsRun(t) /\ t.text = [d \in Doc |-> t.text[d]] /\ t.placed = [d \in Doc |-> t.placed[d]]
    /\ t.todo \subseteq {d \in Doc : t.text[d] # Gone}
    /\ MappedOK(g, T, t) /\ DoneOK(g, T, t)
    /\ \A e \in t.queue : e.id \in Id \ {Target}
    /\ t.clean => t.mapped = {} /\ \A p \in BelowP(g, Target) \ T : p \in Ids(t.queue)
    /\ ~t.clean => t.todo = {} /\ SparedOK(g, F, t) /\ KeptOK(g, T, t)

\* Delete, of a run that has its queue.
DeleteOf(t) ==
    IF t.queue # {} THEN [t EXCEPT !.pc = "delete"]
    ELSE IF t.clean THEN Entry(t) ELSE [t EXCEPT !.pc = "summary"]

\* The next deletion, with the run as a parameter.
LEMMA DeleteIs ==
    ASSUME NEW s, IsRun(s), NEW E, NEW t, t = [s EXCEPT !.queue = E]
    PROVE  /\ Delete(s, E) = DeleteOf(t)
           /\ IsRun(t) /\ SameBooks(s, t) /\ t.queue = E /\ t.clean = s.clean /\ t.todo = s.todo
<1>1. IsRun(t) /\ SameBooks(s, t) /\ t.queue = E /\ t.clean = s.clean /\ t.todo = s.todo
    BY DEF IsRun, RunFields, SameBooks
<1> QED BY <1>1 DEF Delete, DeleteOf

\* What a queue spares and keeps is the same for two runs with the same one.
LEMMA QueueSame ==
    ASSUME NEW g, NEW T, NEW F, NEW s, NEW t, t.queue = s.queue, t.mapped = s.mapped
    PROVE  (SparedOK(g, F, s) => SparedOK(g, F, t)) /\ (KeptOK(g, T, s) => KeptOK(g, T, t))
<1>1. \A p : (Doomed(g, s, p) <=> Doomed(g, t, p)) /\ (LeftIn(g, s, p) <=> LeftIn(g, t, p))
    BY DEF Doomed, LeftIn
<1> QED BY <1>1 DEF SparedOK, KeptOK

\* The deletions go on, or the run does.
LEMMA DeleteKeeps ==
    ASSUME NEW g, NEW T, NEW F, NEW U, NEW t, DeletingOK(g, T, F, t), NEW u, u = DeleteOf(t)
    PROVE  ShapeOK(u) /\ RunOK(g, T, F, U, u)
<1>1. ASSUME NEW pc, u = [t EXCEPT !.pc = pc]
      PROVE  IsRun(u) /\ SameBooks(t, u) /\ SameTask(t, u) /\ u.pc = pc
    BY <1>1 DEF DeletingOK, IsRun, RunFields, SameBooks, SameTask
<1>2. ASSUME IsRun(u), SameBooks(t, u), SameTask(t, u)
      PROVE  /\ MappedOK(g, T, u) /\ DoneOK(g, T, u)
             /\ ~u.clean => SparedOK(g, F, u) /\ KeptOK(g, T, u)
    <2>1. MappedOK(g, T, u) /\ DoneOK(g, T, u)
        BY <1>2, BooksKept DEF DeletingOK, SameTask
    <2>2. u.queue = t.queue /\ u.mapped = t.mapped
        BY <1>2 DEF SameBooks, SameTask
    <2>3. (SparedOK(g, F, t) => SparedOK(g, F, u)) /\ (KeptOK(g, T, t) => KeptOK(g, T, u))
        BY <2>2, QueueSame
    <2> QED BY <1>2, <2>1, <2>3 DEF DeletingOK, SameTask
<1>3. CASE t.queue # {}
    <2> DEFINE pc == "delete"
    <2>1. u = [t EXCEPT !.pc = pc]
        BY <1>3 DEF DeleteOf
    <2>2. pc = "delete"
        OBVIOUS
    <2> HIDE DEF pc
    <2>3. IsRun(u) /\ SameBooks(t, u) /\ SameTask(t, u) /\ u.pc = "delete"
        BY <1>1, <2>1, <2>2
    <2>4. MappedOK(g, T, u) /\ DoneOK(g, T, u) /\ (~u.clean => SparedOK(g, F, u) /\ KeptOK(g, T, u))
        BY <1>2, <2>3
    <2>5. ShapeOK(u)
        BY <2>3 DEF DeletingOK, ShapeOK, SameBooks, SameTask, Pcs, EntryPcs, IsRun
    <2>6. EntryOK(g, T, U, u) /\ SummaryOK(g, U, u)
        BY <2>3 DEF EntryOK, SummaryOK, EntryPcs
    <2>7. PruneOK(g, T, F, u)
        BY <2>3, <2>4 DEF DeletingOK, SameTask, SameBooks, PruneOK, EntryPcs
    <2> QED BY <2>4, <2>5, <2>6, <2>7 DEF RunOK
<1>4. CASE t.queue = {} /\ t.clean
    <2>1. u = Entry(t)
        BY <1>4 DEF DeleteOf
    <2>2. \A p \in BelowP(g, Target) \ T : FALSE
        BY <1>4 DEF DeletingOK, Ids
    <2>3. ReadyOK(g, T, t)
        BY <1>4, <2>2 DEF DeletingOK, ReadyOK
    <2> QED BY <2>1, <2>3, EntryKeeps
<1>5. CASE t.queue = {} /\ ~t.clean
    <2> DEFINE pc == "summary"
    <2>1. u = [t EXCEPT !.pc = pc]
        BY <1>5 DEF DeleteOf
    <2>2. pc = "summary"
        OBVIOUS
    <2> HIDE DEF pc
    <2>3. IsRun(u) /\ SameBooks(t, u) /\ SameTask(t, u) /\ u.pc = "summary"
        BY <1>1, <2>1, <2>2
    <2>4. MappedOK(g, T, u) /\ DoneOK(g, T, u) /\ (~u.clean => SparedOK(g, F, u) /\ KeptOK(g, T, u))
        BY <1>2, <2>3
    <2>5. ShapeOK(u)
        BY <1>5, <2>3 DEF DeletingOK, ShapeOK, SameBooks, SameTask, Pcs, EntryPcs, IsRun
    <2>6. EntryOK(g, T, U, u) /\ SummaryOK(g, U, u)
        BY <2>3 DEF EntryOK, SummaryOK, EntryPcs
    <2>7. PruneOK(g, T, F, u)
        BY <1>5, <2>3, <2>4 DEF DeletingOK, SameTask, SameBooks, PruneOK, EntryPcs
    <2> QED BY <2>4, <2>5, <2>6, <2>7 DEF RunOK
<1> QED BY <1>3, <1>4, <1>5

\* A run between two entries or requests, of the space as it is.
LEMMA RunFacts ==
    ASSUME WikiInv, sync.pc \notin {"idle", "failed"}
    PROVE  /\ IsSpace(page) /\ InflightOK(page, inflight) /\ fresh \subseteq touched
           /\ IsRun(sync) /\ sync.text = [d \in Doc |-> sync.text[d]] /\ sync.placed = [d \in Doc |-> sync.placed[d]]
           /\ sync.todo \subseteq {d \in Doc : sync.text[d] # Gone} /\ ShapeOK(sync)
           /\ MappedOK(page, touched, sync) /\ DoneOK(page, touched, sync)
           /\ PruneOK(page, touched, fresh, sync) /\ SummaryOK(page, unread, sync)
BY DEF WikiInv, ShapeOK, IsRun, RunOK

\* What a listing says of a page.
LEMMA ItemIs ==
    \A p : Item(p).id = p /\ Item(p).type = page[p].type /\ Item(p).above = page[p].above
BY DEF Item

\* The ids in a listing are those of its pages.
LEMMA InventoryIds == \A S : Ids(Inventory(S)) = S
<1> TAKE S
<1>1. \A p \in S : Item(p).id = p
    BY ItemIs
<1> QED BY <1>1 DEF Ids, Inventory

\* Every live page is below the target.
LEMMA BelowTarget ==
    ASSUME NEW g, IsSpace(g)
    PROVE  BelowP(g, Target) = LiveIn(g) \ {Target} /\ \A p : BelowP(g, p) \subseteq Id \ {Target}
<1>1. Target \in LiveIn(g) /\ g[Target].above = {}
    BY TreeFacts DEF IsSpace, IsTree
<1>2. \A p \in LiveIn(g) \ {Target} : Target \in g[p].above
    BY TreeFacts
<1> QED BY <1>1, <1>2 DEF BelowP, LiveIn

\* A clean run begins by planning to delete every page.
LEMMA CleanKeeps ==
    ASSUME WikiInv, Clean PROVE WikiInv'
<1>1. sync.pc = "clean"
    BY DEF Clean
<1>2. /\ IsSpace(page) /\ IsRun(sync) /\ ShapeOK(sync)
      /\ sync.text = [d \in Doc |-> sync.text[d]] /\ sync.placed = [d \in Doc |-> sync.placed[d]]
      /\ sync.todo \subseteq {d \in Doc : sync.text[d] # Gone}
      /\ MappedOK(page, touched, sync) /\ DoneOK(page, touched, sync)
    BY <1>1, RunFacts
<1>3. CASE Fails
    BY <1>3, QuietFailKeeps DEF Fails, space
<1> DEFINE S == BelowP(page, Target)
           E == Inventory(S)
<1>4. CASE Reads(sync' = Delete(sync, Inventory(Below(Target))))
    <2> DEFINE t == [sync EXCEPT !.queue = E]
    <2>1. sync' = Delete(sync, E) /\ UNCHANGED <<page, inflight, touched, fresh, tree, unread>>
        BY <1>4, TrashIsTrashIn, TypesDiffer DEF Reads, Quiet, space, history
    <2>2. Ids(E) = S /\ \A e \in E : e.id \in Id \ {Target}
        <3>1. Ids(E) = S
            BY InventoryIds
        <3>2. S \subseteq Id \ {Target}
            BY <1>2, BelowTarget
        <3> QED BY <3>1, <3>2 DEF Ids
    <2> HIDE DEF E
    <2>3. /\ Delete(sync, E) = DeleteOf(t)
          /\ IsRun(t) /\ SameBooks(sync, t) /\ t.queue = E /\ t.clean = sync.clean /\ t.todo = sync.todo
        BY <1>2, DeleteIs
    <2> HIDE DEF t
    <2>4. sync.clean /\ sync.mapped = {}
        BY <1>1, <1>2 DEF ShapeOK
    <2>5. MappedOK(page, touched, t) /\ DoneOK(page, touched, t)
        BY <1>2, <2>3, BooksKept
    <2>6. DeletingOK(page, touched, fresh, t)
        BY <1>2, <2>2, <2>3, <2>4, <2>5 DEF DeletingOK, SameBooks
    <2>7. ShapeOK(sync') /\ RunOK(page, touched, fresh, unread, sync')
        BY <2>1, <2>3, <2>6, DeleteKeeps
    <2> QED BY <2>1, <2>7, ReadKeeps
<1> QED BY <1>3, <1>4 DEF Clean

\* What is deleted is what the run may delete; the rest stays as it was.
LEMMA DeletedOK ==
    ASSUME NEW g, IsSpace(g), NEW T, NEW F, F \subseteq T, NEW s, DeletingOK(g, T, F, s),
           NEW e \in s.queue, NEW h, h = TrashIn(g, e.id),
           NEW t, IsRun(t), SameBooks(s, t), t.clean = s.clean, t.todo = s.todo, t.queue = s.queue \ {e}
    PROVE  Later(g, T, h, T) /\ DeletingOK(h, T, F, t)
<1> DEFINE p == e.id
<1>1. p \in Id \ {Target}
    BY DEF DeletingOK
<1>2. /\ IsSpace(h) /\ LiveIn(h) = LiveIn(g) \ ({p} \cup BelowP(g, p))
      /\ \A q \in LiveIn(h) : h[q] = g[q]
      /\ \A q \in Id : h[q] = NoPage => g[q] = NoPage
    BY <1>1, Removed
<1>3. Later(g, T, h, T)
    BY <1>2 DEF Later
<1>4. ASSUME NEW m \in s.mapped, m \in LiveIn(g) PROVE m \in LiveIn(h) \/ m \in T
    <2>1. CASE s.clean
        BY <1>4, <2>1 DEF DeletingOK
    <2>2. CASE ~s.clean
        <3>1. SparedOK(g, F, s)
            BY <2>2 DEF DeletingOK
        <3>2. m \notin LiveIn(h) => Doomed(g, s, m)
            BY <1>2, <1>4 DEF BelowP, Doomed
        <3>3. ~LeftIn(g, s, m)
            BY DEF LeftIn
        <3> QED BY <1>4, <3>1, <3>2, <3>3 DEF SparedOK
    <2> QED BY <2>1, <2>2
<1>5. MappedOK(g, T, s) /\ DoneOK(g, T, s)
    BY DEF DeletingOK
<1>6. MappedOK(h, T, s)
    BY <1>3, <1>4, <1>5, MappedLater
<1>7. DoneOK(h, T, s)
    BY <1>2, <1>5 DEF DoneOK, ShowsIn
<1>8. MappedOK(h, T, t) /\ DoneOK(h, T, t)
    BY <1>6, <1>7, BooksKept
<1>9. \A q \in BelowP(h, Target) : q \in BelowP(g, Target) /\ q # p /\ q \in LiveIn(h) /\ q \in LiveIn(g)
    BY <1>2 DEF BelowP
<1>10. \A q : q \in Ids(s.queue) /\ q # p => q \in Ids(t.queue)
    BY DEF Ids
<1>11. ASSUME ~s.clean PROVE SparedOK(h, F, t) /\ KeptOK(h, T, t)
    <2>1. SparedOK(g, F, s) /\ KeptOK(g, T, s)
        BY <1>11 DEF DeletingOK
    <2>2. \A q \in LiveIn(h) : (Doomed(h, t, q) => Doomed(g, s, q)) /\ (LeftIn(h, t, q) <=> LeftIn(g, s, q))
        BY <1>2 DEF Doomed, LeftIn, SameBooks
    <2>3. SparedOK(h, F, t)
        BY <1>2, <2>1, <2>2 DEF SparedOK
    <2>4. ASSUME NEW q \in BelowP(h, Target) \ T, LeftIn(h, t, q), q \notin Ids(t.queue)
          PROVE  \E r \in BelowP(h, q) : ~LeftIn(h, t, r) /\ ~Doomed(h, t, r)
        <3>1. q \in BelowP(g, Target) \ T /\ LeftIn(g, s, q) /\ q \notin Ids(s.queue)
            BY <1>9, <1>10, <2>2, <2>4
        <3>2. PICK r \in BelowP(g, q) : ~LeftIn(g, s, r) /\ ~Doomed(g, s, r)
            BY <2>1, <3>1 DEF KeptOK
        <3>3. r \in LiveIn(h)
            BY <1>2, <3>2 DEF BelowP, Doomed
        <3>4. r \in BelowP(h, q)
            BY <1>2, <3>2, <3>3 DEF BelowP
        <3> QED BY <2>2, <3>2, <3>3, <3>4
    <2> QED BY <2>3, <2>4 DEF KeptOK
<1>12. s.clean => t.mapped = {} /\ \A q \in BelowP(h, Target) \ T : q \in Ids(t.queue)
    BY <1>9, <1>10 DEF DeletingOK, SameBooks
<1>13. /\ t.text = [d \in Doc |-> t.text[d]] /\ t.placed = [d \in Doc |-> t.placed[d]]
       /\ t.todo \subseteq {d \in Doc : t.text[d] # Gone}
       /\ \A f \in t.queue : f.id \in Id \ {Target}
       /\ ~s.clean => t.todo = {}
    BY DEF DeletingOK, SameBooks
<1> QED BY <1>3, <1>8, <1>11, <1>12, <1>13 DEF DeletingOK

\* A page is deleted with what is below it, or its deletion may land later.
LEMMA DeleteNextKeeps ==
    ASSUME WikiInv, DeleteNext PROVE WikiInv'
<1>1. sync.pc = "delete"
    BY DEF DeleteNext
<1>2. /\ IsSpace(page) /\ IsRun(sync) /\ ShapeOK(sync) /\ fresh \subseteq touched /\ InflightOK(page, inflight)
      /\ sync.text = [d \in Doc |-> sync.text[d]] /\ sync.placed = [d \in Doc |-> sync.placed[d]]
      /\ sync.todo \subseteq {d \in Doc : sync.text[d] # Gone}
      /\ MappedOK(page, touched, sync) /\ DoneOK(page, touched, sync) /\ PruneOK(page, touched, fresh, sync)
    BY <1>1, RunFacts
<1>3. DeletingOK(page, touched, fresh, sync)
    BY <1>1, <1>2 DEF DeletingOK, PruneOK, ShapeOK
<1>4. PICK e \in sync.queue :
         IF e.id \in Live
         THEN \/ Writes(Trash(e.id), sync' = Delete(sync, sync.queue \ {e}))
              \/ GivesUp([kind |-> "delete", id |-> e.id])
         ELSE Fails
    BY DEF DeleteNext
<1>5. e.id \in Id \ {Target}
    BY <1>3 DEF DeletingOK
<1>6. CASE Fails
    BY <1>6, QuietFailKeeps DEF Fails, space
<1>7. CASE Writes(Trash(e.id), sync' = Delete(sync, sync.queue \ {e}))
    <2> DEFINE E == sync.queue \ {e}
               t == [sync EXCEPT !.queue = E]
    <2>1. /\ page' = TrashIn(page, e.id) /\ UNCHANGED <<tree, inflight, touched, fresh, unread>>
          /\ (Fail \/ sync' = Delete(sync, E))
        BY <1>5, <1>7, TrashIsTrashIn DEF Writes
    <2>2. E = sync.queue \ {e}
        OBVIOUS
    <2> HIDE DEF E
    <2>3. /\ Delete(sync, E) = DeleteOf(t)
          /\ IsRun(t) /\ SameBooks(sync, t) /\ t.queue = E /\ t.clean = sync.clean /\ t.todo = sync.todo
        BY <1>2, DeleteIs
    <2> HIDE DEF t
    <2>4. Later(page, touched, page', touched) /\ DeletingOK(page', touched, fresh, t)
        BY <1>2, <1>3, <2>1, <2>2, <2>3, DeletedOK
    <2>5. ASSUME sync' = Delete(sync, E) PROVE ShapeOK(sync') /\ RunOK(page', touched, fresh, unread, sync')
        BY <2>3, <2>4, <2>5, DeleteKeeps
    <2> QED BY <2>1, <2>4, <2>5, WriteKeeps
<1>8. CASE GivesUp([kind |-> "delete", id |-> e.id])
    <2> DEFINE w == [kind |-> "delete", id |-> e.id]
    <2>1. w.kind = "delete" /\ w.id = e.id
        OBVIOUS
    <2>2. inflight' = inflight \cup {w} /\ Fail /\ UNCHANGED <<tree, page, touched, fresh>>
        BY <1>8 DEF GivesUp
    <2> HIDE DEF w
    <2>3. InflightOK(page, inflight \cup {w})
        BY <1>2, <1>5, <2>1 DEF InflightOK
    <2>4. InflightOK(page', inflight') /\ IsSpace(page') /\ fresh' \subseteq touched'
        BY <1>2, <2>2, <2>3
    <2> QED BY <2>2, <2>4, FailKeeps
<1> QED BY <1>4, <1>6, <1>7, <1>8

\* A run whose listing is to be looked at.
PlanningOK(g, T, F, t) ==
    /\ IsRun(t) /\ t.text = [d \in Doc |-> t.text[d]] /\ t.placed = [d \in Doc |-> t.placed[d]]
    /\ t.todo = {} /\ ~t.clean /\ t.queue = {} /\ t.pc = "plan"
    /\ MappedOK(g, T, t) /\ DoneOK(g, T, t) /\ ListedOK(g, T, F, t)

\* A run that is about to plan.
LEMMA PlanningKeeps ==
    ASSUME NEW g, NEW T, NEW F, NEW U, NEW t, PlanningOK(g, T, F, t)
    PROVE  ShapeOK(t) /\ RunOK(g, T, F, U, t)
<1>1. ShapeOK(t)
    BY DEF PlanningOK, ShapeOK, Pcs, EntryPcs, IsRun
<1>2. EntryOK(g, T, U, t) /\ SummaryOK(g, U, t)
    BY DEF PlanningOK, EntryOK, SummaryOK, EntryPcs
<1>3. PruneOK(g, T, F, t)
    BY DEF PlanningOK, PruneOK, EntryPcs
<1> QED BY <1>1, <1>2, <1>3 DEF PlanningOK, RunOK

\* A listing of S, when what is not in S counts as new.
LEMMA ListingOK ==
    ASSUME IsSpace(page), NEW S, S \subseteq BelowP(page, Target), NEW T, NEW F,
           \A p \in BelowP(page, Target) : p \notin S \/ page[p].above \cap (BelowP(page, Target) \ S) # {} => p \in F,
           NEW t, t.listing = Inventory(S)
    PROVE  ListedOK(page, T, F, t)
<1>1. Ids(t.listing) = S
    BY InventoryIds
<1>2. BelowP(page, Target) = LiveIn(page) \ {Target} /\ S \subseteq Id \ {Target}
    BY BelowTarget
<1>3. ASSUME NEW p \in BelowP(page, Target) \ F
      PROVE  p \in Ids(t.listing) /\ page[p].above \subseteq Ids(t.listing) \cup {Target}
    <2>1. p \in LiveIn(page) /\ p \in S
        BY <1>2, <1>3
    <2>2. \A a \in page[p].above : a \in LiveIn(page)
        BY <2>1, TreeFacts
    <2>3. \A a \in page[p].above : a \in S \cup {Target}
        BY <1>2, <1>3, <2>2
    <2> QED BY <1>1, <2>1, <2>3
<1>4. ASSUME NEW e \in t.listing
      PROVE  /\ e.id \in Id \ {Target} /\ page[e.id] # NoPage /\ e.id \in LiveIn(page)
             /\ e = [id |-> e.id, type |-> page[e.id].type, above |-> page[e.id].above]
    <2>1. PICK p \in S : e = Item(p)
        BY <1>4 DEF Inventory
    <2>2. e.id = p /\ e = [id |-> p, type |-> page[p].type, above |-> page[p].above]
        BY <2>1 DEF Item
    <2>3. p \in LiveIn(page) /\ p \in Id \ {Target} /\ page[p] # NoPage
        BY <1>2, LiveShape
    <2> QED BY <2>2, <2>3
<1> QED BY <1>3, <1>4 DEF ListedOK

\* More pages are touched.
LEMMA TouchedGrows ==
    ASSUME NEW g, IsSpace(g), NEW T, NEW V, T \subseteq V, NEW s, MappedOK(g, T, s), DoneOK(g, T, s)
    PROVE  MappedOK(g, V, s) /\ DoneOK(g, V, s)
<1>1. Later(g, T, g, V)
    BY DEF Later
<1>2. MappedOK(g, V, s)
    BY <1>1, MappedLater
<1>3. DoneOK(g, V, s)
    BY DEF DoneOK
<1> QED BY <1>2, <1>3

\* The pages below the target are listed, or all but one.
LEMMA ListKeeps ==
    ASSUME WikiInv, List PROVE WikiInv'
<1>1. sync.pc = "list"
    BY DEF List
<1>2. /\ IsSpace(page) /\ IsRun(sync) /\ ShapeOK(sync) /\ fresh \subseteq touched /\ InflightOK(page, inflight)
      /\ sync.text = [d \in Doc |-> sync.text[d]] /\ sync.placed = [d \in Doc |-> sync.placed[d]]
      /\ MappedOK(page, touched, sync) /\ DoneOK(page, touched, sync)
    BY <1>1, RunFacts
<1>3. sync.todo = {} /\ ~sync.clean /\ sync.queue = {}
    BY <1>1, <1>2 DEF ShapeOK
<1> DEFINE B == BelowP(page, Target)
<1>4. Below(Target) = B /\ \A p \in B : p \in Id /\ Below(p) = BelowP(page, p)
    <2>1. B \subseteq Id
        BY <1>2, BelowTarget
    <2> QED BY <2>1, TrashIsTrashIn, TypesDiffer
<1>5. ASSUME NEW S, S \subseteq B, NEW V, touched \subseteq V, NEW W, W \subseteq V,
             \A p \in B : p \notin S \/ page[p].above \cap (B \ S) # {} => p \in W,
             sync' = [sync EXCEPT !.pc = "plan", !.listing = Inventory(S)],
             fresh' = W, touched' = V, UNCHANGED <<tree, page, inflight>>
      PROVE  WikiInv'
    <2>1. /\ IsRun(sync') /\ SameBooks(sync, sync') /\ sync'.pc = "plan" /\ sync'.listing = Inventory(S)
          /\ sync'.todo = sync.todo /\ sync'.clean = sync.clean /\ sync'.queue = sync.queue
        BY <1>2, <1>5 DEF IsRun, RunFields, SameBooks
    <2>2. ListedOK(page, V, W, sync')
        BY <1>2, <1>5, <2>1, ListingOK
    <2>3. MappedOK(page, V, sync) /\ DoneOK(page, V, sync)
        BY <1>2, <1>5, TouchedGrows
    <2>4. MappedOK(page, V, sync') /\ DoneOK(page, V, sync')
        BY <2>1, <2>3, BooksKept
    <2>5. PlanningOK(page, V, W, sync')
        BY <1>2, <1>3, <2>1, <2>2, <2>4 DEF PlanningOK, SameBooks
    <2>6. ShapeOK(sync') /\ RunOK(page, V, W, unread', sync')
        BY <2>5, PlanningKeeps
    <2>7. IsSpace(page') /\ InflightOK(page', inflight') /\ RunOK(page', touched', fresh', unread', sync')
        BY <1>2, <1>5, <2>6
    <2> QED BY <1>5, <2>6, <2>7, GoesOn
<1>6. CASE /\ sync' = [sync EXCEPT !.pc = "plan", !.listing = Inventory(Below(Target))]
           /\ fresh' = {} /\ UNCHANGED <<space, page, touched, unread, calm>>
    <2> DEFINE W == {}
    <2>1. /\ B \subseteq B /\ touched \subseteq touched /\ W \subseteq touched
          /\ \A p \in B : p \notin B \/ page[p].above \cap (B \ B) # {} => p \in W
          /\ sync' = [sync EXCEPT !.pc = "plan", !.listing = Inventory(B)]
          /\ fresh' = W /\ touched' = touched /\ UNCHANGED <<tree, page, inflight>>
        BY <1>4, <1>6 DEF space
    <2> HIDE DEF W, B
    <2> QED BY <1>5, <2>1
<1>7. ASSUME NEW p \in Below(Target), UNCHANGED <<tree, mmdc, page, inflight, unread>>,
             \/ /\ sync' = [sync EXCEPT !.pc = "plan", !.listing = Inventory(Below(Target) \ {p})]
                /\ fresh' = {p} \cup Below(p) /\ touched' = touched \cup fresh'
             \/ Below(p) # {} /\ Fail /\ UNCHANGED <<fresh, touched>>
      PROVE  WikiInv'
    <2>1. CASE Fail /\ UNCHANGED <<fresh, touched>>
        BY <1>7, <2>1, QuietFailKeeps
    <2>2. CASE /\ sync' = [sync EXCEPT !.pc = "plan", !.listing = Inventory(Below(Target) \ {p})]
               /\ fresh' = {p} \cup Below(p) /\ touched' = touched \cup fresh'
        <3> DEFINE S == B \ {p}
                   W == {p} \cup BelowP(page, p)
                   V == touched \cup W
        <3>1. sync' = [sync EXCEPT !.pc = "plan", !.listing = Inventory(S)] /\ fresh' = W /\ touched' = V
            BY <1>4, <1>7, <2>2
        <3>2. \A q \in B : q \notin S \/ page[q].above \cap (B \ S) # {} => q \in W
            BY DEF BelowP
        <3>3. S \subseteq B /\ touched \subseteq V /\ W \subseteq V
            OBVIOUS
        <3> HIDE DEF S, W, V
        <3> QED BY <1>5, <1>7, <3>1, <3>2, <3>3
    <2> QED BY <1>7, <2>1, <2>2
<1> QED BY <1>6, <1>7 DEF List

\* planStalePruning spares what it has to and takes what it can.
LEMMA PlannedOK ==
    ASSUME IsSpace(page), sync.pc = "plan", PlanningOK(page, touched, fresh, sync), fresh \subseteq touched,
           Ids(Unmapped) \subseteq Live,
           NEW E, E = {e \in sync.listing : Prunable(e)}, NEW t, t.queue = E, t.mapped = sync.mapped
    PROVE  SparedOK(page, fresh, t) /\ KeptOK(page, touched, t)
<1> DEFINE L == sync.listing
           B == BelowP(page, Target)
<1>1. /\ \A p \in B \ fresh : p \in Ids(L) /\ page[p].above \subseteq Ids(L) \cup {Target}
      /\ \A e \in L : /\ e.id \in Id \ {Target}
                      /\ IF e.id \in LiveIn(page)
                         THEN e.type = page[e.id].type /\ e.above = page[e.id].above
                              /\ e = [id |-> e.id, type |-> page[e.id].type, above |-> page[e.id].above]
                         ELSE {e.id} \cup e.above \subseteq touched
    <2>1. ListedOK(page, touched, fresh, sync)
        BY DEF PlanningOK
    <2>2. \A e : e = [id |-> e.id, type |-> page[e.id].type, above |-> page[e.id].above] =>
                    e.type = page[e.id].type /\ e.above = page[e.id].above
        OBVIOUS
    <2>3. \A p \in B \ fresh : p \in Ids(L) /\ page[p].above \subseteq Ids(L) \cup {Target}
        BY <2>1 DEF ListedOK
    <2>4. \A e \in L : /\ e.id \in Id \ {Target}
                       /\ IF e.id \in LiveIn(page)
                          THEN e = [id |-> e.id, type |-> page[e.id].type, above |-> page[e.id].above]
                          ELSE {e.id} \cup e.above \subseteq touched
        BY <2>1 DEF ListedOK
    <2> QED BY <2>2, <2>3, <2>4
<1>2. B = LiveIn(page) \ {Target} /\ Target \in LiveIn(page)
    BY BelowTarget DEF IsSpace, IsTree
<1>3. \A e \in L : Stale(e) => /\ e.id \in B /\ e.type = page[e.id].type /\ e.above = page[e.id].above
                               /\ LeftIn(page, t, e.id) /\ Target \in e.above
    <2> SUFFICES ASSUME NEW e \in L, Stale(e)
                 PROVE  /\ e.id \in B /\ e.type = page[e.id].type /\ e.above = page[e.id].above
                        /\ LeftIn(page, t, e.id) /\ Target \in e.above
        OBVIOUS
    <2>1. e \in Unmapped /\ page[e.id].label
        BY DEF Stale
    <2>2. e.id \in LiveIn(page) /\ e.type = "page" /\ e.id \notin sync.mapped
        BY <2>1 DEF Unmapped, Ids, Live
    <2>3. e.id # Target /\ e.type = page[e.id].type /\ e.above = page[e.id].above
        BY <1>1, <2>2
    <2>4. Target \in page[e.id].above
        BY <2>2, <2>3, TreeFacts
    <2> QED BY <1>2, <2>1, <2>2, <2>3, <2>4 DEF LeftIn
<1>4. \A e \in L : e.id \in LiveIn(page) /\ LeftIn(page, t, e.id) => Stale(e)
    BY <1>1 DEF Stale, Unmapped, LeftIn
<1>5. \A e \in E : e \in L /\ Stale(e) /\ \A f \in BelowIn(L, e) : Stale(f)
    BY DEF Prunable
<1>6. ASSUME NEW e \in L, NEW f \in L, e.id \in f.above, Target \in e.above,
             f.above \subseteq Ids(L) \cup {Target}
      PROVE  f \in BelowIn(L, e)
    BY <1>6 DEF BelowIn
<1>7. SparedOK(page, fresh, t)
    <2> SUFFICES ASSUME NEW p \in LiveIn(page), Doomed(page, t, p), p \notin fresh PROVE LeftIn(page, t, p)
        BY DEF SparedOK
    <2>1. PICK e \in E : p = e.id \/ e.id \in page[p].above
        BY DEF Doomed
    <2>2. e \in L /\ Stale(e) /\ e.id \in B /\ LeftIn(page, t, e.id) /\ Target \in e.above
        BY <1>3, <1>5
    <2>3. CASE p = e.id
        BY <2>2, <2>3
    <2>4. CASE e.id \in page[p].above
        <3>1. p \in B
            BY <1>2, <2>4, TreeFacts
        <3>2. p \in Ids(L) /\ page[p].above \subseteq Ids(L) \cup {Target}
            BY <1>1, <3>1
        <3>3. PICK f \in L : f.id = p
            BY <3>2 DEF Ids
        <3>4. f.above = page[p].above
            BY <1>1, <3>3
        <3>5. f \in BelowIn(L, e)
            BY <1>6, <2>2, <2>4, <3>2, <3>4
        <3>6. Stale(f)
            BY <1>5, <3>5
        <3> QED BY <1>3, <3>3, <3>6
    <2> QED BY <2>1, <2>3, <2>4
<1>8. KeptOK(page, touched, t)
    <2> SUFFICES ASSUME NEW p \in B \ touched, LeftIn(page, t, p), p \notin Ids(t.queue)
                 PROVE  \E q \in BelowP(page, p) : ~LeftIn(page, t, q) /\ ~Doomed(page, t, q)
        BY DEF KeptOK
    <2>1. p \in B \ fresh /\ p \in LiveIn(page)
        BY <1>2
    <2>2. PICK e \in L : e.id = p
        BY <1>1, <2>1 DEF Ids
    <2>3. e.above = page[p].above /\ Stale(e) /\ e.above \subseteq Ids(L) \cup {Target}
        BY <1>1, <1>4, <2>1, <2>2
    <2>4. e \notin E
        BY <2>2 DEF Ids
    <2>5. PICK f \in BelowIn(L, e) : ~Stale(f)
        BY <2>3, <2>4 DEF Prunable
    <2>6. f \in L /\ p \in f.above /\ f.above \subseteq Ids(L) \cup {Target}
        <3>1. f \in L /\ e.id \in f.above /\ f.above \ e.above \subseteq Ids(L) \cup {e.id}
            BY <2>5 DEF BelowIn
        <3>2. p \in Ids(L)
            BY <1>1, <2>1
        <3> QED BY <2>2, <2>3, <3>1, <3>2
    <2>7. f.id \in LiveIn(page)
        BY <1>1, <2>6
    <2> DEFINE q == f.id
    <2>8. f.above = page[q].above /\ q \in BelowP(page, p)
        BY <1>1, <2>6, <2>7 DEF BelowP
    <2>9. ~LeftIn(page, t, q)
        BY <1>4, <2>5, <2>6, <2>7
    <2>10. ~Doomed(page, t, q)
        <3> SUFFICES ASSUME NEW c \in E, q = c.id \/ c.id \in page[q].above PROVE FALSE
            BY DEF Doomed
        <3>1. c \in L /\ Stale(c) /\ Target \in c.above /\ LeftIn(page, t, c.id)
            BY <1>3, <1>5
        <3>2. CASE q = c.id
            BY <2>9, <3>1, <3>2
        <3>3. CASE c.id \in page[q].above
            <4>1. f \in BelowIn(L, c)
                BY <1>6, <2>6, <2>8, <3>1, <3>3
            <4> QED BY <1>5, <2>5, <4>1
        <3> QED BY <3>2, <3>3
    <2> QED BY <2>8, <2>9, <2>10
<1> QED BY <1>7, <1>8

\* The deletions are planned from what the listing shows.
LEMMA PlanKeeps ==
    ASSUME WikiInv, Plan PROVE WikiInv'
<1>1. sync.pc = "plan"
    BY DEF Plan
<1>2. /\ IsSpace(page) /\ IsRun(sync) /\ ShapeOK(sync) /\ fresh \subseteq touched
      /\ sync.text = [d \in Doc |-> sync.text[d]] /\ sync.placed = [d \in Doc |-> sync.placed[d]]
      /\ MappedOK(page, touched, sync) /\ DoneOK(page, touched, sync) /\ PruneOK(page, touched, fresh, sync)
    BY <1>1, RunFacts
<1>3. PlanningOK(page, touched, fresh, sync)
    BY <1>1, <1>2 DEF PlanningOK, PruneOK, ShapeOK
<1>4. CASE Fails
    BY <1>4, QuietFailKeeps DEF Fails, space
<1>5. CASE /\ Ids(Unmapped) \subseteq Live
           /\ Reads(sync' = Delete([sync EXCEPT !.listing = {}], {e \in sync.listing : Prunable(e)}))
    <2> DEFINE s == [sync EXCEPT !.listing = {}]
               E == {e \in sync.listing : Prunable(e)}
               t == [s EXCEPT !.queue = E]
    <2>1. sync' = Delete(s, E) /\ UNCHANGED <<page, inflight, touched, fresh, tree, unread>>
        BY <1>5 DEF Reads, Quiet, space, history
    <2>2. IsRun(s) /\ SameBooks(sync, s) /\ s.clean = sync.clean /\ s.todo = sync.todo
        BY <1>2 DEF IsRun, RunFields, SameBooks
    <2>3. \A e \in E : e.id \in Id \ {Target}
        BY <1>3 DEF PlanningOK, ListedOK
    <2>4. E = {e \in sync.listing : Prunable(e)}
        OBVIOUS
    <2> HIDE DEF s, E
    <2>5. /\ Delete(s, E) = DeleteOf(t)
          /\ IsRun(t) /\ SameBooks(s, t) /\ t.queue = E /\ t.clean = s.clean /\ t.todo = s.todo
        BY <2>2, DeleteIs
    <2> HIDE DEF t
    <2>6. SparedOK(page, fresh, t) /\ KeptOK(page, touched, t)
        <3>1. t.mapped = sync.mapped
            BY <2>2, <2>5 DEF SameBooks
        <3> QED BY <1>1, <1>2, <1>3, <1>5, <2>4, <2>5, <3>1, PlannedOK
    <2>7. MappedOK(page, touched, s) /\ DoneOK(page, touched, s)
        BY <1>2, <2>2, BooksKept
    <2>8. MappedOK(page, touched, t) /\ DoneOK(page, touched, t)
        BY <2>5, <2>7, BooksKept
    <2>9. DeletingOK(page, touched, fresh, t)
        BY <1>2, <1>3, <2>2, <2>3, <2>5, <2>6, <2>8 DEF DeletingOK, PlanningOK, SameBooks
    <2>10. ShapeOK(sync') /\ RunOK(page, touched, fresh, unread, sync')
        BY <2>1, <2>5, <2>9, DeleteKeeps
    <2> QED BY <2>1, <2>10, ReadKeeps
<1> QED BY <1>4, <1>5 DEF Plan

\* A run that has only its summary left.
ClosingOK(g, T, s) ==
    /\ IsRun(s) /\ s.text = [d \in Doc |-> s.text[d]] /\ s.placed = [d \in Doc |-> s.placed[d]]
    /\ s.todo = {} /\ s.queue = {} /\ MappedOK(g, T, s) /\ DoneOK(g, T, s)
    /\ s.clean => BelowP(g, Target) \ T \subseteq s.mapped
    /\ KeptOK(g, T, s)

\* What a run knows when it writes the summary.
LEMMA ClosingFacts ==
    ASSUME WikiInv, sync.pc \in {"summary", "putsummary"}
    PROVE  /\ ClosingOK(page, touched, sync) /\ IsSpace(page) /\ Target \in LiveIn(page)
           /\ IsParent(page[Target].body) /\ SummaryOK(page, unread, sync)
<1>1. /\ IsSpace(page) /\ IsRun(sync) /\ ShapeOK(sync)
      /\ sync.text = [d \in Doc |-> sync.text[d]] /\ sync.placed = [d \in Doc |-> sync.placed[d]]
      /\ MappedOK(page, touched, sync) /\ DoneOK(page, touched, sync) /\ PruneOK(page, touched, fresh, sync)
      /\ SummaryOK(page, unread, sync)
    BY RunFacts
<1>2. sync.todo = {} /\ sync.queue = {}
    BY <1>1 DEF ShapeOK
<1>3. sync.clean => BelowP(page, Target) \ touched \subseteq sync.mapped
    BY <1>1 DEF PruneOK
<1>4. KeptOK(page, touched, sync)
    <2>1. CASE sync.clean
        BY <1>3, <2>1 DEF KeptOK, LeftIn
    <2>2. CASE ~sync.clean
        BY <1>1, <2>2 DEF PruneOK
    <2> QED BY <2>1, <2>2
<1>5. Target \in LiveIn(page) /\ IsParent(page[Target].body)
    BY <1>1 DEF IsSpace, IsTree
<1> QED BY <1>1, <1>2, <1>3, <1>4, <1>5 DEF ClosingOK

\* The summary is about to be written.
LEMMA ClosingPc ==
    ASSUME NEW g, NEW T, NEW F, NEW U, NEW t, ClosingOK(g, T, t), t.pc = "putsummary", SummaryOK(g, U, t)
    PROVE  ShapeOK(t) /\ RunOK(g, T, F, U, t)
<1>1. ShapeOK(t)
    BY DEF ClosingOK, ShapeOK, Pcs, EntryPcs, IsRun
<1>2. EntryOK(g, T, U, t)
    BY DEF EntryOK, EntryPcs
<1>3. PruneOK(g, T, F, t)
    BY DEF ClosingOK, PruneOK, EntryPcs
<1> QED BY <1>1, <1>2, <1>3 DEF ClosingOK, RunOK

\* A run may report success once the summary is written.
LEMMA SucceedOK ==
    ASSUME NEW g, NEW T, NEW F, NEW U, NEW s, ClosingOK(g, T, s),
           NEW t, t = [Idle EXCEPT !.pc = "ok", !.text = s.text, !.mapped = s.mapped, !.placed = s.placed]
    PROVE  ShapeOK(t) /\ RunOK(g, T, F, U, t)
<1>1. /\ IsRun(t) /\ t.pc = "ok" /\ t.text = s.text /\ t.mapped = s.mapped /\ t.placed = s.placed
      /\ t.todo = {} /\ t.queue = {} /\ t.clean = FALSE /\ t.cache = {} /\ t.sure = {}
    BY DEF Idle, IsRun, RunFields
<1>2. ShapeOK(t)
    BY <1>1 DEF ClosingOK, ShapeOK, Pcs, EntryPcs, IsRun
<1>3. MappedOK(g, T, t)
    BY <1>1 DEF ClosingOK, MappedOK
<1>4. DoneOK(g, T, t)
    <2>1. \A d \in Doc : AloneIn(t, d) <=> AloneIn(s, d)
        BY <1>1 DEF AloneIn
    <2> QED BY <1>1, <2>1 DEF ClosingOK, DoneOK
<1>5. EntryOK(g, T, U, t) /\ SummaryOK(g, U, t)
    BY <1>1 DEF EntryOK, SummaryOK, EntryPcs
<1>6. KeptOK(g, T, t)
    <2>1. t.queue = s.queue /\ t.mapped = s.mapped /\ KeptOK(g, T, s)
        BY <1>1 DEF ClosingOK
    <2> QED BY <2>1, QueueSame
<1>7. PruneOK(g, T, F, t)
    BY <1>1, <1>6 DEF PruneOK, EntryPcs
<1> QED BY <1>2, <1>3, <1>4, <1>5, <1>7 DEF RunOK

\* The region of the tool is replaced, and nothing else.
LEMMA MergedIs ==
    ASSUME NEW b, IsParent(b) PROVE IsParent(Merged(b)) /\ Merged(b).own = b.own
<1>1. b = [x \in BodyFields |-> b[x]]
    BY DEF IsParent
<1>2. Merged(b) = [b EXCEPT !.marks = "one", !.docs = Records]
    BY DEF Merged
<1> QED BY <1>1, <1>2 DEF IsParent, BodyFields

\* The summary is read: it stands, or it is to be written.
LEMMA SummaryKeeps ==
    ASSUME WikiInv, Summary PROVE WikiInv'
<1>1. sync.pc \in {"summary", "putsummary"}
    BY DEF Summary
<1>2. ClosingOK(page, touched, sync) /\ IsSpace(page) /\ Target \in LiveIn(page) /\ IsParent(page[Target].body)
    BY <1>1, ClosingFacts
<1>3. CASE Fails
    BY <1>3, QuietFailKeeps DEF Fails, space
<1> DEFINE body == page[Target].body
<1>4. CASE Succeed /\ UNCHANGED <<space, page, touched, fresh, unread>>
    <2>1. ShapeOK(sync') /\ RunOK(page, touched, fresh, unread, sync')
        BY <1>2, <1>4, SucceedOK DEF Succeed
    <2> QED BY <1>4, <2>1, ReadKeeps DEF space
<1>5. CASE /\ sync' = [sync EXCEPT !.pc = "putsummary", !.id = Target, !.body = Merged(body),
                                   !.version = page[Target].version]
           /\ unread' = unread \ {Target} /\ UNCHANGED <<space, page, touched, fresh, calm>>
    <2> DEFINE b == Merged(body)
               v == page[Target].version
    <2>1. v \in Nat
        BY <1>2, LiveShape
    <2>2. IsParent(b) /\ b.own = body.own
        BY <1>2, MergedIs
    <2> HIDE DEF b
    <2>3. /\ IsRun(sync') /\ SameBooks(sync, sync') /\ SameTask(sync, sync') /\ sync'.pc = "putsummary"
          /\ sync'.body = b /\ sync'.version = v
        BY <1>2, <1>5 DEF ClosingOK, IsRun, RunFields, SameBooks, SameTask, b
    <2>4. SummaryOK(page, unread', sync')
        BY <1>5, <2>1, <2>2, <2>3 DEF SummaryOK
    <2>5. ClosingOK(page, touched, sync')
        <3>1. MappedOK(page, touched, sync') /\ DoneOK(page, touched, sync')
            BY <1>2, <2>3, BooksKept DEF ClosingOK, SameTask
        <3>2. KeptOK(page, touched, sync')
            <4>1. sync'.queue = sync.queue /\ sync'.mapped = sync.mapped
                BY <2>3 DEF SameBooks, SameTask
            <4>2. KeptOK(page, touched, sync)
                BY <1>2 DEF ClosingOK
            <4> QED BY <4>1, <4>2, QueueSame
        <3> QED BY <1>2, <2>3, <3>1, <3>2 DEF ClosingOK, SameBooks, SameTask
    <2>6. ShapeOK(sync') /\ RunOK(page, touched, fresh, unread', sync')
        BY <2>3, <2>4, <2>5, ClosingPc
    <2> QED BY <1>5, <2>6, ReadKeeps DEF space
<1> QED BY <1>3, <1>4, <1>5 DEF Summary

\* The summary is written, if nobody was there before.
LEMMA PutSummaryKeeps ==
    ASSUME WikiInv, PutSummary PROVE WikiInv'
<1>1. sync.pc \in {"summary", "putsummary"} /\ sync.pc = "putsummary"
    BY DEF PutSummary
<1>2. /\ ClosingOK(page, touched, sync) /\ IsSpace(page) /\ Target \in LiveIn(page)
      /\ IsParent(sync.body)
    BY <1>1, ClosingFacts DEF SummaryOK
<1>3. CASE Fails
    BY <1>3, QuietFailKeeps DEF Fails, space
<1>4. CASE ~Fails
    <2> DEFINE b == sync.body
    <2>1. /\ page' = BodyAt(page, Target, b) /\ UNCHANGED <<tree, inflight, touched, fresh, unread>>
          /\ Fail \/ Succeed
        BY <1>4 DEF PutSummary, BodyAt
    <2> HIDE DEF b
    <2>2. /\ OnlyIn(page, page', Target)
          /\ page'[Target].files = page[Target].files /\ page'[Target].label = page[Target].label
        <3>1. IsParent(b)
            BY <1>2 DEF b
        <3> QED BY <1>2, <2>1, <3>1, BodyWritten
    <2>3. Later(page, touched, page', touched)
        BY <1>2, <2>2, OnlyLater
    <2>4. LiveIn(page') = LiveIn(page)
        BY <2>2 DEF OnlyIn
    <2>5. MappedOK(page', touched, sync)
        BY <1>2, <2>3, <2>4, MappedLater DEF ClosingOK
    <2>6. DoneOK(page', touched, sync)
        <3>1. \A m \in sync.mapped : page'[m] = page[m]
            BY <1>2, <2>2 DEF ClosingOK, MappedOK, OnlyIn
        <3>2. \A d \in Doc : sync.placed[d] # NoId => sync.placed[d] \in sync.mapped
            BY <1>2 DEF ClosingOK, MappedOK
        <3> QED BY <1>2, <2>4, <3>1, <3>2 DEF ClosingOK, DoneOK, ShowsIn
    <2>7. \A q : BelowP(page', q) = BelowP(page, q)
        BY <2>2, BelowSame
    <2>8. KeptOK(page', touched, sync)
        <3>1. \A p \in Id : p # Target => page'[p] = page[p]
            BY <2>2 DEF OnlyIn
        <3>2. \A p : BelowP(page, p) \subseteq Id \ {Target}
            BY <1>2, BelowTarget
        <3>3. \A p : \A q \in BelowP(page, p) : page'[q] = page[q]
            BY <3>1, <3>2
        <3> QED BY <1>2, <2>7, <3>3 DEF ClosingOK, KeptOK, LeftIn, Doomed
    <2>9. ClosingOK(page', touched, sync)
        BY <1>2, <2>5, <2>6, <2>7, <2>8 DEF ClosingOK
    <2>10. ASSUME Succeed PROVE ShapeOK(sync') /\ RunOK(page', touched, fresh, unread, sync')
        BY <2>9, <2>10, SucceedOK DEF Succeed
    <2> QED BY <2>1, <2>3, <2>10, WriteKeeps
<1> QED BY <1>3, <1>4

\* A run begins, on whatever earlier runs left.
LEMMA StartKeeps ==
    ASSUME WikiInv, NEW clean \in BOOLEAN, Start(clean) PROVE WikiInv'
<1>1. /\ IsSpace(page') /\ InflightOK(page', inflight') /\ tree' = tree /\ page' = page
      /\ touched' = {} /\ fresh' = {} /\ tree = [d \in Doc |-> tree[d]]
    BY DEF WikiInv, Start
<1>2. CASE Fail
    BY <1>1, <1>2, FailKeeps
<1>3. CASE ~Fail
    <2> DEFINE s == [Idle EXCEPT !.clean = clean, !.text = tree, !.todo = Present]
    <2>1. sync' = IF clean THEN [s EXCEPT !.pc = "clean"] ELSE Entry(s)
        BY <1>3 DEF Start
    <2>2. /\ IsRun(s) /\ s.clean = clean /\ s.text = tree /\ s.todo = Present /\ s.queue = {}
          /\ s.mapped = {} /\ s.cache = {} /\ s.sure = {} /\ s.placed = [d \in Doc |-> NoId]
        BY DEF Idle, IsRun, RunFields
    <2> HIDE DEF s
    <2>3. MappedOK(page', touched', s)
        BY <2>2 DEF MappedOK
    <2>4. DoneOK(page', touched', s)
        BY <2>2 DEF DoneOK, Present
    <2>5. s.text = [d \in Doc |-> s.text[d]] /\ s.placed = [d \in Doc |-> s.placed[d]]
          /\ s.todo \subseteq {d \in Doc : s.text[d] # Gone}
        BY <1>1, <2>2 DEF Present
    <2>6. CASE clean
        <3>1. sync' = [s EXCEPT !.pc = "clean"]
            BY <2>1, <2>6
        <3>2. IsRun(sync') /\ SameBooks(s, sync') /\ SameTask(s, sync') /\ sync'.pc = "clean"
            BY <2>2, <3>1 DEF IsRun, RunFields, SameBooks, SameTask
        <3>3. MappedOK(page', touched', sync') /\ DoneOK(page', touched', sync')
            BY <2>3, <2>4, <3>2, BooksKept DEF SameTask
        <3>4. ShapeOK(sync')
            BY <2>2, <2>5, <2>6, <3>2 DEF ShapeOK, SameBooks, SameTask, Pcs, EntryPcs, IsRun
        <3>5. EntryOK(page', touched', unread', sync') /\ SummaryOK(page', unread', sync')
            BY <3>2 DEF EntryOK, SummaryOK, EntryPcs
        <3>6. PruneOK(page', touched', fresh', sync')
            BY <2>2, <3>2 DEF PruneOK, SameTask, EntryPcs
        <3>7. RunOK(page', touched', fresh', unread', sync')
            BY <3>3, <3>5, <3>6 DEF RunOK
        <3> QED BY <1>1, <3>4, <3>7, GoesOn
    <2>7. CASE ~clean
        <3>1. ReadyOK(page', touched', s)
            BY <2>2, <2>3, <2>4, <2>5, <2>7 DEF ReadyOK
        <3>2. sync' = Entry(s)
            BY <2>1, <2>7
        <3>3. ShapeOK(sync') /\ RunOK(page', touched', fresh', unread', sync')
            BY <3>1, <3>2, EntryKeeps
        <3> QED BY <1>1, <3>3, GoesOn
    <2> QED BY <2>6, <2>7
<1> QED BY <1>2, <1>3

\* The invariant holds of the first run ...
LEMMA WikiInvInit == Init => WikiInv
<1> SUFFICES ASSUME Init PROVE WikiInv
    OBVIOUS
<1>1. PICK f \in First : tree = f.tree /\ page = f.page
    BY DEF Init
<1>2. IsSpace(f.page) /\ f.tree \in [Doc -> Text \cup {Gone, Broken}]
    BY AssumptionOfConfluence DEF ConfluenceAssumption
<1>3. sync = Idle /\ inflight = {} /\ touched = {} /\ fresh = {}
    BY DEF Init
<1>4. /\ IsRun(Idle) /\ Idle.pc = "idle" /\ Idle.todo = {} /\ Idle.queue = {} /\ Idle.clean = FALSE
      /\ Idle.text = [d \in Doc |-> Gone] /\ Idle.placed = [d \in Doc |-> NoId] /\ Idle.mapped = {}
    BY DEF Idle, IsRun, RunFields
<1>5. Idle.text = [d \in Doc |-> Idle.text[d]] /\ Idle.placed = [d \in Doc |-> Idle.placed[d]]
    BY <1>4
<1>6. ShapeOK(Idle)
    BY <1>4, <1>5 DEF ShapeOK, Pcs, EntryPcs, IsRun
<1>7. RunOK(page, touched, fresh, unread, Idle)
    BY <1>4 DEF RunOK
<1>8. tree = [d \in Doc |-> tree[d]]
    BY <1>1, <1>2
<1> QED BY <1>1, <1>2, <1>3, <1>6, <1>7, <1>8 DEF WikiInv, InflightOK

\* ... and after every step.
LEMMA WikiInvNext == WikiInv /\ [Next]_vars => WikiInv'
<1> SUFFICES ASSUME WikiInv, [Next]_vars PROVE WikiInv'
    OBVIOUS
<1>1. CASE \E clean \in BOOLEAN : Start(clean)
    BY <1>1, StartKeeps
<1>2. CASE Lookup \/ Create \/ ReadLabels \/ AddLabel
    BY <1>2, LookupKeeps, CreateKeeps, ReadLabelsKeeps, AddLabelKeeps
<1>3. CASE Fetch \/ Rewrite \/ Put
    BY <1>3, FetchKeeps, RewriteKeeps, PutKeeps
<1>4. CASE Clean \/ List \/ Plan \/ DeleteNext
    BY <1>4, CleanKeeps, ListKeeps, PlanKeeps, DeleteNextKeeps
<1>5. CASE Summary \/ PutSummary
    BY <1>5, SummaryKeeps, PutSummaryKeeps
<1>6. CASE RequestFails
    BY <1>6, QuietFailKeeps DEF RequestFails
<1>7. CASE User
    BY <1>7, UserKeeps
<1>8. CASE UNCHANGED vars
    BY <1>8 DEF vars, WikiInv
<1> QED BY <1>1, <1>2, <1>3, <1>4, <1>5, <1>6, <1>7, <1>8 DEF Next, Step

\* Whatever the runs, the users, the network and the server do.
THEOREM WikiAlways == Spec => []WikiInv
<1>1. Init => WikiInv
    BY WikiInvInit
<1>2. WikiInv /\ [Next]_vars => WikiInv'
    BY WikiInvNext
<1> QED BY <1>1, <1>2, PTL DEF Spec

\* What the invariant says of a run that succeeded is what the property asks.
LEMMA InvIsMirror == WikiInv => SuccessIsMirror
<1> SUFFICES ASSUME WikiInv, sync.pc = "ok" PROVE
        /\ \A d \in Doc : sync.text[d] # Gone /\ sync.placed[d] \notin touched =>
              /\ Located(sync.placed[d], Segments[d])
              /\ Alone(d) => Shows(sync.placed[d], d, sync.text[d])
        /\ \A p \in Below(Target) \ touched : Leftover(p) =>
              \E q \in Below(p) : q \in touched \/ ~Leftover(q)
    BY DEF SuccessIsMirror
<1>1. /\ IsSpace(page) /\ ShapeOK(sync)
      /\ MappedOK(page, touched, sync) /\ DoneOK(page, touched, sync) /\ PruneOK(page, touched, fresh, sync)
    BY RunFacts
<1>2. sync.todo = {} /\ sync.queue = {} /\ ~sync.clean
    BY <1>1 DEF ShapeOK
<1>3. ASSUME NEW d \in Doc, sync.text[d] # Gone, sync.placed[d] \notin touched
      PROVE  /\ Located(sync.placed[d], Segments[d])
             /\ Alone(d) => Shows(sync.placed[d], d, sync.text[d])
    <2> DEFINE p == sync.placed[d]
    <2>1. /\ p # NoId /\ (AloneIn(sync, d) /\ p \in LiveIn(page) \ touched => ShowsIn(page, p, d, sync.text[d]))
        BY <1>1, <1>2, <1>3 DEF DoneOK
    <2>2. p \in LiveIn(page) /\ LocIn(page, touched, p, Segments[d])
        BY <1>1, <1>3, <2>1 DEF MappedOK
    <2>3. Located(p, Segments[d])
        BY <2>2 DEF LocIn, LocTo, Chain, Located, Live
    <2>4. Alone(d) => Shows(p, d, sync.text[d])
        BY <1>3, <2>1, <2>2 DEF Alone, AloneIn, Shows, ShowsIn
    <2> QED BY <2>3, <2>4
<1>4. ASSUME NEW p \in Below(Target) \ touched, Leftover(p)
      PROVE  \E q \in Below(p) : q \in touched \/ ~Leftover(q)
    <2>1. p \in BelowP(page, Target) \ touched /\ LeftIn(page, sync, p) /\ p \in Id
        BY <1>4, TrashIsTrashIn, TypesDiffer DEF Leftover, LeftIn, Below, Live, LiveIn
    <2>2. KeptOK(page, touched, sync)
        BY <1>1, <1>2 DEF PruneOK
    <2>3. p \notin Ids(sync.queue)
        BY <1>2 DEF Ids
    <2>4. PICK q \in BelowP(page, p) : ~LeftIn(page, sync, q)
        BY <2>1, <2>2, <2>3 DEF KeptOK
    <2>5. q \in Below(p) /\ ~Leftover(q)
        BY <2>1, <2>4, TrashIsTrashIn DEF Leftover, LeftIn
    <2> QED BY <2>5
<1> QED BY <1>3, <1>4

\* Confluence alone: a run that reports success leaves a mirror of the files.
THEOREM MirrorAlways == Spec => []SuccessIsMirror
BY WikiAlways, InvIsMirror, PTL

\* Only some steps of the run write.
LEMMA OnlyWriters ==
    ASSUME [Next]_vars, sync' # sync
    PROVE  page' = page \/ Create \/ AddLabel \/ Rewrite \/ Put \/ DeleteNext \/ PutSummary
<1>1. CASE \E clean \in BOOLEAN : Start(clean)
    BY <1>1 DEF Start
<1>2. CASE Lookup \/ ReadLabels \/ Fetch \/ Clean
    BY <1>2 DEF Lookup, ReadLabels, Fetch, Clean, Reads, Fails
<1>3. CASE List \/ Plan \/ Summary \/ RequestFails
    BY <1>3 DEF List, Plan, Summary, RequestFails, Reads, Fails
<1>4. CASE User
    BY <1>4 DEF User, UserEdits, UserUnlabels, UserTrashes, UserAdds, FileChanges,
        RendererChanges, Lands, Change
<1> QED BY <1>1, <1>2, <1>3, <1>4 DEF Next, Step, vars

\* A step that prunes takes only what is to go.
LEMMA DeletesSpare ==
    ASSUME WikiInv, [Next]_vars PROVE PruneSpares
<1> SUFFICES ASSUME NEW p \in Id, sync.pc = "delete", ~sync.clean, sync' # sync, page[p] # page'[p]
             PROVE  /\ p \in fresh \/ Leftover(p)
                    /\ \A d \in Doc : sync.text[d] # Gone => sync.placed[d] \in sync.mapped
    BY DEF PruneSpares
<1>1. DeleteNext
    BY OnlyWriters DEF Create, AddLabel, Rewrite, Put, PutSummary
<1>2. /\ IsSpace(page) /\ ShapeOK(sync)
      /\ MappedOK(page, touched, sync) /\ DoneOK(page, touched, sync) /\ PruneOK(page, touched, fresh, sync)
    BY RunFacts
<1>3. PICK e \in sync.queue : page' = Trash(e.id) /\ e.id \in LiveIn(page)
    BY <1>1 DEF DeleteNext, Writes, GivesUp, Fails, Live
<1>4. e.id \in Id \ {Target}
    BY <1>2 DEF PruneOK
<1>5. page' = TrashIn(page, e.id) /\ page = [q \in Id |-> page[q]]
    BY <1>2, <1>3, <1>4, TrashIsTrashIn DEF IsSpace
<1>6. p \in {e.id} \cup BelowP(page, e.id)
    BY <1>5 DEF TrashIn
<1>7. p \in LiveIn(page) /\ Doomed(page, sync, p)
    BY <1>3, <1>6 DEF BelowP, Doomed
<1>8. p \in fresh \/ LeftIn(page, sync, p)
    BY <1>2, <1>7 DEF PruneOK, SparedOK
<1>9. sync.todo = {}
    BY <1>2 DEF ShapeOK
<1>10. \A d \in Doc : sync.text[d] # Gone => sync.placed[d] \in sync.mapped
    BY <1>2, <1>9 DEF DoneOK, MappedOK
<1> QED BY <1>8, <1>10 DEF Leftover, LeftIn

\* A step that writes was told of what it writes over.
LEMMA WritesSpare ==
    ASSUME WikiInv, [Next]_vars PROVE EditsSurvive
<1> SUFFICES ASSUME NEW p \in Live, sync' # sync, page'[p].type = "page", page'[p].body # page[p].body
             PROVE  p \notin unread /\ (p = Target => page'[p].body.own = page[p].body.own)
    BY DEF EditsSurvive
<1>1. IsSpace(page) /\ p \in LiveIn(page) /\ p \in Id /\ page[p] # NoPage
    BY LiveShape DEF WikiInv, Live
<1>2. page' # page
    OBVIOUS
<1>3. CASE Create
    <2>1. Unused # {} /\ page' = [page EXCEPT ![NextId] = NewEntry]
        BY <1>2, <1>3 DEF Create, Writes, GivesUp, Fails
    <2>2. NextId \in Id /\ page[NextId] = NoPage /\ page = [q \in Id |-> page[q]]
        BY <1>1, <2>1, NextIdUnused DEF IsSpace
    <2>3. page'[p] = page[p]
        BY <1>1, <2>1, <2>2
    <2> QED BY <2>3
<1>4. CASE AddLabel
    <2>1. sync.id \in LiveIn(page) /\ page' = LabelAt(page, sync.id, Yes)
        BY <1>2, <1>4 DEF AddLabel, Writes, Fails, Live, LabelAt, Yes
    <2>2. OnlyIn(page, page', sync.id) /\ page'[sync.id].body = page[sync.id].body
        BY <1>1, <2>1, LabelWritten
    <2> QED BY <1>1, <2>2 DEF OnlyIn
<1>5. CASE Rewrite
    <2> DEFINE t == sync.text[File]
    <2>1. sync.id \in LiveIn(page) /\ page' = FileAt(page, sync.id, t)
        BY <1>2, <1>5 DEF Rewrite, RewriteDiagram, Renders, Attach, Upload, RenderFails, Reads, Writes,
            Fails, Live, FileAt
    <2> HIDE DEF t
    <2>2. OnlyIn(page, page', sync.id) /\ page'[sync.id].body = page[sync.id].body
        BY <1>1, <2>1, FilesWritten
    <2> QED BY <1>1, <2>2 DEF OnlyIn
<1>6. CASE Put
    <2> DEFINE q == sync.id
               b == sync.body
    <2>1. /\ q \in LiveIn(page) /\ page' = BodyAt(page, q, b)
          /\ NextVersion = page[q].version + 1 /\ sync.pc = "put"
        BY <1>2, <1>6 DEF Put, Accepts, Writes, Fails, Live, BodyAt
    <2>2. VersionFits(page, unread, sync, sync.version) /\ q # Target
        BY <2>1, WriteFacts
    <2> HIDE DEF b
    <2>3. OnlyIn(page, page', q)
        BY <1>1, <2>1, <2>2, BodyWritten
    <2>4. p = q
        BY <1>1, <2>3 DEF OnlyIn
    <2>5. page[q].version \in Nat
        BY <1>1, <2>1, LiveShape
    <2>6. q \notin unread
        BY <2>1, <2>2, <2>5 DEF VersionFits, NextVersion
    <2> QED BY <2>2, <2>4, <2>6
<1>7. CASE DeleteNext
    <2>1. PICK e \in sync.queue : page' = Trash(e.id)
        BY <1>2, <1>7 DEF DeleteNext, Writes, GivesUp, Fails
    <2>2. page'[p] = Trashed \/ page'[p] = page[p]
        BY <1>1, <2>1 DEF Trash
    <2> QED BY <2>2, TypesDiffer
<1>8. CASE PutSummary
    <2> DEFINE b == sync.body
    <2>1. /\ page' = BodyAt(page, Target, b) /\ NextVersion = page[Target].version + 1 /\ sync.pc = "putsummary"
        BY <1>2, <1>8 DEF PutSummary, Accepts, Fails, BodyAt
    <2>2. SummaryOK(page, unread, sync) /\ Target \in LiveIn(page)
        BY <2>1, ClosingFacts
    <2>3. page[Target].version \in Nat
        BY <1>1, <2>2, LiveShape
    <2>4. sync.version = page[Target].version /\ Target \notin unread /\ b.own = page[Target].body.own /\ IsParent(b)
        BY <2>1, <2>2, <2>3 DEF SummaryOK, NextVersion
    <2> HIDE DEF b
    <2>5. OnlyIn(page, page', Target) /\ page'[Target].body = b
        BY <1>1, <2>1, <2>2, <2>4, BodyWritten
    <2>6. p = Target
        BY <1>1, <2>5 DEF OnlyIn
    <2> QED BY <2>4, <2>5, <2>6
<1> QED BY <1>2, <1>3, <1>4, <1>5, <1>6, <1>7, <1>8, OnlyWriters

\* Confluence alone: what a run deletes was to go, and what it writes over it has read.
THEOREM WritesAreSpared == Spec => [][PruneSpares /\ EditsSurvive]_vars
<1>1. WikiInv /\ [Next]_vars => [PruneSpares /\ EditsSurvive]_vars
    BY DeletesSpare, WritesSpare
<1> QED BY <1>1, WikiAlways, PTL DEF Spec

------------------------------------------------------------------------------
\* A run that finds nothing to do

\* A chain is on the way to the page at its end, ...
LEMMA ChainOnWay ==
    ASSUME NEW g, IsSpace(g), NEW T, NEW p, NEW path, NEW n \in Nat \ {0}, NEW c, Chain(g, T, c, p, path, n)
    PROVE  \A i \in 1..n : OnTheWay(g, p, c[i])
<1> DEFINE K == {k \in 0..(n - 1) : ~OnTheWay(g, p, c[n - k])}
<1>1. SUFFICES ASSUME K # {} PROVE FALSE
    <2>1. \A i \in 1..n : n - i \in 0..(n - 1) /\ n - (n - i) = i
        OBVIOUS
    <2> QED BY <2>1
<1>2. K \in SUBSET Nat
    OBVIOUS
<1>3. PICK k \in K : \A j \in K : k <= j
    <2> HIDE DEF K
    <2> QED BY <1>1, <1>2, HasLeast
<1>4. k \in 0..(n - 1) /\ ~OnTheWay(g, p, c[n - k])
    BY <1>3
<1>5. k # 0
    BY <1>4 DEF Chain, OnTheWay
<1> DEFINE i == n - (k - 1)
<1>6. OnTheWay(g, p, c[i])
    <2>1. k - 1 \in 0..(n - 1) /\ ~(k <= k - 1)
        BY <1>4, <1>5
    <2>2. k - 1 \notin K
        <3> HIDE DEF K
        <3> QED BY <1>3, <2>1
    <2> QED BY <2>1, <2>2
<1>7. i \in 1..n /\ i # 1 /\ i - 1 = n - k /\ i - 1 \in 1..n
    BY <1>4, <1>5
<1> HIDE DEF i, K
<1>8. c[i] \in LiveIn(g) /\ g[c[i]].up = c[i - 1] /\ c[i - 1] \in Id
    BY <1>7 DEF Chain, LiveIn
<1>9. c[i - 1] \in g[c[i]].above
    BY <1>8, HasUp
<1>10. p \in LiveIn(g)
    <2>1. n \in 1..n
        OBVIOUS
    <2> QED BY <2>1 DEF Chain
<1>11. c[i - 1] \in g[p].above
    BY <1>6, <1>9, <1>10, TreeFacts DEF OnTheWay
<1> QED BY <1>4, <1>7, <1>11 DEF OnTheWay

\* ... and what is on that way is the target or in the chain.
LEMMA WayInChain ==
    ASSUME NEW g, IsSpace(g), NEW T, NEW p, NEW path, NEW n \in Nat \ {0}, NEW c, Chain(g, T, c, p, path, n)
    PROVE  \A q : OnTheWay(g, p, q) => q = Target \/ \E i \in 1..n : q = c[i]
<1> DEFINE K == {j \in 1..n : ~(g[c[j]].above \subseteq {Target} \cup {c[i] : i \in 1..n})}
<1>1. SUFFICES ASSUME K # {} PROVE FALSE
    <2>1. n \in 1..n /\ c[n] = p
        BY DEF Chain
    <2> QED BY <2>1 DEF OnTheWay
<1>2. K \in SUBSET Nat
    OBVIOUS
<1>3. PICK j \in K : \A m \in K : j <= m
    <2> HIDE DEF K
    <2> QED BY <1>1, <1>2, HasLeast
<1>4. j \in 1..n /\ ~(g[c[j]].above \subseteq {Target} \cup {c[i] : i \in 1..n})
    BY <1>3
<1>5. c[j] \in LiveIn(g) /\ c[j] # Target
    BY <1>4, ChainAt
<1>6. g[c[j]].above = g[g[c[j]].up].above \cup {g[c[j]].up}
    BY <1>5, TreeFacts
<1>7. CASE j = 1
    <2>1. g[c[j]].up = Target
        BY <1>4, <1>7 DEF Chain
    <2>2. g[Target].above = {}
        BY DEF IsSpace, IsTree
    <2> QED BY <1>4, <1>6, <2>1, <2>2
<1>8. CASE j # 1
    <2>1. j - 1 \in 1..n /\ ~(j <= j - 1)
        BY <1>4, <1>8
    <2>2. g[c[j]].up = c[j - 1]
        BY <1>4, <1>8 DEF Chain
    <2>3. j - 1 \notin K
        <3> HIDE DEF K
        <3> QED BY <1>3, <2>1
    <2>4. g[c[j - 1]].above \subseteq {Target} \cup {c[i] : i \in 1..n}
        BY <2>1, <2>3
    <2> QED BY <1>4, <1>6, <2>1, <2>2, <2>4
<1> QED BY <1>7, <1>8

\* Files whose pages are on one way: the path of one begins with the path of the other.
LEMMA WayBegins ==
    ASSUME NEW g, IsSpace(g), NEW T, NEW d \in Doc, NEW e \in Doc, NEW p, NEW q,
           LocIn(g, T, p, Segments[e]), LocIn(g, T, q, Segments[d]), OnTheWay(g, p, q)
    PROVE  IsPrefix(Segments[d], Segments[e]) /\ (Len(Segments[d]) = Len(Segments[e]) => Segments[d] = Segments[e])
<1> DEFINE s == Segments[d]
           t == Segments[e]
           n == Len(s)
           m == Len(t)
<1>1. n \in Nat \ {0} /\ m \in Nat \ {0} /\ s \in Seq(Range(s)) /\ t \in Seq(Range(t))
    BY SegmentsLen
<1>2. PICK c : Chain(g, T, c, p, t, m)
    BY DEF LocIn, LocTo
<1>3. q # Target
    BY <1>1, LocLive DEF LocIn
<1>4. PICK j \in 1..m : q = c[j]
    BY <1>1, <1>2, <1>3, WayInChain
<1>5. LocTo(g, T, q, t, j)
    <2> DEFINE b == [i \in 1..j |-> c[i]]
    <2>1. 1..j \subseteq 1..m /\ j \in 1..j /\ \A i \in 1..j : i # 1 => i - 1 \in 1..j
        BY <1>1
    <2>2. Chain(g, T, b, q, t, j)
        BY <1>2, <1>4, <2>1 DEF Chain
    <2>3. b \in [1..j -> LiveIn(g)]
        BY <2>2 DEF Chain
    <2> HIDE DEF b
    <2> QED BY <2>2, <2>3 DEF LocTo
<1>6. LocTo(g, T, q, s, n)
    BY DEF LocIn
<1> HIDE DEF n, m, s, t
<1>7. n = j /\ \A i \in 1..n : s[i] = t[i]
    BY <1>1, <1>5, <1>6, OnePath
<1>8. n = Len(s) /\ m = Len(t) /\ n <= m
    BY <1>1, <1>7 DEF n, m
<1>9. SubSeq(s, 1, n) = SubSeq(t, 1, n)
    <2>1. SubSeq(s, 1, n) = [i \in 1..n |-> s[i]] /\ SubSeq(t, 1, n) = [i \in 1..n |-> t[i]]
        BY <1>1, <1>8
    <2> QED BY <1>7, <2>1
<1>10. IsPrefix(s, t)
    BY <1>8, <1>9 DEF IsPrefix
<1>11. ASSUME n = m PROVE s = t
    <2>1. Len(s) = Len(t) /\ \A i \in 1..Len(s) : s[i] = t[i]
        BY <1>7, <1>8, <1>11
    <2> QED BY ONLY <1>1, <2>1
<1> QED BY <1>8, <1>10, <1>11 DEF s, t

\* The way to the page of a file.
LEMMA WayToIs ==
    ASSUME NEW g, IsSpace(g), NEW d \in Doc, NEW p, LocIn(g, {}, p, Segments[d]), NEW w, w = WayTo(g, p, d)
    PROVE  /\ Chain(g, {}, w, p, Segments[d], Len(Segments[d])) /\ w[Len(Segments[d])] = p
           /\ \A i \in 1..Len(Segments[d]) : OnTheWay(g, p, w[i])
<1> DEFINE n == Len(Segments[d])
<1>1. \E c \in [1..n -> LiveIn(g)] : Chain(g, {}, c, p, Segments[d], n)
    BY DEF LocIn, LocTo
<1>2. Chain(g, {}, w, p, Segments[d], n)
    BY <1>1 DEF WayTo
<1>3. n \in Nat \ {0}
    BY SegmentsLen
<1>4. w[n] = p
    BY <1>2 DEF Chain
<1> HIDE DEF n
<1>5. \A i \in 1..n : OnTheWay(g, p, w[i])
    BY <1>2, <1>3, ChainOnWay
<1> QED BY <1>2, <1>4, <1>5 DEF n

\* A set with two elements has not at most one.
LEMMA OnlyOne ==
    ASSUME NEW S, S \subseteq Id, ~(Cardinality(S) > 1), NEW a \in S, NEW b \in S PROVE a = b
<1>1. SUFFICES ASSUME a # b PROVE FALSE
    OBVIOUS
<1>2. IsFiniteSet(Id)
    <2>1. Id = 0..MaxPage /\ 0 \in Int /\ MaxPage \in Int
        BY TypesDiffer DEF Id
    <2>2. IsFiniteSet(0..MaxPage)
        BY <2>1, FS_Interval
    <2> QED BY <2>1, <2>2
<1>3. IsFiniteSet(S) /\ Cardinality(S) \in Nat
    BY <1>2, FS_Subset, FS_CardinalityType
<1>4. IsFiniteSet({a}) /\ Cardinality({a}) = 1
    BY FS_Singleton
<1>5. Cardinality({a} \cup {b}) = 2
    <2>1. b \notin {a}
        BY <1>1
    <2>2. Cardinality({a} \cup {b}) = Cardinality({a}) + 1
        BY <1>4, <2>1, FS_AddElement
    <2> QED BY <1>4, <2>2
<1>6. Cardinality({a} \cup {b}) <= Cardinality(S)
    <2>1. {a} \cup {b} \in SUBSET S
        OBVIOUS
    <2> QED BY <1>3, <2>1, FS_Subset
<1> QED BY <1>3, <1>5, <1>6

\* What is traced is the same for two states of a run with the same books, ...
LEMMA SameTraces ==
    ASSUME NEW g, NEW m, NEW pl, NEW s, NEW t, SameBooks(s, t), t.todo = s.todo, t.clean = s.clean
    PROVE  /\ Homes(t) = Homes(s) /\ RecordsOf(t) = RecordsOf(s)
           /\ \A P : Traced(g, s, P) => Traced(g, t, P)
           /\ Finals(g, m, s) => Finals(g, m, t)
           /\ Again(g, pl, s) => Again(g, pl, t)
<1>1. \A d \in Doc : IsDone(s, d) <=> IsDone(t, d)
    BY DEF IsDone, SameBooks
<1>2. Homes(t) = Homes(s) /\ RecordsOf(t) = RecordsOf(s)
    BY <1>1 DEF Homes, RecordsOf, SameBooks
<1>3. \A P : Traced(g, s, P) => Traced(g, t, P)
    BY <1>2 DEF Traced, SameBooks
<1>4. Finals(g, m, s) => Finals(g, m, t)
    BY <1>1 DEF Finals, SameBooks
<1>5. Again(g, pl, s) => Again(g, pl, t)
    BY <1>1 DEF Again, SameBooks
<1> QED BY <1>2, <1>3, <1>4, <1>5

\* ... and in two spaces whose pages have the same content and are at the same place.
LEMMA SameFinals ==
    ASSUME NEW g, NEW h, NEW s, Homes(s) \subseteq s.mapped
    PROVE  /\ (\A q \in s.mapped \cup {Target} : h[q].type = g[q].type /\ h[q].above = g[q].above)
                => \A P \in SUBSET (s.mapped \cup {Target}) : Traced(g, s, P) => Traced(h, s, P)
           /\ (\A q \in Homes(s) : h[q].body = g[q].body /\ g[q].files \subseteq h[q].files)
                => \A m : Finals(g, m, s) => Finals(h, m, s)
<1>1. ASSUME \A q \in s.mapped \cup {Target} : h[q].type = g[q].type /\ h[q].above = g[q].above,
             NEW P \in SUBSET (s.mapped \cup {Target}), Traced(g, s, P)
      PROVE  Traced(h, s, P)
    <2>1. \A p \in P \cup Homes(s) : h[p].above = g[p].above
        BY <1>1
    <2>2. \A p \in P \cup Homes(s) : \A q : OnTheWay(g, p, q) => OnTheWay(h, p, q)
        BY <2>1 DEF OnTheWay
    <2>3. \A q \in s.mapped : \E p \in P \cup Homes(s) : OnTheWay(h, p, q)
        BY <1>1, <2>2 DEF Traced
    <2>4. \A q \in s.mapped : h[q].type = "page" /\ h[q].above \subseteq s.mapped \cup {Target}
        BY <1>1 DEF Traced
    <2> QED BY <1>1, <2>3, <2>4 DEF Traced
<1>2. ASSUME \A q \in Homes(s) : h[q].body = g[q].body /\ g[q].files \subseteq h[q].files,
             NEW m, Finals(g, m, s)
      PROVE  Finals(h, m, s)
    <2> SUFFICES ASSUME NEW d \in Doc, IsDone(s, d) PROVE FinalIn(h, m, s.placed[d], d, s.text[d])
        BY DEF Finals
    <2>1. s.placed[d] \in Homes(s)
        BY DEF Homes
    <2>2. FinalIn(g, m, s.placed[d], d, s.text[d])
        BY <1>2 DEF Finals
    <2> QED BY <1>2, <2>1, <2>2 DEF FinalIn
<1> QED BY <1>1, <1>2

\* The record of a run whose current entry is of a file that is there
BooksOK(s) ==
    /\ IsRun(s) /\ s.placed = [d \in Doc |-> s.placed[d]]
    /\ s.todo \subseteq {d \in Doc : s.text[d] # Gone}

\* An entry begins, or the pruning.
LEMMA CalmEntry ==
    ASSUME NEW g, NEW m, NEW pl, NEW s, BooksOK(s), NEW t, t = Entry(s)
    PROVE  /\ t.text = s.text
           /\ Traced(g, s, {}) => TracedOK(g, t)
           /\ Finals(g, m, s) => FirstOK(g, m, t)
           /\ Again(g, pl, s) => SecondOK(g, pl, t)
<1>1. /\ SameBooks(s, t) /\ SameTask(s, t)
      /\ s.todo = {} => t.pc = IF s.clean THEN "summary" ELSE "list"
      /\ s.todo # {} => t.pc = "lookup" /\ t.seg = 1 /\ t.at = Target
    BY EntryFields DEF BooksOK
<1>2. t.pc \in {"summary", "list", "lookup"} /\ (Again(g, pl, s) => t.pc \in {"list", "lookup"})
    BY <1>1 DEF Again
<1>3. /\ \A P : Traced(g, s, P) => Traced(g, t, P)
      /\ Finals(g, m, s) => Finals(g, m, t)
      /\ Again(g, pl, s) => Again(g, pl, t)
    BY <1>1, SameTraces DEF SameTask
<1>4. Traced(g, s, {}) => TracedOK(g, t)
    BY <1>3 DEF TracedOK, Traced
<1>5. Finals(g, m, s) => FirstOK(g, m, t)
    BY <1>2, <1>3 DEF FirstOK
<1>6. Again(g, pl, s) => SecondOK(g, pl, t)
    BY <1>1, <1>2, <1>3 DEF SecondOK
<1> QED BY <1>1, <1>4, <1>5, <1>6 DEF SameBooks

\* An entry ends.
LEMMA CalmNext ==
    ASSUME NEW g, NEW m, NEW pl, NEW s, BooksOK(s), s.todo # {},
           NEW d, d = Current(s), NEW t, t = NextOf(s)
    PROVE  /\ t.text = s.text
           /\ Traced(g, s, {s.placed[d]}) => TracedOK(g, t)
           /\ Finals(g, m, s) /\ FinalIn(g, m, s.placed[d], d, s.text[d]) => FirstOK(g, m, t)
           /\ Again(g, pl, s) /\ s.placed[d] = pl[d] => SecondOK(g, pl, t)
<1> DEFINE u == [s EXCEPT !.todo = s.todo \ {d}]
<1>1. t = Entry(u)
    BY DEF NextOf
<1>2. IsRun(u) /\ SameBooks(s, u) /\ u.todo = s.todo \ {d} /\ u.clean = s.clean
    <2>1. s = [x \in RunFields |-> s[x]]
        BY DEF BooksOK, IsRun
    <2> QED BY <2>1 DEF RunFields, IsRun, SameBooks
<1> HIDE DEF u
<1>3. d \in Doc /\ d \in s.todo /\ s.text[d] # Gone
    BY CurrentIn DEF BooksOK
<1>4. BooksOK(u)
    BY <1>2 DEF BooksOK, SameBooks
<1>5. \A e \in Doc : IsDone(u, e) <=> e = d \/ IsDone(s, e)
    BY <1>2, <1>3 DEF IsDone, SameBooks
<1>6. Homes(u) = Homes(s) \cup {s.placed[d]}
    BY <1>2, <1>3, <1>5 DEF Homes, SameBooks
<1>7. Traced(g, s, {s.placed[d]}) => Traced(g, u, {})
    BY <1>2, <1>6 DEF Traced, SameBooks
<1>8. Finals(g, m, s) /\ FinalIn(g, m, s.placed[d], d, s.text[d]) => Finals(g, m, u)
    BY <1>2, <1>5 DEF Finals, SameBooks
<1>9. Again(g, pl, s) /\ s.placed[d] = pl[d] => Again(g, pl, u)
    BY <1>2, <1>5 DEF Again, SameBooks
<1>10. /\ t.text = u.text
       /\ Traced(g, u, {}) => TracedOK(g, t)
       /\ Finals(g, m, u) => FirstOK(g, m, t)
       /\ Again(g, pl, u) => SecondOK(g, pl, t)
    BY <1>1, <1>4, CalmEntry
<1> QED BY <1>2, <1>7, <1>8, <1>9, <1>10 DEF SameBooks

\* The page of a segment has its label.
LEMMA CalmLabelled ==
    ASSUME NEW g, NEW m, NEW pl, NEW s, BooksOK(s), s.todo # {},
           NEW d, d = Current(s), s.seg \in 1..Len(Segments[d]), NEW t, t = LabelledOf(s)
    PROVE  /\ t.text = s.text
           /\ Traced(g, s, {s.id}) => TracedOK(g, t)
           /\ Finals(g, m, s) /\ (s.made => FinalIn(g, m, s.id, d, s.text[d])) => FirstOK(g, m, t)
           /\ /\ Again(g, pl, s) /\ ~s.made /\ s.id = WayTo(g, pl[d], d)[s.seg]
              /\ WayTo(g, pl[d], d)[Len(Segments[d])] = pl[d]
              => SecondOK(g, pl, t)
<1> DEFINE s1 == [s EXCEPT !.sure = s.sure \cup {s.id}]
<1>1. s = [x \in RunFields |-> s[x]] /\ s.placed = [e \in Doc |-> s.placed[e]]
    BY DEF BooksOK, IsRun
<1>2. d \in Doc /\ d \in s.todo /\ s.text[d] # Gone
    BY CurrentIn DEF BooksOK
<1>3. /\ IsRun(s1) /\ s1.text = s.text /\ s1.mapped = s.mapped /\ s1.cache = s.cache
      /\ s1.placed = s.placed /\ SameTask(s, s1)
      /\ s1.seg = s.seg /\ s1.at = s.at /\ s1.id = s.id /\ s1.made = s.made
    BY <1>1 DEF RunFields, IsRun, SameTask
<1>4. t = IF s.seg # Len(Segments[d]) THEN [s1 EXCEPT !.pc = "lookup", !.seg = s1.seg + 1, !.at = s.id]
          ELSE IF s.made THEN NextOf([s1 EXCEPT !.placed[d] = s.id])
          ELSE [[s1 EXCEPT !.placed[d] = s.id] EXCEPT !.pc = "fetch"]
    BY DEF LabelledOf
<1> HIDE DEF s1
<1>5. CASE s.seg # Len(Segments[d])
    <2>1. /\ IsRun(t) /\ t.text = s.text /\ t.mapped = s.mapped /\ t.cache = s.cache
          /\ t.placed = s.placed /\ t.todo = s.todo /\ t.clean = s.clean
          /\ t.pc = "lookup" /\ t.seg = s.seg + 1 /\ t.at = s.id
        BY <1>3, <1>4, <1>5 DEF RunFields, IsRun, SameTask
    <2>2. \A e \in Doc : IsDone(t, e) <=> IsDone(s, e)
        BY <2>1 DEF IsDone
    <2>3. Current(t) = d /\ Homes(t) = Homes(s) /\ Tips(t) = {s.id}
        BY <2>1, <2>2 DEF Current, Homes, Tips, EntryPcs
    <2>4. Traced(g, s, {s.id}) => TracedOK(g, t)
        BY <2>1, <2>3 DEF TracedOK, Traced
    <2>5. Finals(g, m, s) => FirstOK(g, m, t)
        BY <2>1, <2>2 DEF Finals, FirstOK
    <2>6. Again(g, pl, s) => Again(g, pl, t)
        BY <2>1, <2>2 DEF Again
    <2>7. Again(g, pl, s) /\ s.id = WayTo(g, pl[d], d)[s.seg] => SecondOK(g, pl, t)
        <3>1. t.seg # 1 /\ t.seg - 1 = s.seg
            BY <1>2, <2>1, SegmentsLen
        <3> QED BY <2>1, <2>3, <2>6, <3>1 DEF SecondOK
    <2> QED BY <2>1, <2>4, <2>5, <2>7
<1>6. CASE s.seg = Len(Segments[d])
    <2> DEFINE s2 == [s1 EXCEPT !.placed[d] = s.id]
    <2>1. /\ IsRun(s2) /\ s2.text = s.text /\ s2.mapped = s.mapped /\ s2.cache = s.cache
          /\ s2.todo = s.todo /\ s2.clean = s.clean /\ s2.made = s.made /\ s2.id = s.id
          /\ s2.seg = s.seg /\ s2.at = s.at /\ s2.placed = [s.placed EXCEPT ![d] = s.id]
        BY <1>3 DEF RunFields, IsRun, SameTask
    <2>2. t = IF s.made THEN NextOf(s2) ELSE [s2 EXCEPT !.pc = "fetch"]
        BY <1>4, <1>6
    <2> HIDE DEF s2
    <2>3. /\ s2.placed = [e \in Doc |-> s2.placed[e]] /\ s2.placed[d] = s.id
          /\ \A e \in Doc \ {d} : s2.placed[e] = s.placed[e]
        BY <1>1, <1>2, <2>1
    <2>4. \A e \in Doc : (IsDone(s2, e) <=> IsDone(s, e)) /\ (IsDone(s, e) => s2.placed[e] = s.placed[e])
        BY <1>2, <2>1, <2>3 DEF IsDone
    <2>5. Homes(s2) = Homes(s) /\ Current(s2) = d /\ BooksOK(s2)
        BY <2>1, <2>3, <2>4 DEF Homes, Current, BooksOK
    <2>6. /\ \A P : Traced(g, s, P) => Traced(g, s2, P)
          /\ Finals(g, m, s) => Finals(g, m, s2)
          /\ Again(g, pl, s) => Again(g, pl, s2)
        <3>1. \A P : Traced(g, s, P) => Traced(g, s2, P)
            BY <1>2, <2>1, <2>3, <2>5 DEF Traced
        <3>2. Finals(g, m, s) => Finals(g, m, s2)
            BY <2>1, <2>4 DEF Finals
        <3>3. Again(g, pl, s) => Again(g, pl, s2)
            BY <2>1, <2>4 DEF Again
        <3> QED BY <3>1, <3>2, <3>3
    <2>7. CASE s.made
        <3>1. t = NextOf(s2) /\ s2.todo # {}
            BY <2>1, <2>2, <2>7
        <3>2. /\ t.text = s2.text
              /\ Traced(g, s2, {s2.placed[d]}) => TracedOK(g, t)
              /\ Finals(g, m, s2) /\ FinalIn(g, m, s2.placed[d], d, s2.text[d]) => FirstOK(g, m, t)
            BY <2>5, <3>1, CalmNext
        <3> QED BY <2>1, <2>3, <2>6, <2>7, <3>2
    <2>8. CASE ~s.made
        <3>1. /\ SameBooks(s2, t) /\ t.todo = s2.todo /\ t.clean = s2.clean
              /\ t.pc = "fetch" /\ t.id = s.id /\ t.seg = s.seg /\ ~t.made
            BY <2>1, <2>2, <2>8 DEF RunFields, IsRun, SameBooks
        <3>2. /\ \A P : Traced(g, s2, P) => Traced(g, t, P)
              /\ Finals(g, m, s2) => Finals(g, m, t)
              /\ Again(g, pl, s2) => Again(g, pl, t)
            BY <3>1, SameTraces
        <3>3. Tips(t) = {s.id} /\ Current(t) = d
            BY <2>5, <3>1 DEF Tips, EntryPcs, Current
        <3>4. Traced(g, s, {s.id}) => TracedOK(g, t)
            BY <2>6, <3>2, <3>3 DEF TracedOK
        <3>5. Finals(g, m, s) => FirstOK(g, m, t)
            BY <2>6, <3>1, <3>2 DEF FirstOK
        <3>6. Again(g, pl, s) /\ s.id = WayTo(g, pl[d], d)[s.seg] => SecondOK(g, pl, t)
            BY <2>6, <3>1, <3>2, <3>3 DEF SecondOK
        <3> QED BY <2>1, <3>1, <3>4, <3>5, <3>6 DEF SameBooks
    <2> QED BY <2>7, <2>8
<1> QED BY <1>5, <1>6

\* What a page that is found or made keeps of the calm.
MappedCalm(g, m, pl, s, d, p, made, t) ==
    /\ t.text = s.text
    /\ Traced(g, s, {s.at}) => TracedOK(g, t)
    /\ Finals(g, m, s) /\ (made => Kind[d] = "text" /\ FinalIn(g, m, p, d, s.text[d])) => FirstOK(g, m, t)
    /\ /\ Again(g, pl, s) /\ ~made /\ p = WayTo(g, pl[d], d)[s.seg]
       /\ WayTo(g, pl[d], d)[Len(Segments[d])] = pl[d]
       /\ \A q \in LiveIn(g) : g[q].type = "page" /\ g[q].up = s.at /\ g[q].title = Segments[d][s.seg] => q = p
       => SecondOK(g, pl, t)

\* The page of a segment is found, or made.
LEMMA CalmMapped ==
    ASSUME NEW g, IsSpace(g), NEW m, NEW pl, NEW s, BooksOK(s), s.todo # {},
           NEW d, d = Current(s), s.seg \in 1..Len(Segments[d]), s.at \in s.mapped \cup {Target}, s.at \in Id,
           NEW p \in LiveIn(g), g[p].type = "page", g[p].up = s.at,
           NEW made, NEW t, t = MappedOf(s, p, made)
    PROVE  MappedCalm(g, m, pl, s, d, p, made, t)
<1> SUFFICES /\ t.text = s.text
             /\ Traced(g, s, {s.at}) => TracedOK(g, t)
             /\ Finals(g, m, s) /\ (made => Kind[d] = "text" /\ FinalIn(g, m, p, d, s.text[d])) => FirstOK(g, m, t)
             /\ /\ Again(g, pl, s) /\ ~made /\ p = WayTo(g, pl[d], d)[s.seg]
                /\ WayTo(g, pl[d], d)[Len(Segments[d])] = pl[d]
                /\ \A q \in LiveIn(g) : g[q].type = "page" /\ g[q].up = s.at /\ g[q].title = Segments[d][s.seg] => q = p
                => SecondOK(g, pl, t)
    BY DEF MappedCalm
<1> DEFINE item == CacheItem(s, p)
           u == [s EXCEPT !.id = p, !.made = made, !.mapped = s.mapped \cup {p}, !.cache = s.cache \cup {item}]
<1>1. t = IF p \in s.sure THEN LabelledOf(u) ELSE [u EXCEPT !.pc = "labels"]
    BY DEF MappedOf
<1>2. s = [x \in RunFields |-> s[x]]
    BY DEF BooksOK, IsRun
<1>3. item.id = p /\ item.up = s.at /\ item.title = Segments[d][s.seg]
    BY DEF CacheItem
<1> HIDE DEF item
<1>4. /\ IsRun(u) /\ u.text = s.text /\ u.placed = s.placed /\ u.sure = s.sure
      /\ u.todo = s.todo /\ u.clean = s.clean
      /\ u.mapped = s.mapped \cup {p} /\ u.cache = s.cache \cup {item}
      /\ u.seg = s.seg /\ u.at = s.at /\ u.id = p /\ u.made = made
    BY <1>2 DEF RunFields, IsRun
<1> HIDE DEF u
<1>5. Current(u) = d /\ BooksOK(u)
    BY <1>4 DEF Current, BooksOK
<1>6. \A e \in Doc : IsDone(u, e) <=> IsDone(s, e)
    BY <1>4 DEF IsDone
<1>7. Homes(u) = Homes(s)
    BY <1>4, <1>6 DEF Homes
<1>8. s.at \in LiveIn(g) /\ s.at \in g[p].above /\ g[p].above = g[s.at].above \cup {s.at}
    BY HasUp, TreeFacts
<1>9. ASSUME Traced(g, s, {s.at}) PROVE Traced(g, u, {p})
    <2>1. g[s.at].above \subseteq s.mapped \cup {Target}
        <3>1. g[Target].above = {}
            BY DEF IsSpace, IsTree
        <3> QED BY <1>9, <3>1 DEF Traced
    <2>2. \A q \in u.mapped : g[q].type = "page" /\ g[q].above \subseteq u.mapped \cup {Target}
        BY <1>4, <1>8, <1>9, <2>1 DEF Traced
    <2>3. \A q : OnTheWay(g, s.at, q) => OnTheWay(g, p, q)
        BY <1>8 DEF OnTheWay
    <2>4. \A q \in u.mapped : \E r \in {p} \cup Homes(u) : OnTheWay(g, r, q)
        <3> SUFFICES ASSUME NEW q \in u.mapped PROVE \E r \in {p} \cup Homes(u) : OnTheWay(g, r, q)
            OBVIOUS
        <3>1. CASE q = p
            BY <3>1 DEF OnTheWay
        <3>2. CASE q # p
            <4>1. PICK r \in {s.at} \cup Homes(s) : OnTheWay(g, r, q)
                BY <1>4, <1>9, <3>2 DEF Traced
            <4> QED BY <1>7, <2>3, <4>1
        <3> QED BY <3>1, <3>2
    <2>5. \A e \in Doc : u.text[e] = Gone => u.placed[e] = NoId
        BY <1>4, <1>9 DEF Traced
    <2> QED BY <2>2, <2>4, <2>5 DEF Traced
<1>10. Finals(g, m, s) => Finals(g, m, u)
    BY <1>4, <1>6 DEF Finals
<1>11. /\ Again(g, pl, s)
       /\ \A q \in LiveIn(g) : g[q].type = "page" /\ g[q].up = s.at /\ g[q].title = Segments[d][s.seg] => q = p
       => Again(g, pl, u)
    <2> SUFFICES ASSUME Again(g, pl, s),
                        \A q \in LiveIn(g) : g[q].type = "page" /\ g[q].up = s.at
                                             /\ g[q].title = Segments[d][s.seg] => q = p
                 PROVE  Again(g, pl, u)
        OBVIOUS
    <2>1. ASSUME NEW c \in u.cache, NEW q \in LiveIn(g), g[q].type = "page", g[q].up = c.up, g[q].title = c.title
          PROVE  q = c.id
        <3>1. CASE c = item
            BY <1>3, <2>1, <3>1
        <3>2. CASE c # item
            BY <1>4, <2>1, <3>2 DEF Again
        <3> QED BY <3>1, <3>2
    <2> QED BY <1>4, <1>6, <2>1 DEF Again
<1>12. CASE p \in s.sure
    <2>1. t = LabelledOf(u) /\ u.todo # {} /\ u.seg \in 1..Len(Segments[d])
        BY <1>1, <1>4, <1>12
    <2>2. /\ t.text = u.text
          /\ Traced(g, u, {u.id}) => TracedOK(g, t)
          /\ Finals(g, m, u) /\ (u.made => FinalIn(g, m, u.id, d, u.text[d])) => FirstOK(g, m, t)
          /\ /\ Again(g, pl, u) /\ ~u.made /\ u.id = WayTo(g, pl[d], d)[u.seg]
             /\ WayTo(g, pl[d], d)[Len(Segments[d])] = pl[d]
             => SecondOK(g, pl, t)
        BY <1>5, <2>1, CalmLabelled
    <2> QED BY <1>4, <1>9, <1>10, <1>11, <2>2
<1>13. CASE p \notin s.sure
    <2>1. /\ SameBooks(u, t) /\ t.todo = u.todo /\ t.clean = u.clean
          /\ t.pc = "labels" /\ t.id = p /\ t.seg = s.seg /\ t.made = made
        BY <1>1, <1>4, <1>13 DEF RunFields, IsRun, SameBooks
    <2>2. /\ \A P : Traced(g, u, P) => Traced(g, t, P)
          /\ Finals(g, m, u) => Finals(g, m, t)
          /\ Again(g, pl, u) => Again(g, pl, t)
        BY <2>1, SameTraces
    <2>3. Tips(t) = {p} /\ Current(t) = d
        BY <1>5, <2>1 DEF Tips, EntryPcs, Current
    <2>4. Traced(g, s, {s.at}) => TracedOK(g, t)
        BY <1>9, <2>2, <2>3 DEF TracedOK
    <2>5. Finals(g, m, s) /\ (made => Kind[d] = "text") => FirstOK(g, m, t)
        BY <1>10, <2>1, <2>2, <2>3 DEF FirstOK
    <2>6. Again(g, pl, u) /\ ~made /\ p = WayTo(g, pl[d], d)[s.seg] => SecondOK(g, pl, t)
        BY <2>1, <2>2, <2>3 DEF SecondOK
    <2> QED BY <1>4, <1>11, <2>1, <2>4, <2>5, <2>6 DEF SameBooks
<1> QED BY <1>12, <1>13

\* What a run that nobody disturbs has mapped is there.
LEMMA HomesIn ==
    ASSUME NEW g, NEW s, MappedOK(g, {}, s), DoneOK(g, {}, s)
    PROVE  Homes(s) \subseteq s.mapped /\ s.mapped \subseteq LiveIn(g) \ {Target}
<1>1. ASSUME NEW d \in Doc, IsDone(s, d) PROVE s.placed[d] \in s.mapped
    BY <1>1 DEF IsDone, DoneOK, MappedOK
<1> QED BY <1>1 DEF Homes, MappedOK

\* What is known of such a run.
LEMMA CalmFacts ==
    ASSUME WikiInv, CalmInv, calm # "no", Running
    PROVE  /\ touched = {} /\ fresh = {} /\ calm \in {"run", "yes"}
           /\ sync.text = tree /\ ~HierarchyConflict(Present) /\ Present = {d \in Doc : sync.text[d] # Gone}
           /\ IsSpace(page) /\ BooksOK(sync) /\ ShapeOK(sync) /\ TracedOK(page, sync)
           /\ MappedOK(page, {}, sync) /\ DoneOK(page, {}, sync) /\ PruneOK(page, {}, {}, sync)
           /\ Homes(sync) \subseteq sync.mapped /\ sync.mapped \subseteq LiveIn(page) \ {Target}
<1>1. /\ touched = {} /\ fresh = {} /\ calm \in {"run", "yes"}
      /\ sync.text = tree /\ ~HierarchyConflict(Present) /\ TracedOK(page, sync)
    BY DEF CalmInv
<1>2. sync.pc \notin {"idle", "failed"}
    BY DEF Running
<1>3. /\ IsSpace(page) /\ BooksOK(sync) /\ ShapeOK(sync)
      /\ MappedOK(page, {}, sync) /\ DoneOK(page, {}, sync) /\ PruneOK(page, {}, {}, sync)
    BY <1>1, <1>2, RunFacts DEF BooksOK
<1>4. Homes(sync) \subseteq sync.mapped /\ sync.mapped \subseteq LiveIn(page) \ {Target}
    BY <1>3, HomesIn
<1> QED BY <1>1, <1>3, <1>4 DEF Present

\* A step of the run keeps the calm if the run does.
LEMMA CalmGoesOn ==
    ASSUME CalmInv, Running, UNCHANGED <<tree, mmdc, touched, calm>>, fresh' \subseteq fresh,
           calm # "no" => /\ sync'.text = sync.text /\ TracedOK(page', sync')
                          /\ Orderly(mmdc, tree) /\ calm = "run" => FirstOK(page', mmdc, sync')
                          /\ Orderly(mmdc, tree) /\ calm = "yes" =>
                               /\ page' = page
                               /\ \A pl : Settled(page, mmdc, tree, pl) /\ SecondOK(page, pl, sync)
                                              => SecondOK(page, pl, sync')
    PROVE  CalmInv'
<1> SUFFICES ASSUME calm # "no" PROVE CalmInv'
    BY DEF CalmInv
<1>1. /\ calm \in {"run", "yes"} /\ touched = {} /\ fresh = {}
      /\ sync.text = tree /\ ~HierarchyConflict(Present)
    BY DEF CalmInv
<1>2. Present' = Present
    BY DEF Present
<1>3. ~HierarchyConflict(Present')
    BY <1>1, <1>2
<1>4. ASSUME Orderly(mmdc, tree), calm = "yes"
      PROVE  \E pl \in [Doc -> Id \cup {NoId}] : Settled(page', mmdc, tree, pl) /\ SecondOK(page', pl, sync')
    BY <1>4 DEF CalmInv
<1> QED BY <1>1, <1>3, <1>4 DEF CalmInv

\* In such a run that has something to write, the one before has not succeeded.
LEMMA OnlyFirst ==
    ASSUME CalmInv, Running, Orderly(mmdc, tree),
           sync.pc \notin {"lookup", "labels", "fetch", "list", "plan", "summary"}
    PROVE  calm # "yes"
BY DEF CalmInv, SecondOK

\* The pages that the last run left are found again, and only they.
LEMMA FoundAgain ==
    ASSUME WikiInv, CalmInv, calm # "no", sync.pc = "lookup", Orderly(mmdc, tree),
           NEW pl, Settled(page, mmdc, tree, pl), SecondOK(page, pl, sync),
           NEW w, w = WayTo(page, pl[File], File)
    PROVE  /\ w[sync.seg] \in Matches /\ w[Len(Segments[File])] = pl[File]
           /\ \A c \in Cached : c.id = w[sync.seg]
           /\ Leaf /\ ~WithUploads => Cached = {}
<1> DEFINE d == File
           i == sync.seg
           q == w[i]
<1>1. Running /\ sync.pc \in EntryPcs
    BY DEF Running, EntryPcs
<1>2. /\ d = Current(sync) /\ d \in Doc /\ d \in sync.todo /\ sync.text[d] # Gone /\ IsSpace(page)
      /\ i \in 1..Len(Segments[d])
    BY <1>1, EntryFacts DEF WayOK
<1>3. /\ sync.text = tree /\ ~HierarchyConflict(Present) /\ Present = {e \in Doc : sync.text[e] # Gone}
      /\ MappedOK(page, {}, sync) /\ Traced(page, sync, {sync.at})
      /\ sync.mapped \subseteq LiveIn(page) \ {Target}
    BY <1>1, CalmFacts DEF TracedOK, Tips
<1>4. /\ Chain(page, {}, w, pl[d], Segments[d], Len(Segments[d])) /\ w[Len(Segments[d])] = pl[d]
      /\ OnTheWay(page, pl[d], q)
    BY <1>2, <1>3, WayToIs DEF Settled
<1>5. sync.at = IF i = 1 THEN Target ELSE w[i - 1]
    BY <1>2 DEF SecondOK
<1>6. q \in LiveIn(page) /\ q \in Id /\ page[q].title = Segments[d][i] /\ page[q].up = sync.at
    BY <1>2, <1>4, <1>5 DEF Chain, LiveIn
<1>7. page[q].type = "page"
    BY <1>2, <1>3, <1>4, <1>6 DEF Settled
<1>8. q \in Matches
    BY <1>6, <1>7 DEF Matches, Live, Title
<1>9. ASSUME NEW c \in Cached PROVE c.id = q /\ q \in sync.mapped
    <2>1. c \in sync.cache /\ c.up = sync.at /\ c.title = Segments[d][i]
        BY DEF Cached, Title
    <2>2. q = c.id
        BY <1>6, <1>7, <2>1 DEF SecondOK, Again
    <2> QED BY <1>3, <2>1, <2>2 DEF MappedOK
<1>10. ASSUME Leaf, q \in sync.mapped PROVE FALSE
    <2>1. q = pl[d]
        BY <1>4, <1>10 DEF Leaf
    <2>2. PICK r \in {sync.at} \cup Homes(sync) : OnTheWay(page, r, q)
        BY <1>3, <1>10 DEF Traced
    <2>3. sync.at \in Id
        BY <1>1, EntryFacts
    <2>4. q # Target /\ sync.at \in page[q].above /\ q \notin page[q].above /\ page[sync.at].above \subseteq page[q].above
        BY <1>2, <1>6, <2>3, HasUp, TreeFacts
    <2>5. r # sync.at
        BY <2>2, <2>4 DEF OnTheWay
    <2>6. PICK e \in Doc : IsDone(sync, e) /\ r = sync.placed[e]
        BY <2>2, <2>5 DEF Homes
    <2>7. r = pl[e] /\ sync.text[e] # Gone /\ e # d
        BY <1>2, <2>6 DEF IsDone, SecondOK, Again
    <2>8. LocIn(page, {}, pl[e], Segments[e]) /\ LocIn(page, {}, pl[d], Segments[d])
        BY <1>2, <1>3, <2>7 DEF Settled
    <2>9. IsPrefix(Segments[d], Segments[e]) /\ (Len(Segments[d]) = Len(Segments[e]) => Segments[d] = Segments[e])
        BY <1>2, <2>1, <2>2, <2>7, <2>8, WayBegins
    <2>10. Segments[d] # Segments[e]
        BY <1>2, <1>3, <2>7 DEF Orderly
    <2>11. Len(Segments[d]) < Len(Segments[e])
        <3>1. Len(Segments[d]) <= Len(Segments[e])
            BY <2>9 DEF IsPrefix
        <3>2. Len(Segments[d]) \in Nat /\ Len(Segments[e]) \in Nat
            BY <1>2, SegmentsLen
        <3> QED BY <2>9, <2>10, <3>1, <3>2
    <2> QED BY <1>2, <1>3, <2>7, <2>9, <2>11 DEF HierarchyConflict
<1> QED BY <1>4, <1>8, <1>9, <1>10

\* A page that was found keeps the calm, ...
LEMMA CalmServes ==
    ASSUME WikiInv, CalmInv, sync.pc = "lookup", NEW p \in LiveIn(page), page[p].type = "page", page[p].up = sync.at,
           sync' = Mapped(p, No), UNCHANGED <<tree, mmdc, page, touched, fresh, calm>>,
           Orderly(mmdc, tree) /\ calm = "yes" =>
               \A pl : Settled(page, mmdc, tree, pl) /\ SecondOK(page, pl, sync)
                   => /\ p = WayTo(page, pl[File], File)[sync.seg]
                      /\ WayTo(page, pl[File], File)[Len(Segments[File])] = pl[File]
                      /\ \A q \in LiveIn(page) :
                           page[q].type = "page" /\ page[q].up = sync.at /\ page[q].title = Title => q = p
    PROVE  CalmInv'
<1>1. Running /\ sync.pc \in EntryPcs
    BY DEF Running, EntryPcs
<1>2. CASE calm = "no"
    BY <1>2 DEF CalmInv
<1>3. CASE calm # "no"
    <2>1. /\ File = Current(sync) /\ sync.todo # {} /\ IsSpace(page) /\ IsRun(sync) /\ sync.at \in Id
          /\ sync.seg \in 1..Len(Segments[File]) /\ sync.at \in sync.mapped \cup {Target}
        BY <1>1, EntryFacts DEF WayOK
    <2>2. BooksOK(sync) /\ Traced(page, sync, {sync.at})
        BY <1>1, <1>3, CalmFacts DEF TracedOK, Tips
    <2> DEFINE no == No
    <2>3. sync' = MappedOf(sync, p, no) /\ ~no
        BY <2>1, MappedIs DEF No
    <2> HIDE DEF no
    <2>4. \A pl :
            /\ sync'.text = sync.text
            /\ Traced(page, sync, {sync.at}) => TracedOK(page, sync')
            /\ Finals(page, mmdc, sync) => FirstOK(page, mmdc, sync')
            /\ /\ Again(page, pl, sync) /\ p = WayTo(page, pl[File], File)[sync.seg]
               /\ WayTo(page, pl[File], File)[Len(Segments[File])] = pl[File]
               /\ \A q \in LiveIn(page) :
                    page[q].type = "page" /\ page[q].up = sync.at /\ page[q].title = Segments[File][sync.seg] => q = p
               => SecondOK(page, pl, sync')
        <3> TAKE pl
        <3> DEFINE d == File
        <3>1. /\ d = Current(sync) /\ sync.todo # {} /\ sync.seg \in 1..Len(Segments[d])
            BY <2>1
        <3> HIDE DEF d
        <3>2. /\ sync'.text = sync.text
              /\ Traced(page, sync, {sync.at}) => TracedOK(page, sync')
              /\ Finals(page, mmdc, sync) /\ (no => Kind[d] = "text" /\ FinalIn(page, mmdc, p, d, sync.text[d]))
                    => FirstOK(page, mmdc, sync')
              /\ /\ Again(page, pl, sync) /\ ~no /\ p = WayTo(page, pl[d], d)[sync.seg]
                 /\ WayTo(page, pl[d], d)[Len(Segments[d])] = pl[d]
                 /\ \A q \in LiveIn(page) :
                      page[q].type = "page" /\ page[q].up = sync.at /\ page[q].title = Segments[d][sync.seg] => q = p
                 => SecondOK(page, pl, sync')
            <4>1. p \in LiveIn(page) /\ page[p].type = "page" /\ page[p].up = sync.at
                OBVIOUS
            <4>2. MappedCalm(page, mmdc, pl, sync, d, p, no, sync')
                BY ONLY <2>1, <2>2, <2>3, <3>1, <4>1, CalmMapped
            <4> QED BY <4>2 DEF MappedCalm
        <3> QED BY <2>3, <3>2 DEF d
    <2>5. Orderly(mmdc, tree) /\ calm = "run" => Finals(page, mmdc, sync)
        BY <1>1 DEF CalmInv, FirstOK
    <2>6. \A pl : SecondOK(page, pl, sync) => Again(page, pl, sync)
        BY DEF SecondOK
    <2>7. sync'.text = sync.text /\ TracedOK(page', sync')
        BY <2>2, <2>4
    <2>8. Orderly(mmdc, tree) /\ calm = "run" => FirstOK(page', mmdc, sync')
        BY <2>4, <2>5
    <2>9. Orderly(mmdc, tree) /\ calm = "yes" =>
            \A pl : Settled(page, mmdc, tree, pl) /\ SecondOK(page, pl, sync) => SecondOK(page, pl, sync')
        BY <2>4, <2>6 DEF Title
    <2> QED BY <1>1, <2>7, <2>8, <2>9, CalmGoesOn
<1> QED BY <1>2, <1>3

\* ... and so does a page that is to be created.
LEMMA CalmLookup ==
    ASSUME WikiInv, CalmInv, Lookup PROVE CalmInv'
<1>1. sync.pc = "lookup" /\ sync.pc \in EntryPcs /\ Running
    BY DEF Lookup, EntryPcs, Running
<1>2. CASE calm = "no"
    <2>1. calm' = "no"
        BY <1>2 DEF Lookup, Reads, Quiet, history, Fails
    <2> QED BY <2>1 DEF CalmInv
<1>3. CASE calm # "no"
    <2>1. ASSUME Orderly(mmdc, tree), NEW pl, Settled(page, mmdc, tree, pl), SecondOK(page, pl, sync)
          PROVE  /\ WayTo(page, pl[File], File)[sync.seg] \in Matches
                 /\ WayTo(page, pl[File], File)[Len(Segments[File])] = pl[File]
                 /\ \A c \in Cached : c.id = WayTo(page, pl[File], File)[sync.seg]
                 /\ Leaf /\ ~WithUploads => Cached = {}
        BY <1>1, <1>3, <2>1, FoundAgain
    <2>2. Matches \subseteq Id /\ \A q \in Matches : q \in LiveIn(page) /\ page[q].type = "page" /\ page[q].up = sync.at
        BY DEF Matches, Live, LiveIn
    <2>3. \A q \in LiveIn(page) :
             page[q].type = "page" /\ page[q].up = sync.at /\ page[q].title = Title => q \in Matches
        BY DEF Matches, Live
    <2>4. /\ MappedOK(page, {}, sync) /\ Traced(page, sync, {sync.at}) /\ sync.mapped \subseteq LiveIn(page) \ {Target}
          /\ BooksOK(sync) /\ IsSpace(page)
        BY <1>1, <1>3, CalmFacts DEF TracedOK, Tips
    <2>5. CASE Fails
        BY <2>5 DEF Fails, CalmInv
    <2>6. CASE Cached # {} /\ ~(Leaf /\ ~WithUploads) /\ Reads(\E c \in Cached : sync' = Mapped(c.id, FALSE))
        <3>1. PICK c \in Cached : sync' = Mapped(c.id, No)
            BY <2>6 DEF Reads, No
        <3>2. c \in sync.cache /\ c.up = sync.at /\ c.title = Title
            BY DEF Cached
        <3>3. c.id \in LiveIn(page) /\ page[c.id].type = "page" /\ page[c.id].up = sync.at
            BY <2>4, <3>2 DEF MappedOK, Traced
        <3>4. UNCHANGED <<tree, mmdc, page, touched, fresh, calm>>
            BY <2>6 DEF Reads, Quiet, space, history
        <3>5. Orderly(mmdc, tree) /\ calm = "yes" =>
               \A pl : Settled(page, mmdc, tree, pl) /\ SecondOK(page, pl, sync)
                   => /\ c.id = WayTo(page, pl[File], File)[sync.seg]
                      /\ WayTo(page, pl[File], File)[Len(Segments[File])] = pl[File]
                      /\ \A q \in LiveIn(page) :
                           page[q].type = "page" /\ page[q].up = sync.at /\ page[q].title = Title => q = c.id
            BY <2>1, <3>2 DEF SecondOK, Again
        <3> QED BY <1>1, <3>1, <3>3, <3>4, <3>5, CalmServes
    <2>7. CASE ~(Cardinality(Matches) > 1) /\ Cached = {} /\ Reads(\E p \in Matches : sync' = Mapped(p, FALSE))
        <3>1. PICK p \in Matches : sync' = Mapped(p, No)
            BY <2>7 DEF Reads, No
        <3>2. UNCHANGED <<tree, mmdc, page, touched, fresh, calm>>
            BY <2>7 DEF Reads, Quiet, space, history
        <3>3. \A q \in Matches : q = p
            BY <2>2, <2>7, OnlyOne
        <3>4. Orderly(mmdc, tree) /\ calm = "yes" =>
               \A pl : Settled(page, mmdc, tree, pl) /\ SecondOK(page, pl, sync)
                   => /\ p = WayTo(page, pl[File], File)[sync.seg]
                      /\ WayTo(page, pl[File], File)[Len(Segments[File])] = pl[File]
                      /\ \A q \in LiveIn(page) :
                           page[q].type = "page" /\ page[q].up = sync.at /\ page[q].title = Title => q = p
            BY <2>1, <2>3, <3>3
        <3> QED BY <1>1, <2>2, <3>1, <3>2, <3>4, CalmServes
    <2>8. CASE /\ Reads(sync' = [sync EXCEPT !.pc = "create"])
               /\ (Cached # {} /\ Leaf /\ ~WithUploads) \/ Matches = {}
        <3>1. /\ UNCHANGED <<tree, mmdc, page, touched, fresh, calm>>
              /\ SameBooks(sync, sync') /\ sync'.todo = sync.todo /\ sync'.clean = sync.clean
              /\ sync'.pc = "create" /\ sync'.at = sync.at
            BY <2>4, <2>8 DEF Reads, Quiet, space, history, BooksOK, IsRun, RunFields, SameBooks
        <3>2. /\ \A P : Traced(page, sync, P) => Traced(page, sync', P)
              /\ Finals(page, mmdc, sync) => Finals(page, mmdc, sync')
            BY <3>1, SameTraces
        <3>3. TracedOK(page, sync')
            BY <2>4, <3>1, <3>2 DEF TracedOK, Tips, EntryPcs
        <3>4. Orderly(mmdc, tree) /\ calm = "run" => FirstOK(page, mmdc, sync')
            BY <1>1, <3>1, <3>2 DEF CalmInv, FirstOK
        <3>5. Orderly(mmdc, tree) => ~(\E pl : Settled(page, mmdc, tree, pl) /\ SecondOK(page, pl, sync))
            BY <2>1, <2>8
        <3>6. sync'.text = sync.text
            BY <3>1 DEF SameBooks
        <3>7. TracedOK(page', sync') /\ (Orderly(mmdc, tree) /\ calm = "run" => FirstOK(page', mmdc, sync')) /\ page' = page
            BY <3>1, <3>3, <3>4
        <3> QED BY <1>1, <3>1, <3>5, <3>6, <3>7, CalmGoesOn
    <2> QED BY <2>5, <2>6, <2>7, <2>8 DEF Lookup
<1> QED BY <1>2, <1>3

\* A step that writes belongs to a run that finds something to do.
LEMMA CalmWrites ==
    ASSUME CalmInv, Running, UNCHANGED <<tree, mmdc, touched, fresh, calm>>,
           sync.pc \notin {"lookup", "labels", "fetch", "list", "plan", "summary"},
           calm # "no" => /\ sync'.text = sync.text /\ TracedOK(page', sync')
                          /\ Orderly(mmdc, tree) /\ calm = "run" => FirstOK(page', mmdc, sync')
    PROVE  CalmInv'
<1>1. Orderly(mmdc, tree) => calm # "yes"
    BY OnlyFirst
<1> QED BY <1>1, CalmGoesOn

\* What a run of this kind knows of the entry at hand.
LEMMA CalmHere ==
    ASSUME WikiInv, CalmInv, calm # "no", sync.pc \in EntryPcs
    PROVE  /\ Running /\ IsSpace(page) /\ BooksOK(sync) /\ sync.todo # {} /\ IsRun(sync)
           /\ File = Current(sync) /\ File \in Doc /\ File \in sync.todo /\ sync.text[File] # Gone
           /\ sync.seg \in 1..Len(Segments[File]) /\ sync.at \in sync.mapped \cup {Target} /\ sync.at \in Id
           /\ sync.text = tree /\ touched = {} /\ fresh = {}
           /\ Traced(page, sync, Tips(sync))
           /\ Homes(sync) \subseteq sync.mapped /\ sync.mapped \subseteq LiveIn(page) \ {Target}
           /\ sync.mapped \cup {Target} \subseteq Id
           /\ sync.pc \in {"labels", "addlabel"} => FoundOK(page, {}, sync)
<1>1. Running
    BY DEF EntryPcs, Running
<1>2. /\ sync.text = tree /\ touched = {} /\ fresh = {}
      /\ Traced(page, sync, Tips(sync)) /\ BooksOK(sync) /\ IsSpace(page)
      /\ Homes(sync) \subseteq sync.mapped /\ sync.mapped \subseteq LiveIn(page) \ {Target}
    BY <1>1, CalmFacts DEF TracedOK
<1>3. /\ File = Current(sync) /\ File \in Doc /\ File \in sync.todo /\ sync.text[File] # Gone
      /\ WayOK(page, touched, sync) /\ sync.at \in Id /\ IsRun(sync)
      /\ sync.pc \in {"labels", "addlabel"} => FoundOK(page, touched, sync)
    BY EntryFacts
<1>4. sync.mapped \cup {Target} \subseteq Id
    BY <1>2, TypesDiffer DEF LiveIn
<1> QED BY <1>1, <1>2, <1>3, <1>4 DEF WayOK

\* ... and of the page that the one before left for it.
LEMMA CalmAgain ==
    ASSUME WikiInv, CalmInv, calm # "no", sync.pc \in {"labels", "fetch"},
           NEW pl, Settled(page, mmdc, tree, pl), SecondOK(page, pl, sync)
    PROVE  /\ Again(page, pl, sync) /\ ~sync.made
           /\ sync.id = WayTo(page, pl[File], File)[sync.seg]
           /\ WayTo(page, pl[File], File)[Len(Segments[File])] = pl[File]
           /\ page[sync.id].label /\ FinalIn(page, mmdc, pl[File], File, tree[File])
<1>1. sync.pc \in EntryPcs
    BY DEF EntryPcs
<1>2. /\ IsSpace(page) /\ File = Current(sync) /\ File \in Doc /\ sync.text[File] # Gone /\ sync.text = tree
      /\ sync.seg \in 1..Len(Segments[File])
    BY <1>1, CalmHere
<1>3. LocIn(page, {}, pl[File], Segments[File]) /\ FinalIn(page, mmdc, pl[File], File, tree[File])
    BY <1>2 DEF Settled
<1> DEFINE w == WayTo(page, pl[File], File)
<1>4. Chain(page, {}, w, pl[File], Segments[File], Len(Segments[File])) /\ w[Len(Segments[File])] = pl[File]
    BY <1>2, <1>3, WayToIs
<1>5. Again(page, pl, sync) /\ ~sync.made /\ sync.id = w[sync.seg]
    BY <1>2 DEF SecondOK
<1>6. page[sync.id].label
    BY <1>2, <1>4, <1>5 DEF Chain
<1> QED BY <1>3, <1>4, <1>5, <1>6

\* A page is created.
LEMMA CalmCreate ==
    ASSUME WikiInv, CalmInv, Create PROVE CalmInv'
<1>1. sync.pc = "create" /\ sync.pc \in EntryPcs /\ Running
    BY DEF Create, EntryPcs, Running
<1>2. CASE calm' = "no"
    BY <1>2 DEF CalmInv
<1>3. CASE calm' # "no"
    <2> DEFINE n == NextId
               r == NewEntry
               made == Leaf /\ ~WithUploads
               above == page[sync.at].above \cup {sync.at}
               first == FirstBody
    <2>1. /\ sync.at \in LiveIn(page) /\ Unused # {} /\ page' = [page EXCEPT ![n] = r] /\ sync' = Mapped(n, made)
          /\ UNCHANGED <<tree, mmdc, touched, fresh, calm>>
        BY <1>3 DEF Create, Fails, Writes, GivesUp, Live
    <2>2. calm # "no"
        BY <1>3, <2>1
    <2>3. n \in Id /\ page[n] = NoPage
        BY <2>1, NextIdUnused
    <2>4. r = PageAt("page", sync.at, above, Title, first)
        BY DEF NewEntry, NewPage
    <2>5. made => first = Body(File, sync.text[File], "plain") /\ Kind[File] = "text"
        BY DEF FirstBody, WithUploads
    <2> HIDE DEF n, r, made, above, first
    <2>6. IsPage(r) /\ r.type = "page" /\ r.up = sync.at /\ r.above = above /\ r.body = first
        BY <2>4, PageAtIsPage DEF IsPage
    <2>7. page' = With(page, n, r) /\ r.up \in LiveIn(page) /\ r.above = page[r.up].above \cup {r.up}
        BY <2>1, <2>6 DEF With, above
    <2>8. /\ IsSpace(page) /\ BooksOK(sync) /\ sync.todo # {} /\ File = Current(sync) /\ IsRun(sync)
          /\ sync.seg \in 1..Len(Segments[File]) /\ sync.at \in sync.mapped \cup {Target} /\ sync.at \in Id
          /\ Traced(page, sync, {sync.at}) /\ Homes(sync) \subseteq sync.mapped
          /\ sync.mapped \subseteq LiveIn(page) \ {Target} /\ sync.mapped \cup {Target} \subseteq Id
        BY <1>1, <2>2, CalmHere DEF Tips
    <2>9. /\ IsSpace(page') /\ LiveIn(page') = LiveIn(page) \cup {n} /\ n \notin LiveIn(page) /\ n # Target
          /\ page'[n] = r /\ \A q \in Id \ {n} : page'[q] = page[q]
        BY <2>3, <2>6, <2>7, <2>8, Added
    <2>10. \A q \in sync.mapped \cup {Target} : page'[q] = page[q]
        BY <2>8, <2>9
    <2>11. Traced(page', sync, {sync.at}) /\ (Finals(page, mmdc, sync) => Finals(page', mmdc, sync))
        BY <2>8, <2>10, SameFinals
    <2>12. sync' = MappedOf(sync, n, made)
        BY <2>1, <2>8, MappedIs
    <2>13. made => Kind[File] = "text" /\ FinalIn(page', mmdc, n, File, sync.text[File])
        BY <2>5, <2>6, <2>9 DEF FinalIn, FormOf
    <2> DEFINE d == File
    <2>14. /\ d = Current(sync) /\ sync.todo # {} /\ sync.seg \in 1..Len(Segments[d])
           /\ made => Kind[d] = "text" /\ FinalIn(page', mmdc, n, d, sync.text[d])
        BY <2>8, <2>13
    <2> HIDE DEF d
    <2>15. n \in LiveIn(page') /\ page'[n].type = "page" /\ page'[n].up = sync.at
        BY <2>6, <2>9
    <2>16. MappedCalm(page', mmdc, No, sync, d, n, made, sync')
        BY ONLY <2>8, <2>9, <2>12, <2>14, <2>15, CalmMapped
    <2>17. /\ sync'.text = sync.text /\ TracedOK(page', sync')
           /\ Orderly(mmdc, tree) /\ calm = "run" => FirstOK(page', mmdc, sync')
        BY <1>1, <2>11, <2>14, <2>16 DEF MappedCalm, CalmInv, FirstOK
    <2> QED BY <1>1, <2>1, <2>17, CalmWrites
<1> QED BY <1>2, <1>3

\* The label of a page is looked for, ...
LEMMA CalmReadLabels ==
    ASSUME WikiInv, CalmInv, ReadLabels PROVE CalmInv'
<1>1. sync.pc = "labels" /\ sync.pc \in EntryPcs /\ Running
    BY DEF ReadLabels, EntryPcs, Running
<1>2. CASE calm' = "no"
    BY <1>2 DEF CalmInv
<1>3. CASE calm' # "no"
    <2>1. /\ sync.id \in LiveIn(page) /\ UNCHANGED <<tree, mmdc, page, touched, fresh, calm>>
          /\ sync' = IF HasMarker THEN Labelled(sync) ELSE [sync EXCEPT !.pc = "addlabel"]
        BY <1>3 DEF ReadLabels, Fails, Reads, Quiet, space, history, Live
    <2>2. calm # "no"
        BY <1>3, <2>1
    <2> DEFINE d == File
    <2>3. /\ IsSpace(page) /\ BooksOK(sync) /\ sync.todo # {} /\ d = Current(sync) /\ IsRun(sync)
          /\ sync.seg \in 1..Len(Segments[d]) /\ Traced(page, sync, {sync.id}) /\ FoundOK(page, {}, sync)
        BY <1>1, <2>2, CalmHere DEF Tips
    <2>4. Orderly(mmdc, tree) /\ calm = "run" =>
            /\ Finals(page, mmdc, sync)
            /\ sync.made => Kind[d] = "text" /\ FinalIn(page, mmdc, sync.id, d, sync.text[d])
        <3>1. Orderly(mmdc, tree) /\ calm = "run" => Finals(page, mmdc, sync) /\ (sync.made => Kind[d] = "text")
            BY <1>1, <2>3 DEF CalmInv, FirstOK
        <3>2. sync.made => page[sync.id].body = Body(d, sync.text[d], "plain")
            BY <2>1, <2>3 DEF FoundOK
        <3> QED BY <3>1, <3>2 DEF FinalIn, FormOf
    <2>5. ASSUME NEW pl, Settled(page, mmdc, tree, pl), SecondOK(page, pl, sync)
          PROVE  /\ Again(page, pl, sync) /\ ~sync.made /\ sync.id = WayTo(page, pl[d], d)[sync.seg]
                 /\ WayTo(page, pl[d], d)[Len(Segments[d])] = pl[d] /\ HasMarker
        BY <1>1, <2>2, <2>5, CalmAgain DEF HasMarker
    <2> HIDE DEF d
    <2>6. CASE HasMarker
        <3>1. sync' = LabelledOf(sync)
            BY <2>1, <2>3, <2>6, LabelledIs
        <3>2. \A pl :
                /\ sync'.text = sync.text
                /\ Traced(page, sync, {sync.id}) => TracedOK(page, sync')
                /\ Finals(page, mmdc, sync) /\ (sync.made => FinalIn(page, mmdc, sync.id, d, sync.text[d]))
                     => FirstOK(page, mmdc, sync')
                /\ /\ Again(page, pl, sync) /\ ~sync.made /\ sync.id = WayTo(page, pl[d], d)[sync.seg]
                   /\ WayTo(page, pl[d], d)[Len(Segments[d])] = pl[d]
                   => SecondOK(page, pl, sync')
            BY <2>3, <3>1, CalmLabelled
        <3>3. sync'.text = sync.text /\ TracedOK(page', sync')
            BY <2>1, <2>3, <3>2
        <3>4. Orderly(mmdc, tree) /\ calm = "run" => FirstOK(page', mmdc, sync')
            BY <2>1, <2>4, <3>2
        <3>5. \A pl : Settled(page, mmdc, tree, pl) /\ SecondOK(page, pl, sync) => SecondOK(page, pl, sync')
            BY <2>5, <3>2
        <3> QED BY <1>1, <2>1, <3>3, <3>4, <3>5, CalmGoesOn
    <2>7. CASE ~HasMarker
        <3>1. /\ SameBooks(sync, sync') /\ sync'.todo = sync.todo /\ sync'.clean = sync.clean
              /\ sync'.pc = "addlabel" /\ sync'.id = sync.id /\ sync'.made = sync.made
            BY <2>1, <2>3, <2>7 DEF IsRun, RunFields, SameBooks
        <3>2. /\ \A P : Traced(page, sync, P) => Traced(page, sync', P)
              /\ Finals(page, mmdc, sync) => Finals(page, mmdc, sync')
            BY <3>1, SameTraces
        <3>3. TracedOK(page', sync') /\ Current(sync') = d
            BY <2>1, <2>3, <3>1, <3>2 DEF TracedOK, Tips, EntryPcs, Current
        <3>4. Orderly(mmdc, tree) /\ calm = "run" => FirstOK(page', mmdc, sync')
            BY <2>1, <2>4, <3>1, <3>2, <3>3 DEF FirstOK
        <3>5. \A pl : ~(Settled(page, mmdc, tree, pl) /\ SecondOK(page, pl, sync))
            BY <2>5, <2>7
        <3>6. sync'.text = sync.text
            BY <3>1 DEF SameBooks
        <3> QED BY <1>1, <2>1, <3>3, <3>4, <3>5, <3>6, CalmGoesOn
    <2> QED BY <2>6, <2>7
<1> QED BY <1>2, <1>3

\* ... and added.
LEMMA CalmAddLabel ==
    ASSUME WikiInv, CalmInv, AddLabel PROVE CalmInv'
<1>1. sync.pc = "addlabel" /\ sync.pc \in EntryPcs /\ Running
    BY DEF AddLabel, EntryPcs, Running
<1>2. CASE calm' = "no"
    BY <1>2 DEF CalmInv
<1>3. CASE calm' # "no"
    <2> DEFINE p == sync.id
               d == File
    <2>1. /\ p \in LiveIn(page) /\ page' = LabelAt(page, p, Yes) /\ sync' = Labelled(sync)
          /\ UNCHANGED <<tree, mmdc, touched, fresh, calm>>
        BY <1>3 DEF AddLabel, Fails, Writes, LabelAt, Yes, Live
    <2>2. calm # "no"
        BY <1>3, <2>1
    <2>3. /\ IsSpace(page) /\ BooksOK(sync) /\ sync.todo # {} /\ d = Current(sync) /\ IsRun(sync)
          /\ sync.seg \in 1..Len(Segments[d]) /\ Traced(page, sync, {sync.id}) /\ FoundOK(page, {}, sync)
          /\ Homes(sync) \subseteq sync.mapped /\ sync.mapped \subseteq LiveIn(page) \ {Target}
          /\ sync.mapped \cup {Target} \subseteq Id
        BY <1>1, <2>2, CalmHere DEF Tips
    <2>4. /\ OnlyIn(page, page', p) /\ page'[p].body = page[p].body /\ page'[p].files = page[p].files
        BY <2>1, <2>3, LabelWritten
    <2>5. \A q \in sync.mapped \cup {Target} :
            /\ page'[q].type = page[q].type /\ page'[q].above = page[q].above
            /\ page'[q].body = page[q].body /\ page'[q].files = page[q].files
        BY <2>3, <2>4 DEF OnlyIn, SamePage
    <2>6. Traced(page', sync, {p}) /\ (Finals(page, mmdc, sync) => Finals(page', mmdc, sync))
        <3>1. {p} \subseteq sync.mapped \cup {Target}
            BY <2>3 DEF FoundOK
        <3>2. \A q \in Homes(sync) : page'[q].body = page[q].body /\ page[q].files \subseteq page'[q].files
            BY <2>3, <2>5
        <3> QED BY <2>3, <2>5, <3>1, <3>2, SameFinals
    <2>7. Orderly(mmdc, tree) /\ calm = "run" =>
            /\ Finals(page, mmdc, sync)
            /\ sync.made => Kind[d] = "text" /\ FinalIn(page', mmdc, p, d, sync.text[d])
        <3>1. Orderly(mmdc, tree) /\ calm = "run" => Finals(page, mmdc, sync) /\ (sync.made => Kind[d] = "text")
            BY <1>1, <2>3 DEF CalmInv, FirstOK
        <3>2. sync.made => page'[p].body = Body(d, sync.text[d], "plain")
            BY <2>1, <2>3, <2>4 DEF FoundOK
        <3> QED BY <3>1, <3>2 DEF FinalIn, FormOf
    <2>8. sync' = LabelledOf(sync)
        BY <2>1, <2>3, LabelledIs
    <2> HIDE DEF d
    <2>9. /\ sync'.text = sync.text
          /\ Traced(page', sync, {sync.id}) => TracedOK(page', sync')
          /\ Finals(page', mmdc, sync) /\ (sync.made => FinalIn(page', mmdc, sync.id, d, sync.text[d]))
                => FirstOK(page', mmdc, sync')
        BY <2>3, <2>8, CalmLabelled
    <2>10. Orderly(mmdc, tree) /\ calm = "run" => FirstOK(page', mmdc, sync')
        BY <2>6, <2>7, <2>9
    <2> QED BY <1>1, <2>1, <2>6, <2>9, <2>10, CalmWrites
<1> QED BY <1>2, <1>3

\* The prediction for a page is what an entry leaves there.
LEMMA UnchangedIsFinal ==
    ASSUME File \in Doc PROVE Unchanged <=> FinalIn(page, mmdc, sync.id, File, sync.text[File])
<1>1. Kind[File] \in {"text", "image", "mermaid"}
    BY AssumptionOfConfluence DEF ConfluenceAssumption
<1>2. CASE Kind[File] = "text"
    <2>1. Predicted = {"plain"} /\ FormOf(mmdc, File) = "plain"
        BY <1>2 DEF Predicted, FormOf
    <2> QED BY <2>1 DEF Unchanged, FinalIn
<1>3. CASE Kind[File] = "image" \/ (Kind[File] = "mermaid" /\ mmdc)
    <2>1. Predicted = PredictedImage /\ FormOf(mmdc, File) = "image"
        BY <1>3 DEF Predicted, PredictedDiagram, FormOf
    <2> QED BY <2>1 DEF Unchanged, FinalIn, PredictedImage, Uploaded
<1>4. CASE Kind[File] = "mermaid" /\ ~mmdc
    <2>1. Predicted = {"code"} /\ FormOf(mmdc, File) = "code"
        BY <1>4 DEF Predicted, PredictedDiagram, FormOf
    <2> QED BY <2>1 DEF Unchanged, FinalIn
<1> QED BY <1>1, <1>2, <1>3, <1>4

\* The content of a page is to be made.
LEMMA CalmToWrite ==
    ASSUME NEW g, NEW m, NEW s, NEW t, SameBooks(s, t), t.todo = s.todo, t.clean = s.clean, t.id = s.id,
           t.pc \in {"rewrite", "put"}, Traced(g, s, {s.id}),
           NEW d, d = Current(s)
    PROVE  /\ t.text = s.text /\ TracedOK(g, t)
           /\ /\ Finals(g, m, s)
              /\ t.pc = "rewrite" => Kind[d] # "text"
              /\ t.pc = "put" => t.body = Body(d, s.text[d], FormOf(m, d))
              => FirstOK(g, m, t)
<1>1. /\ \A P : Traced(g, s, P) => Traced(g, t, P)
      /\ Finals(g, m, s) => Finals(g, m, t)
    BY SameTraces
<1>2. Tips(t) = {s.id} /\ Current(t) = d /\ t.text = s.text
    BY DEF Tips, EntryPcs, Current, SameBooks
<1>3. TracedOK(g, t)
    BY <1>1, <1>2 DEF TracedOK
<1> QED BY <1>1, <1>2, <1>3 DEF FirstOK

\* A page is read: it is as the run before left it, or it is to be written.
LEMMA CalmFetch ==
    ASSUME WikiInv, CalmInv, Fetch PROVE CalmInv'
<1>1. sync.pc = "fetch" /\ sync.pc \in EntryPcs /\ Running
    BY DEF Fetch, EntryPcs, Running
<1>2. CASE calm' = "no"
    BY <1>2 DEF CalmInv
<1>3. CASE calm' # "no"
    <2> DEFINE p == sync.id
               d == File
               s == [sync EXCEPT !.version = page[p].version]
    <2>1. /\ UNCHANGED <<tree, mmdc, page, touched, fresh, calm>>
          /\ sync' = IF Unchanged THEN NextEntry(s)
                     ELSE IF WithUploads THEN [s EXCEPT !.pc = "rewrite"]
                     ELSE [s EXCEPT !.pc = "put", !.body = FirstBody]
        BY <1>3 DEF Fetch, Fails, space
    <2>2. calm # "no"
        BY <1>3, <2>1
    <2>3. /\ IsSpace(page) /\ BooksOK(sync) /\ sync.todo # {} /\ d = Current(sync) /\ IsRun(sync)
          /\ d \in Doc /\ Traced(page, sync, {p}) /\ sync.text = tree
        BY <1>1, <2>2, CalmHere DEF Tips
    <2>4. sync.seg = Len(Segments[d]) /\ p = sync.placed[d]
        BY <1>1, <2>3, WriteFacts DEF PlacedOK
    <2>5. /\ IsRun(s) /\ SameBooks(sync, s) /\ s.todo = sync.todo /\ s.clean = sync.clean /\ s.id = p
        BY <2>3 DEF IsRun, RunFields, SameBooks
    <2>6. Unchanged <=> FinalIn(page, mmdc, p, d, sync.text[d])
        BY <2>3, UnchangedIsFinal
    <2>7. Orderly(mmdc, tree) /\ calm = "run" => Finals(page, mmdc, sync)
        BY <1>1 DEF CalmInv, FirstOK
    <2>8. ASSUME NEW pl, Settled(page, mmdc, tree, pl), SecondOK(page, pl, sync)
          PROVE  Again(page, pl, sync) /\ p = pl[d] /\ Unchanged
        BY <1>1, <2>2, <2>3, <2>4, <2>6, <2>8, CalmAgain
    <2>9. /\ ~WithUploads => FirstBody = Body(d, sync.text[d], "plain")
          /\ WithUploads <=> Kind[d] # "text"
        BY <2>4 DEF FirstBody, Leaf, WithUploads
    <2>10. CASE Unchanged
        <3>1. sync' = NextOf(s)
            BY <2>1, <2>5, <2>10, NextIs
        <3> HIDE DEF d, s
        <3>2. BooksOK(s) /\ s.todo # {} /\ d = Current(s) /\ s.placed[d] = p /\ s.text = sync.text
            BY <2>3, <2>4, <2>5 DEF BooksOK, SameBooks, Current
        <3>3. \A pl :
                /\ sync'.text = s.text
                /\ Traced(page, s, {s.placed[d]}) => TracedOK(page, sync')
                /\ Finals(page, mmdc, s) /\ FinalIn(page, mmdc, s.placed[d], d, s.text[d]) => FirstOK(page, mmdc, sync')
                /\ Again(page, pl, s) /\ s.placed[d] = pl[d] => SecondOK(page, pl, sync')
            BY <3>1, <3>2, CalmNext
        <3>4. \A pl :
                /\ \A P : Traced(page, sync, P) => Traced(page, s, P)
                /\ Finals(page, mmdc, sync) => Finals(page, mmdc, s)
                /\ Again(page, pl, sync) => Again(page, pl, s)
            BY <2>5, SameTraces
        <3>5. sync'.text = sync.text /\ TracedOK(page', sync')
            BY <2>1, <2>3, <3>2, <3>3, <3>4
        <3>6. Orderly(mmdc, tree) /\ calm = "run" => FirstOK(page', mmdc, sync')
            BY <2>1, <2>6, <2>7, <2>10, <3>2, <3>3, <3>4
        <3>7. \A pl : Settled(page, mmdc, tree, pl) /\ SecondOK(page, pl, sync) => SecondOK(page, pl, sync')
            BY <2>8, <3>2, <3>3, <3>4
        <3> QED BY <1>1, <2>1, <3>5, <3>6, <3>7, CalmGoesOn
    <2>11. CASE ~Unchanged
        <3> DEFINE t == IF WithUploads THEN [s EXCEPT !.pc = "rewrite"]
                        ELSE [s EXCEPT !.pc = "put", !.body = FirstBody]
        <3>1. sync' = t
            BY <2>1, <2>11
        <3>2. /\ SameBooks(s, t) /\ t.todo = s.todo /\ t.clean = s.clean /\ t.id = s.id
              /\ t.pc \in {"rewrite", "put"}
              /\ t.pc = "rewrite" => WithUploads
              /\ t.pc = "put" => ~WithUploads /\ t.body = FirstBody
            <4> HIDE DEF s
            <4>1. CASE WithUploads
                BY <2>5, <4>1 DEF IsRun, RunFields, SameBooks
            <4>2. CASE ~WithUploads
                BY <2>5, <4>2 DEF IsRun, RunFields, SameBooks
            <4> QED BY <4>1, <4>2
        <3> HIDE DEF t, d, s
        <3>3. SameBooks(sync, t) /\ t.todo = sync.todo /\ t.clean = sync.clean /\ t.id = sync.id
            BY <2>5, <3>2 DEF SameBooks
        <3>4. /\ t.pc = "rewrite" => Kind[d] # "text"
              /\ t.pc = "put" => t.body = Body(d, sync.text[d], FormOf(mmdc, d))
            BY <2>9, <3>2 DEF FormOf
        <3>5. /\ t.text = sync.text /\ TracedOK(page, t)
              /\ Finals(page, mmdc, sync) => FirstOK(page, mmdc, t)
            BY <2>3, <3>2, <3>3, <3>4, CalmToWrite
        <3>6. \A pl : ~(Settled(page, mmdc, tree, pl) /\ SecondOK(page, pl, sync))
            BY <2>8, <2>11
        <3>7. sync'.text = sync.text /\ TracedOK(page', sync')
              /\ (Orderly(mmdc, tree) /\ calm = "run" => FirstOK(page', mmdc, sync'))
            BY <2>1, <2>7, <3>1, <3>5
        <3> QED BY <1>1, <2>1, <3>6, <3>7, CalmGoesOn
    <2> QED BY <2>10, <2>11
<1> QED BY <1>2, <1>3

\* The pictures of a page are attached, or left as code.
LEMMA CalmRewrite ==
    ASSUME WikiInv, CalmInv, Rewrite PROVE CalmInv'
<1>1. sync.pc = "rewrite" /\ sync.pc \in EntryPcs /\ Running
    BY DEF Rewrite, EntryPcs, Running
<1>2. CASE calm' = "no"
    BY <1>2 DEF CalmInv
<1>3. CASE calm' # "no"
    <2> DEFINE p == sync.id
               d == File
               text == sync.text[d]
               b == sync'.body
    <2>1. /\ UNCHANGED <<tree, mmdc, touched, fresh, calm>> /\ p \in LiveIn(page)
          /\ sync' = [sync EXCEPT !.pc = "put", !.body = b]
          /\ page' = page \/ page' = FileAt(page, p, text)
          /\ \/ b = Body(d, text, "image") /\ (Kind[d] = "mermaid" => mmdc)
             \/ b = Body(d, text, "code") /\ Kind[d] = "mermaid" /\ (mmdc => text \in Unrenderable)
        <3>1. sync.id \in Live /\ ~Fails /\ sync.pc = "rewrite"
            BY <1>3 DEF Rewrite, Fails
        <3>2. sync.body = sync.body /\ IsRun(sync)
            BY DEF WikiInv, ShapeOK, IsRun
        <3>3. CASE Kind[File] = "mermaid" /\ ((Reads(Rewritten("code")) /\ ~mmdc) \/ (RenderFails /\ mmdc))
            BY <1>3, <3>1, <3>2, <3>3 DEF RenderFails, Refused, Reads, Rewritten, Quiet, space, history, Live,
                IsRun, RunFields
        <3>4. CASE Attach /\ (Kind[File] = "mermaid" => mmdc)
            BY <1>3, <3>1, <3>2, <3>4 DEF Attach, Upload, Writes, Reads, Rewritten, Quiet, space, history, Live,
                FileAt, IsRun, RunFields
        <3> QED BY <3>1, <3>3, <3>4 DEF Rewrite, RewriteDiagram, Renders
    <2>2. calm # "no"
        BY <1>3, <2>1
    <2>3. /\ IsSpace(page) /\ BooksOK(sync) /\ sync.todo # {} /\ d = Current(sync) /\ IsRun(sync)
          /\ d \in Doc /\ Traced(page, sync, {p}) /\ Homes(sync) \subseteq sync.mapped
          /\ sync.mapped \cup {Target} \subseteq Id
        BY <1>1, <2>2, CalmHere DEF Tips
    <2>4. p \in sync.mapped
        BY <1>1, WriteFacts
    <2>5. \A q \in sync.mapped \cup {Target} :
            /\ page'[q].type = page[q].type /\ page'[q].above = page[q].above
            /\ page'[q].body = page[q].body /\ page[q].files \subseteq page'[q].files
        <3>1. CASE page' = page
            BY <3>1
        <3>2. CASE page' = FileAt(page, p, text)
            <4> HIDE DEF p, text
            <4>1. /\ OnlyIn(page, page', p) /\ page'[p].body = page[p].body
                  /\ page'[p].files = page[p].files \cup {text}
                BY <2>1, <2>3, <3>2, FilesWritten
            <4> QED BY <2>3, <4>1 DEF OnlyIn, SamePage
        <3> QED BY <2>1, <3>1, <3>2
    <2>6. Traced(page', sync, {p}) /\ (Finals(page, mmdc, sync) => Finals(page', mmdc, sync))
        <3>1. {p} \subseteq sync.mapped \cup {Target}
            BY <2>4
        <3>2. \A q \in Homes(sync) : page'[q].body = page[q].body /\ page[q].files \subseteq page'[q].files
            BY <2>3, <2>5
        <3> QED BY <2>3, <2>5, <3>1, <3>2, SameFinals
    <2>7. Orderly(mmdc, tree) /\ calm = "run" => Finals(page, mmdc, sync) /\ b = Body(d, text, FormOf(mmdc, d))
        <3>1. Orderly(mmdc, tree) /\ calm = "run" => Finals(page, mmdc, sync) /\ Kind[d] # "text"
            BY <1>1, <2>3 DEF CalmInv, FirstOK
        <3>2. Kind[d] \in {"text", "image", "mermaid"}
            BY <2>3, AssumptionOfConfluence DEF ConfluenceAssumption
        <3>3. Orderly(mmdc, tree) => (Kind[d] = "mermaid" /\ mmdc => text \notin Unrenderable)
            BY <1>1, <2>2, <2>3 DEF CalmInv, Orderly
        <3> QED BY <2>1, <3>1, <3>2, <3>3 DEF FormOf
    <2> HIDE DEF d, b
    <2>8. /\ SameBooks(sync, sync') /\ sync'.todo = sync.todo /\ sync'.clean = sync.clean /\ sync'.id = sync.id
          /\ sync'.pc = "put" /\ sync'.body = b
        BY <2>1, <2>3 DEF IsRun, RunFields, SameBooks
    <2>9. /\ sync'.text = sync.text /\ TracedOK(page', sync')
          /\ Finals(page', mmdc, sync) /\ b = Body(d, sync.text[d], FormOf(mmdc, d)) => FirstOK(page', mmdc, sync')
        BY <2>3, <2>6, <2>8, CalmToWrite
    <2>10. Orderly(mmdc, tree) /\ calm = "run" => FirstOK(page', mmdc, sync')
        BY <2>6, <2>7, <2>9
    <2> QED BY <1>1, <2>1, <2>9, <2>10, CalmWrites
<1> QED BY <1>2, <1>3

\* A page gets its content.
LEMMA CalmPut ==
    ASSUME WikiInv, CalmInv, Put PROVE CalmInv'
<1>1. sync.pc = "put" /\ sync.pc \in EntryPcs /\ Running
    BY DEF Put, EntryPcs, Running
<1>2. CASE calm' = "no"
    BY <1>2 DEF CalmInv
<1>3. CASE calm' # "no"
    <2> DEFINE p == sync.id
               d == File
               b == sync.body
    <2>1. /\ UNCHANGED <<tree, mmdc, touched, fresh, calm>> /\ p \in LiveIn(page)
          /\ page' = BodyAt(page, p, b) /\ sync' = NextEntry(sync)
        BY <1>3 DEF Put, Accepts, Fails, Writes, BodyAt, Live
    <2>2. calm # "no"
        BY <1>3, <2>1
    <2>3. /\ IsSpace(page) /\ BooksOK(sync) /\ sync.todo # {} /\ d = Current(sync) /\ IsRun(sync)
          /\ d \in Doc /\ d \in sync.todo /\ Traced(page, sync, {p}) /\ Homes(sync) \subseteq sync.mapped
          /\ sync.mapped \cup {Target} \subseteq Id /\ sync.text = tree /\ touched = {}
          /\ sync.mapped \subseteq LiveIn(page) \ {Target}
        BY <1>1, <2>2, CalmHere DEF Tips
    <2>4. p \in sync.mapped /\ PlacedOK(sync) /\ p # Target /\ BodyFits(page, sync, b)
        BY <1>1, WriteFacts
    <2>5. ReadyOK(page, {}, sync) /\ WayOK(page, {}, sync)
        BY <1>1, <2>3, EntryFacts
    <2> HIDE DEF b, d
    <2>6. /\ OnlyIn(page, page', p) /\ page'[p].body = b
          /\ page'[p].files = page[p].files /\ page'[p].label = page[p].label
        BY <2>1, <2>3, <2>4, BodyWritten
    <2>7. \A q \in sync.mapped \cup {Target} :
            page'[q].type = page[q].type /\ page'[q].above = page[q].above
        BY <2>3, <2>6 DEF OnlyIn, SamePage
    <2>8. Traced(page', sync, {p})
        <3>1. {p} \subseteq sync.mapped \cup {Target}
            BY <2>4
        <3> QED BY <2>3, <2>7, <3>1, SameFinals
    <2>9. DoneOK(page', {}, sync)
        BY <2>1, <2>3, <2>4, <2>5, <2>6, PutReady DEF ReadyOK
    <2>10. ASSUME Orderly(mmdc, tree), calm = "run"
           PROVE  /\ Finals(page', mmdc, sync)
                  /\ FinalIn(page', mmdc, p, d, sync.text[d])
        <3>1. Finals(page, mmdc, sync) /\ b = Body(d, sync.text[d], FormOf(mmdc, d))
            BY <1>1, <2>3, <2>10 DEF CalmInv, FirstOK, b
        <3>2. b.doc = d /\ b.form = FormOf(mmdc, d)
            BY <3>1 DEF Body
        <3>3. FormOf(mmdc, d) = "image" => sync.text[d] \in page[p].files
            <4>1. PICK form \in {"plain", "image", "code"} :
                        /\ b = Body(d, sync.text[d], form)
                        /\ form = "image" /\ p \in LiveIn(page) => sync.text[d] \in page[p].files
                BY <2>3, <2>4 DEF BodyFits
            <4>2. b.form = form
                BY <4>1 DEF Body
            <4> QED BY <2>1, <3>2, <4>1, <4>2
        <3>4. ASSUME NEW e \in Doc, IsDone(sync, e) PROVE FinalIn(page', mmdc, sync.placed[e], e, sync.text[e])
            <4>1. sync.placed[e] \in sync.mapped /\ sync.placed[e] \in Id
                BY <2>3, <3>4 DEF Homes
            <4>2. e # d /\ sync.text[e] # Gone
                BY <2>3, <3>4 DEF IsDone
            <4>3. sync.placed[e] # p
                <5>1. SUFFICES ASSUME sync.placed[e] = p PROVE FALSE
                    OBVIOUS
                <5>2. AloneIn(sync, e)
                    BY <2>3, <2>10, <4>2 DEF Orderly, AloneIn
                <5>3. p \in LiveIn(page')
                    BY <2>1, <2>6 DEF OnlyIn
                <5>4. ShowsIn(page', p, e, sync.text[e])
                    BY <2>9, <3>4, <5>1, <5>2, <5>3 DEF DoneOK, IsDone
                <5>5. page'[p].body.doc = e
                    BY <5>4 DEF ShowsIn, Body
                <5> QED BY <2>6, <3>2, <4>2, <5>5
            <4>4. page'[sync.placed[e]] = page[sync.placed[e]]
                BY <2>6, <4>1, <4>3 DEF OnlyIn
            <4>5. FinalIn(page, mmdc, sync.placed[e], e, sync.text[e])
                BY <3>1, <3>4 DEF Finals
            <4> QED BY <4>4, <4>5 DEF FinalIn
        <3>5. Finals(page', mmdc, sync)
            BY <3>4 DEF Finals
        <3> QED BY <2>6, <3>1, <3>3, <3>5 DEF FinalIn
    <2>11. sync' = NextOf(sync) /\ sync.placed[d] = p
        BY <2>1, <2>3, <2>4, NextIs DEF PlacedOK
    <2>12. /\ sync'.text = sync.text
           /\ Traced(page', sync, {sync.placed[d]}) => TracedOK(page', sync')
           /\ Finals(page', mmdc, sync) /\ FinalIn(page', mmdc, sync.placed[d], d, sync.text[d])
                => FirstOK(page', mmdc, sync')
        BY <2>3, <2>11, CalmNext
    <2>13. sync'.text = sync.text /\ TracedOK(page', sync')
        BY <2>8, <2>11, <2>12
    <2>14. Orderly(mmdc, tree) /\ calm = "run" => FirstOK(page', mmdc, sync')
        BY <2>10, <2>11, <2>12
    <2> QED BY <1>1, <2>1, <2>13, <2>14, CalmWrites
<1> QED BY <1>2, <1>3

\* The deletions are planned, or go on.
LEMMA CalmDelete ==
    ASSUME NEW g, NEW m, NEW pl, NEW t, BooksOK(t), NEW u, u = DeleteOf(t)
    PROVE  /\ u.text = t.text
           /\ Traced(g, t, {}) => TracedOK(g, u)
           /\ Finals(g, m, t) => FirstOK(g, m, u)
           /\ Again(g, pl, t) /\ t.queue = {} => SecondOK(g, pl, u)
<1>1. CASE t.queue = {} /\ t.clean
    <2>1. u = Entry(t)
        BY <1>1 DEF DeleteOf
    <2> QED BY <2>1, CalmEntry
<1>2. CASE ~(t.queue = {} /\ t.clean)
    <2>1. /\ SameBooks(t, u) /\ u.todo = t.todo /\ u.clean = t.clean
          /\ u.pc \in {"delete", "summary"} /\ (t.queue = {} => u.pc = "summary")
        BY <1>2 DEF DeleteOf, BooksOK, IsRun, RunFields, SameBooks
    <2>2. /\ \A P : Traced(g, t, P) => Traced(g, u, P)
          /\ Finals(g, m, t) => Finals(g, m, u)
          /\ Again(g, pl, t) => Again(g, pl, u)
        BY <2>1, SameTraces
    <2>3. Tips(u) = {}
        BY <2>1 DEF Tips, EntryPcs
    <2>4. u.text = t.text
        BY <2>1 DEF SameBooks
    <2>5. Traced(g, t, {}) => TracedOK(g, u)
        BY <2>2, <2>3 DEF TracedOK
    <2>6. Finals(g, m, t) => FirstOK(g, m, u)
        BY <2>1, <2>2 DEF FirstOK
    <2>7. Again(g, pl, t) /\ t.queue = {} => SecondOK(g, pl, u)
        BY <2>1, <2>2 DEF SecondOK
    <2> QED BY <2>4, <2>5, <2>6, <2>7
<1> QED BY <1>1, <1>2

\* What is known between the entries and the summary.
LEMMA CalmOutside ==
    ASSUME WikiInv, CalmInv, calm # "no", Running, sync.pc \notin EntryPcs
    PROVE  /\ IsSpace(page) /\ BooksOK(sync) /\ IsRun(sync) /\ ShapeOK(sync)
           /\ sync.text = tree /\ touched = {} /\ fresh = {}
           /\ Traced(page, sync, {})
           /\ Homes(sync) \subseteq sync.mapped /\ sync.mapped \subseteq LiveIn(page) \ {Target}
           /\ sync.mapped \cup {Target} \subseteq Id
           /\ PruneOK(page, {}, {}, sync)
           /\ Orderly(mmdc, tree) /\ calm = "run" => Finals(page, mmdc, sync)
<1>1. /\ sync.text = tree /\ touched = {} /\ fresh = {} /\ ShapeOK(sync)
      /\ TracedOK(page, sync) /\ BooksOK(sync) /\ IsSpace(page)
      /\ Homes(sync) \subseteq sync.mapped /\ sync.mapped \subseteq LiveIn(page) \ {Target}
      /\ PruneOK(page, {}, {}, sync)
    BY CalmFacts
<1>2. Traced(page, sync, {})
    BY <1>1 DEF TracedOK, Tips
<1>3. sync.mapped \cup {Target} \subseteq Id
    BY <1>1, TypesDiffer DEF LiveIn
<1>4. Orderly(mmdc, tree) /\ calm = "run" => Finals(page, mmdc, sync)
    BY DEF CalmInv, FirstOK
<1> QED BY <1>1, <1>2, <1>3, <1>4 DEF BooksOK

\* A clean run begins by planning to delete every page.
LEMMA CalmClean ==
    ASSUME WikiInv, CalmInv, Clean PROVE CalmInv'
<1>1. sync.pc = "clean" /\ sync.pc \notin EntryPcs /\ Running
    BY DEF Clean, EntryPcs, Running
<1>2. CASE calm' = "no"
    BY <1>2 DEF CalmInv
<1>3. CASE calm' # "no"
    <2> DEFINE E == Inventory(Below(Target))
               t == [sync EXCEPT !.queue = E]
    <2>1. UNCHANGED <<tree, mmdc, page, touched, fresh, calm>> /\ sync' = Delete(sync, E)
        BY <1>3 DEF Clean, Fails, Reads, Quiet, space, history
    <2>2. calm # "no"
        BY <1>3, <2>1
    <2>3. /\ IsSpace(page) /\ BooksOK(sync) /\ IsRun(sync) /\ Traced(page, sync, {})
          /\ Orderly(mmdc, tree) /\ calm = "run" => Finals(page, mmdc, sync)
        BY <1>1, <2>2, CalmOutside
    <2> HIDE DEF E
    <2>4. /\ Delete(sync, E) = DeleteOf(t)
          /\ IsRun(t) /\ SameBooks(sync, t) /\ t.queue = E /\ t.clean = sync.clean /\ t.todo = sync.todo
        BY <2>3, DeleteIs
    <2> HIDE DEF t
    <2>5. BooksOK(t) /\ t.text = sync.text
        BY <2>3, <2>4 DEF BooksOK, SameBooks
    <2>6. Traced(page, t, {}) /\ (Finals(page, mmdc, sync) => Finals(page, mmdc, t))
        BY <2>3, <2>4, SameTraces
    <2>7. sync'.text = sync.text /\ TracedOK(page, sync') /\ (Finals(page, mmdc, t) => FirstOK(page, mmdc, sync'))
        BY <2>1, <2>4, <2>5, <2>6, CalmDelete
    <2>8. Orderly(mmdc, tree) /\ calm = "run" => FirstOK(page', mmdc, sync')
        BY <2>1, <2>3, <2>6, <2>7
    <2> QED BY <1>1, <2>1, <2>7, <2>8, CalmWrites
<1> QED BY <1>2, <1>3

\* The pages below the target are listed, ...
LEMMA CalmList ==
    ASSUME WikiInv, CalmInv, List PROVE CalmInv'
<1>1. sync.pc = "list" /\ sync.pc \notin EntryPcs /\ Running
    BY DEF List, EntryPcs, Running
<1>2. CASE calm' = "no"
    BY <1>2 DEF CalmInv
<1>3. CASE calm' # "no"
    <2> DEFINE L == Inventory(Below(Target))
    <2>1. UNCHANGED <<tree, mmdc, page, touched, calm>> /\ fresh' = {}
          /\ sync' = [sync EXCEPT !.pc = "plan", !.listing = L]
        BY <1>3 DEF List, space
    <2>2. calm # "no"
        BY <1>3, <2>1
    <2>3. /\ IsRun(sync) /\ Traced(page, sync, {})
          /\ Orderly(mmdc, tree) /\ calm = "run" => Finals(page, mmdc, sync)
        BY <1>1, <2>2, CalmOutside
    <2> HIDE DEF L
    <2>4. /\ SameBooks(sync, sync') /\ sync'.todo = sync.todo /\ sync'.clean = sync.clean
          /\ sync'.pc = "plan"
        BY <2>1, <2>3 DEF IsRun, RunFields, SameBooks
    <2>5. \A pl :
            /\ \A P : Traced(page, sync, P) => Traced(page, sync', P)
            /\ Finals(page, mmdc, sync) => Finals(page, mmdc, sync')
            /\ Again(page, pl, sync) => Again(page, pl, sync')
        BY <2>4, SameTraces
    <2>6. sync'.text = sync.text
        BY <2>4 DEF SameBooks
    <2>7. TracedOK(page', sync')
        BY <2>1, <2>3, <2>4, <2>5 DEF TracedOK, Tips, EntryPcs
    <2>8. Orderly(mmdc, tree) /\ calm = "run" => FirstOK(page', mmdc, sync')
        BY <2>1, <2>3, <2>4, <2>5 DEF FirstOK
    <2>9. \A pl : SecondOK(page, pl, sync) => SecondOK(page, pl, sync')
        BY <2>4, <2>5 DEF SecondOK
    <2>10. fresh' \subseteq fresh
        BY <2>1
    <2> QED BY <1>1, <2>1, <2>6, <2>7, <2>8, <2>9, <2>10, CalmGoesOn
<1> QED BY <1>2, <1>3

\* Whatever is stale where the run before has left its pages is needless, and what would be pruned is not there.
LEMMA NothingStale ==
    ASSUME WikiInv, CalmInv, calm # "no", sync.pc = "plan", Ids(Unmapped) \subseteq Live,
           NEW pl, Settled(page, mmdc, tree, pl), SecondOK(page, pl, sync)
    PROVE  {e \in sync.listing : Prunable(e)} = {}
<1> DEFINE L == sync.listing
           B == BelowP(page, Target)
<1>1. sync.pc \notin EntryPcs /\ Running
    BY DEF EntryPcs, Running
<1>2. /\ IsSpace(page) /\ ShapeOK(sync) /\ sync.text = tree /\ touched = {} /\ fresh = {}
      /\ Traced(page, sync, {}) /\ PruneOK(page, {}, {}, sync) /\ Homes(sync) \subseteq sync.mapped
    BY <1>1, CalmOutside
<1>3. ListedOK(page, {}, {}, sync) /\ sync.todo = {}
    BY <1>2 DEF PruneOK, ShapeOK
<1>4. ASSUME NEW e \in L, Stale(e)
      PROVE  e.id \in B /\ e.above = page[e.id].above /\ Needless(page, tree, pl, e.id)
    <2>1. e \in Unmapped /\ page[e.id].label
        BY <1>4 DEF Stale
    <2>2. e.id \in LiveIn(page) /\ e.type = "page" /\ e.id \notin sync.mapped
        BY <2>1 DEF Unmapped, Ids, Live
    <2>3. e.id # Target /\ e = [id |-> e.id, type |-> page[e.id].type, above |-> page[e.id].above]
        BY <1>3, <1>4, <2>2 DEF ListedOK
    <2>4. e.type = page[e.id].type /\ e.above = page[e.id].above
        BY <2>3
    <2>5. e.id \in B
        BY <1>2, <2>2, <2>3, BelowTarget
    <2>6. ASSUME NEW d \in Doc, tree[d] # Gone, OnTheWay(page, pl[d], e.id) PROVE FALSE
        <3>1. IsDone(sync, d)
            BY <1>2, <1>3, <2>6 DEF IsDone
        <3>2. sync.placed[d] = pl[d] /\ sync.placed[d] \in sync.mapped
            BY <1>2, <3>1 DEF SecondOK, Again, Homes
        <3>3. e.id \in sync.mapped \cup {Target}
            BY <1>2, <2>6, <3>2 DEF Traced, OnTheWay
        <3> QED BY <2>2, <2>3, <3>3
    <2> QED BY <2>1, <2>2, <2>4, <2>5, <2>6 DEF Needless
<1>5. ASSUME NEW e \in L, Prunable(e) PROVE FALSE
    <2>1. Stale(e) /\ \A f \in BelowIn(L, e) : Stale(f)
        BY <1>5 DEF Prunable
    <2>2. e.id \in B /\ e.above = page[e.id].above /\ Needless(page, tree, pl, e.id)
        BY <1>4, <2>1
    <2>3. PICK q \in BelowP(page, e.id) : ~Needless(page, tree, pl, q)
        BY <2>2 DEF Settled
    <2>4. q \in LiveIn(page) /\ e.id \in page[q].above /\ q \in B
        BY <1>2, BelowTarget DEF BelowP
    <2>5. q \in Ids(L) /\ page[q].above \subseteq Ids(L) \cup {Target}
        BY <1>3, <2>4 DEF ListedOK
    <2>6. PICK f \in L : f.id = q
        BY <2>5 DEF Ids
    <2>7. f = [id |-> f.id, type |-> page[f.id].type, above |-> page[f.id].above]
        BY <1>3, <2>4, <2>6 DEF ListedOK
    <2>8. f.above = page[q].above
        BY <2>6, <2>7
    <2>9. Target \in e.above
        BY <2>2 DEF BelowP
    <2>10. f \in BelowIn(L, e)
        BY <2>4, <2>5, <2>6, <2>8, <2>9 DEF BelowIn
    <2> QED BY <1>4, <2>1, <2>3, <2>6, <2>10
<1> QED BY <1>5

\* ... and the deletions planned from what the listing shows.
LEMMA CalmPlan ==
    ASSUME WikiInv, CalmInv, Plan PROVE CalmInv'
<1>1. sync.pc = "plan" /\ sync.pc \notin EntryPcs /\ Running
    BY DEF Plan, EntryPcs, Running
<1>2. CASE calm' = "no"
    BY <1>2 DEF CalmInv
<1>3. CASE calm' # "no"
    <2> DEFINE s == [sync EXCEPT !.listing = {}]
               E == {e \in sync.listing : Prunable(e)}
               t == [s EXCEPT !.queue = E]
    <2>1. UNCHANGED <<tree, mmdc, page, touched, fresh, calm>> /\ sync' = Delete(s, E) /\ Ids(Unmapped) \subseteq Live
        BY <1>3 DEF Plan, Fails, Reads, Quiet, space, history
    <2>2. calm # "no"
        BY <1>3, <2>1
    <2>3. /\ IsSpace(page) /\ BooksOK(sync) /\ IsRun(sync) /\ Traced(page, sync, {})
          /\ Orderly(mmdc, tree) /\ calm = "run" => Finals(page, mmdc, sync)
        BY <1>1, <2>2, CalmOutside
    <2>4. IsRun(s) /\ SameBooks(sync, s) /\ s.clean = sync.clean /\ s.todo = sync.todo
        BY <2>3 DEF IsRun, RunFields, SameBooks
    <2>5. \A pl : Settled(page, mmdc, tree, pl) /\ SecondOK(page, pl, sync) => E = {}
        BY <1>1, <2>1, <2>2, NothingStale
    <2> HIDE DEF E, s
    <2>6. /\ Delete(s, E) = DeleteOf(t)
          /\ IsRun(t) /\ SameBooks(s, t) /\ t.queue = E /\ t.clean = s.clean /\ t.todo = s.todo
        BY <2>4, DeleteIs
    <2> HIDE DEF t
    <2>7. BooksOK(t) /\ t.text = sync.text /\ SameBooks(sync, t) /\ t.todo = sync.todo /\ t.clean = sync.clean
        BY <2>3, <2>4, <2>6 DEF BooksOK, SameBooks
    <2>8. \A pl : /\ \A P : Traced(page, sync, P) => Traced(page, t, P)
                  /\ Finals(page, mmdc, sync) => Finals(page, mmdc, t)
                  /\ Again(page, pl, sync) => Again(page, pl, t)
        BY <2>7, SameTraces
    <2>9. \A pl : /\ sync'.text = t.text /\ (Traced(page, t, {}) => TracedOK(page, sync'))
                  /\ Finals(page, mmdc, t) => FirstOK(page, mmdc, sync')
                  /\ Again(page, pl, t) /\ t.queue = {} => SecondOK(page, pl, sync')
        BY <2>1, <2>6, <2>7, CalmDelete
    <2>10. sync'.text = sync.text /\ TracedOK(page', sync')
        BY <2>1, <2>3, <2>7, <2>8, <2>9
    <2>11. Orderly(mmdc, tree) /\ calm = "run" => FirstOK(page', mmdc, sync')
        BY <2>1, <2>3, <2>8, <2>9
    <2>12. \A pl : Settled(page, mmdc, tree, pl) /\ SecondOK(page, pl, sync) => SecondOK(page, pl, sync')
        BY <2>5, <2>6, <2>8, <2>9 DEF SecondOK
    <2> QED BY <1>1, <2>1, <2>10, <2>11, <2>12, CalmGoesOn
<1> QED BY <1>2, <1>3

\* A page is deleted, which the run has not mapped.
LEMMA CalmDeleteNext ==
    ASSUME WikiInv, CalmInv, DeleteNext PROVE CalmInv'
<1>1. sync.pc = "delete" /\ sync.pc \notin EntryPcs /\ Running
    BY DEF DeleteNext, EntryPcs, Running
<1>2. CASE calm' = "no"
    BY <1>2 DEF CalmInv
<1>3. CASE calm' # "no"
    <2>1. PICK e \in sync.queue : /\ page' = Trash(e.id) /\ sync' = Delete(sync, sync.queue \ {e})
                                  /\ UNCHANGED <<tree, mmdc, touched, fresh, calm>>
        BY <1>3 DEF DeleteNext, Fails, Writes, GivesUp
    <2>2. calm # "no"
        BY <1>3, <2>1
    <2>3. /\ IsSpace(page) /\ BooksOK(sync) /\ IsRun(sync) /\ ShapeOK(sync) /\ Traced(page, sync, {})
          /\ Homes(sync) \subseteq sync.mapped /\ sync.mapped \subseteq LiveIn(page) \ {Target}
          /\ sync.mapped \cup {Target} \subseteq Id /\ PruneOK(page, {}, {}, sync)
          /\ Orderly(mmdc, tree) /\ calm = "run" => Finals(page, mmdc, sync)
        BY <1>1, <2>2, CalmOutside
    <2>4. e.id \in Id \ {Target}
        BY <2>3 DEF PruneOK
    <2>5. page' = TrashIn(page, e.id)
        BY <2>1, <2>4, TrashIsTrashIn
    <2>6. \A q \in sync.mapped \cup {Target} : page'[q] = page[q]
        <3>1. \A q \in Id : q \notin {e.id} \cup BelowP(page, e.id) => page'[q] = page[q]
            BY <2>3, <2>4, <2>5, Removed
        <3>2. Target \notin {e.id} \cup BelowP(page, e.id)
            BY <2>3, <2>4, BelowTarget
        <3>3. ASSUME NEW q \in sync.mapped, q \in {e.id} \cup BelowP(page, e.id) PROVE FALSE
            <4>1. Doomed(page, sync, q) /\ q \in LiveIn(page)
                BY <2>3, <3>3 DEF Doomed, BelowP
            <4>2. ~sync.clean
                BY <1>1, <2>3, <3>3 DEF ShapeOK
            <4> QED BY <1>1, <2>3, <3>3, <4>1, <4>2 DEF PruneOK, SparedOK, LeftIn
        <3> QED BY <2>3, <3>1, <3>2, <3>3
    <2>7. Traced(page', sync, {}) /\ (Finals(page, mmdc, sync) => Finals(page', mmdc, sync))
        <3>1. {} \in SUBSET (sync.mapped \cup {Target})
            OBVIOUS
        <3> QED BY <2>3, <2>6, <3>1, SameFinals
    <2> DEFINE E == sync.queue \ {e}
               t == [sync EXCEPT !.queue = E]
    <2>8. sync' = Delete(sync, E)
        BY <2>1
    <2> HIDE DEF E
    <2>9. /\ Delete(sync, E) = DeleteOf(t)
          /\ IsRun(t) /\ SameBooks(sync, t) /\ t.queue = E /\ t.clean = sync.clean /\ t.todo = sync.todo
        BY <2>3, DeleteIs
    <2> HIDE DEF t
    <2>10. BooksOK(t) /\ t.text = sync.text
        BY <2>3, <2>9 DEF BooksOK, SameBooks
    <2>11. Traced(page', t, {}) /\ (Finals(page', mmdc, sync) => Finals(page', mmdc, t))
        BY <2>7, <2>9, SameTraces
    <2>12. /\ sync'.text = sync.text /\ TracedOK(page', sync')
           /\ Finals(page', mmdc, t) => FirstOK(page', mmdc, sync')
        BY <2>8, <2>9, <2>10, <2>11, CalmDelete
    <2>13. Orderly(mmdc, tree) /\ calm = "run" => FirstOK(page', mmdc, sync')
        BY <2>3, <2>7, <2>11, <2>12
    <2> QED BY <1>1, <2>1, <2>12, <2>13, CalmWrites
<1> QED BY <1>2, <1>3

\* A run that reports success, and was not disturbed, leaves nothing for the next to do.
LEMMA SettledNow ==
    ASSUME WikiInv, CalmInv, calm = "run", Orderly(mmdc, tree), sync.pc \in {"summary", "putsummary"},
           NEW h, Later(page, {}, h, {}), LiveIn(h) = LiveIn(page), \A q \in Id \ {Target} : h[q] = page[q],
           h[Target].body.marks = "one", h[Target].body.docs = RecordsOf(sync)
    PROVE  sync.placed \in [Doc -> Id \cup {NoId}] /\ Settled(h, mmdc, tree, sync.placed)
<1> DEFINE pl == sync.placed
<1>1. calm # "no" /\ sync.pc \notin EntryPcs /\ Running
    BY DEF EntryPcs, Running
<1>2. /\ IsSpace(page) /\ sync.text = tree /\ touched = {} /\ Traced(page, sync, {}) /\ BooksOK(sync)
      /\ sync.mapped \subseteq LiveIn(page) \ {Target} /\ sync.mapped \cup {Target} \subseteq Id
      /\ Finals(page, mmdc, sync)
    BY <1>1, CalmOutside
<1>3. sync.todo = {} /\ sync.queue = {} /\ MappedOK(page, {}, sync) /\ DoneOK(page, {}, sync) /\ KeptOK(page, {}, sync)
    BY <1>2, ClosingFacts DEF ClosingOK
<1>4. /\ \A q \in LiveIn(page) : q \in Id /\ h[q].type = page[q].type /\ h[q].above = page[q].above
      /\ page[Target].type = "page" /\ IsSpace(h)
    <2>1. \A q \in LiveIn(page) : q \in LiveIn(h) /\ page[q] # NoPage /\ q \in Id
        BY <1>2, LiveShape
    <2>2. \A q \in LiveIn(page) : h[q].type = page[q].type /\ h[q].above = page[q].above
        BY <2>1, LaterLive
    <2> QED BY <1>2, <2>1, <2>2 DEF IsSpace, IsTree, Later
<1>5. ASSUME NEW d \in Doc, tree[d] # Gone
      PROVE  /\ IsDone(sync, d) /\ pl[d] \in sync.mapped
             /\ LocIn(h, {}, pl[d], Segments[d]) /\ FinalIn(h, mmdc, pl[d], d, tree[d])
             /\ \A q \in Id : OnTheWay(h, pl[d], q) => h[q].type = "page"
    <2>1. IsDone(sync, d) /\ pl[d] # NoId /\ pl[d] \in sync.mapped
        BY <1>2, <1>3, <1>5 DEF IsDone, DoneOK, MappedOK
    <2>2. pl[d] \in LiveIn(page) /\ pl[d] # Target /\ h[pl[d]] = page[pl[d]]
        BY <1>2, <2>1
    <2>3. LocIn(h, {}, pl[d], Segments[d])
        <3>1. LocTo(page, {}, pl[d], Segments[d], Len(Segments[d]))
            BY <1>3, <2>1, <2>2 DEF MappedOK, LocIn
        <3>2. Len(Segments[d]) \in Nat \ {0} /\ pl[d] \in LiveIn(h)
            BY <2>2, SegmentsLen
        <3> HIDE DEF pl
        <3>3. LocTo(h, {}, pl[d], Segments[d], Len(Segments[d]))
            BY <3>1, <3>2, LocLater
        <3> QED BY <3>3 DEF LocIn
    <2>4. FinalIn(h, mmdc, pl[d], d, tree[d])
        BY <1>2, <2>1, <2>2 DEF Finals, FinalIn
    <2>5. ASSUME NEW q \in Id, OnTheWay(h, pl[d], q) PROVE h[q].type = "page"
        <3>1. q \in sync.mapped \cup {Target}
            BY <1>2, <2>1, <2>2, <2>5 DEF OnTheWay, Traced
        <3>2. page[q].type = "page"
            BY <1>2, <1>4, <3>1 DEF Traced
        <3>3. q \in LiveIn(page)
            BY <2>5, <3>2 DEF LiveIn
        <3> QED BY <1>4, <3>2, <3>3
    <2> QED BY <2>1, <2>3, <2>4, <2>5
<1>6. \A d \in Doc : tree[d] = Gone => pl[d] = NoId
    BY <1>2 DEF Traced
<1>7. ASSUME NEW q \in sync.mapped PROVE \E d \in Doc : tree[d] # Gone /\ OnTheWay(h, pl[d], q)
    <2>1. PICK r \in Homes(sync) : OnTheWay(page, r, q)
        BY <1>2 DEF Traced
    <2>2. PICK d \in Doc : IsDone(sync, d) /\ r = pl[d]
        BY <2>1 DEF Homes
    <2>3. tree[d] # Gone /\ r \in LiveIn(page)
        BY <1>2, <1>5, <2>2 DEF IsDone
    <2>4. OnTheWay(h, r, q)
        BY <1>4, <2>1, <2>3 DEF OnTheWay
    <2> QED BY <2>2, <2>3, <2>4
<1>8. ASSUME NEW p \in BelowP(h, Target), Needless(h, tree, pl, p)
      PROVE  \E q \in BelowP(h, p) : ~Needless(h, tree, pl, q)
    <2>1. \A r : BelowP(h, r) = BelowP(page, r)
        BY <1>4 DEF BelowP
    <2>2. p \in LiveIn(page) /\ p # Target /\ p \in Id /\ h[p] = page[p]
        BY <1>2, <1>4, <1>8, <2>1, BelowTarget
    <2>3. p \notin sync.mapped
        BY <1>7, <1>8 DEF Needless
    <2>4. LeftIn(page, sync, p)
        BY <1>8, <2>2, <2>3 DEF LeftIn, Needless
    <2>5. p \in BelowP(page, Target) \ {} /\ p \notin Ids(sync.queue)
        BY <1>3, <1>8, <2>1 DEF Ids
    <2>6. PICK q \in BelowP(page, p) : ~LeftIn(page, sync, q)
        BY <1>3, <2>4, <2>5 DEF KeptOK
    <2>7. q \in LiveIn(page) /\ h[q] = page[q]
        BY <1>2, <2>6, BelowTarget DEF BelowP
    <2>8. ~Needless(h, tree, pl, q)
        BY <1>7, <2>6, <2>7 DEF Needless, LeftIn
    <2> QED BY <2>1, <2>6, <2>8
<1>9. pl \in [Doc -> Id \cup {NoId}]
    <2>1. pl = [d \in Doc |-> pl[d]]
        BY <1>2 DEF BooksOK
    <2>2. \A d \in Doc : pl[d] \in Id \cup {NoId}
        BY <1>2, <1>5, <1>6
    <2> QED BY <2>1, <2>2
<1>10. h[Target].body.docs = {<<d, pl[d]>> : d \in {e \in Doc : pl[e] # NoId}}
    BY DEF RecordsOf
<1> QED BY <1>5, <1>6, <1>8, <1>9, <1>10 DEF Settled

\* The end of a run that was not disturbed.
LEMMA CalmEnd ==
    ASSUME CalmInv, calm # "no", UNCHANGED <<tree, mmdc, touched, fresh>>, sync'.pc = "ok",
           calm' = IF calm = "run" THEN "yes" ELSE calm,
           Orderly(mmdc, tree) /\ calm = "yes" => page' = page,
           Orderly(mmdc, tree) /\ calm = "run" => \E pl \in [Doc -> Id \cup {NoId}] : Settled(page', mmdc, tree, pl)
    PROVE  CalmInv'
<1>1. calm \in {"run", "yes"} /\ touched = {} /\ fresh = {} /\ calm' = "yes" /\ ~Running'
    BY DEF CalmInv, Running
<1>2. Orderly(mmdc, tree) => \E pl \in [Doc -> Id \cup {NoId}] : Settled(page', mmdc, tree, pl)
    BY <1>1 DEF CalmInv
<1> QED BY <1>1, <1>2 DEF CalmInv

\* The records of the run are those of its books.
LEMMA RecordsAre == Records = RecordsOf(sync)
BY DEF Records, RecordsOf

\* The summary is read: it stands, or it is to be written.
LEMMA CalmSummary ==
    ASSUME WikiInv, CalmInv, Summary PROVE CalmInv'
<1>1. sync.pc = "summary" /\ sync.pc \notin EntryPcs /\ Running
    BY DEF Summary, EntryPcs, Running
<1>2. CASE calm' = "no"
    BY <1>2 DEF CalmInv
<1>3. CASE calm' # "no"
    <2> DEFINE body == page[Target].body
               b == Merged(body)
    <2>1. /\ UNCHANGED <<tree, mmdc, page, touched, fresh>>
          /\ IF b = body THEN Succeed /\ calm' = (IF calm = "run" THEN "yes" ELSE calm)
             ELSE /\ sync' = [sync EXCEPT !.pc = "putsummary", !.id = Target, !.body = b,
                                          !.version = page[Target].version]
                  /\ calm' = calm
        BY <1>3 DEF Summary, Fails, space
    <2>2. calm # "no"
        BY <1>3, <2>1
    <2>3. /\ IsSpace(page) /\ IsRun(sync) /\ Traced(page, sync, {}) /\ sync.text = tree
          /\ Orderly(mmdc, tree) /\ calm = "run" => Finals(page, mmdc, sync)
        BY <1>1, <2>2, CalmOutside
    <2>4. IsParent(body) /\ sync.todo = {}
        BY <1>1, ClosingFacts DEF ClosingOK
    <2>5. body = [x \in BodyFields |-> body[x]]
        BY <2>4 DEF IsParent
    <2> HIDE DEF body
    <2>6. b = [body EXCEPT !.marks = "one", !.docs = RecordsOf(sync)]
        BY RecordsAre DEF Merged
    <2>7. b.marks = "one" /\ b.docs = RecordsOf(sync)
        BY <2>5, <2>6 DEF BodyFields
    <2>8. ASSUME NEW pl, Settled(page, mmdc, tree, pl), SecondOK(page, pl, sync) PROVE b = body
        <3>1. \A d \in Doc : sync.placed[d] = pl[d]
            BY <2>3, <2>4, <2>8 DEF Settled, SecondOK, Again, IsDone, Traced
        <3>2. body.marks = "one" /\ body.docs = {<<d, pl[d]>> : d \in {e \in Doc : pl[e] # NoId}}
            BY <2>8 DEF Settled, body
        <3>3. body.docs = RecordsOf(sync)
            BY <3>1, <3>2 DEF RecordsOf
        <3> QED BY <2>5, <2>6, <3>2, <3>3 DEF BodyFields
    <2> HIDE DEF b
    <2>9. CASE b = body
        <3>1. sync'.pc = "ok"
            BY <2>1, <2>9 DEF Succeed, Idle
        <3>2. Orderly(mmdc, tree) /\ calm = "run" => \E pl \in [Doc -> Id \cup {NoId}] : Settled(page', mmdc, tree, pl)
            <4> SUFFICES ASSUME Orderly(mmdc, tree), calm = "run"
                         PROVE  \E pl \in [Doc -> Id \cup {NoId}] : Settled(page, mmdc, tree, pl)
                BY <2>1
            <4>1. Later(page, {}, page, {})
                BY <2>3 DEF Later
            <4>2. page[Target].body.marks = "one" /\ page[Target].body.docs = RecordsOf(sync)
                BY <2>7, <2>9 DEF body
            <4>3. sync.placed \in [Doc -> Id \cup {NoId}] /\ Settled(page, mmdc, tree, sync.placed)
                BY <1>1, <4>1, <4>2, SettledNow
            <4> QED BY <4>3
        <3> QED BY <2>1, <2>2, <2>9, <3>1, <3>2, CalmEnd
    <2>10. CASE b # body
        <3>1. /\ SameBooks(sync, sync') /\ sync'.todo = sync.todo /\ sync'.clean = sync.clean
              /\ sync'.pc = "putsummary" /\ sync'.body = b
            BY <2>1, <2>3, <2>10 DEF IsRun, RunFields, SameBooks
        <3>2. /\ RecordsOf(sync') = RecordsOf(sync)
              /\ \A P : Traced(page, sync, P) => Traced(page, sync', P)
              /\ Finals(page, mmdc, sync) => Finals(page, mmdc, sync')
            BY <3>1, SameTraces
        <3>3. sync'.text = sync.text
            BY <3>1 DEF SameBooks
        <3>4. TracedOK(page', sync')
            BY <2>1, <2>3, <3>1, <3>2 DEF TracedOK, Tips, EntryPcs
        <3>5. Orderly(mmdc, tree) /\ calm = "run" => FirstOK(page', mmdc, sync')
            BY <2>1, <2>3, <2>7, <3>1, <3>2 DEF FirstOK
        <3>6. \A pl : ~(Settled(page, mmdc, tree, pl) /\ SecondOK(page, pl, sync))
            BY <2>8, <2>10
        <3> QED BY <1>1, <2>1, <2>10, <3>3, <3>4, <3>5, <3>6, CalmGoesOn
    <2> QED BY <2>9, <2>10
<1> QED BY <1>2, <1>3

\* The summary is written.
LEMMA CalmPutSummary ==
    ASSUME WikiInv, CalmInv, PutSummary PROVE CalmInv'
<1>1. sync.pc = "putsummary" /\ Running
    BY DEF PutSummary, Running
<1>2. CASE calm' = "no"
    BY <1>2 DEF CalmInv
<1>3. CASE calm' # "no"
    <2> DEFINE b == sync.body
    <2>1. /\ UNCHANGED <<tree, mmdc, touched, fresh>> /\ page' = BodyAt(page, Target, b)
          /\ sync'.pc = "ok" /\ calm' = (IF calm = "run" THEN "yes" ELSE calm)
        BY <1>3 DEF PutSummary, Fails, BodyAt, Succeed, Idle
    <2>2. calm # "no"
        BY <1>3, <2>1
    <2>3. Orderly(mmdc, tree) => calm # "yes"
        BY <1>1, OnlyFirst
    <2>4. ASSUME Orderly(mmdc, tree), calm = "run"
          PROVE  \E pl \in [Doc -> Id \cup {NoId}] : Settled(page', mmdc, tree, pl)
        <3>1. b.marks = "one" /\ b.docs = RecordsOf(sync)
            BY <1>1, <2>4 DEF CalmInv, FirstOK
        <3>2. IsSpace(page) /\ Target \in LiveIn(page) /\ IsParent(b)
            BY <1>1, ClosingFacts DEF SummaryOK
        <3> HIDE DEF b
        <3>3. /\ OnlyIn(page, page', Target) /\ page'[Target].body = b
              /\ page'[Target].files = page[Target].files /\ page'[Target].label = page[Target].label
            BY <2>1, <3>2, BodyWritten
        <3>4. Later(page, {}, page', {})
            BY <3>2, <3>3, OnlyLater
        <3>5. LiveIn(page') = LiveIn(page) /\ \A q \in Id \ {Target} : page'[q] = page[q]
            BY <3>3 DEF OnlyIn
        <3>6. sync.placed \in [Doc -> Id \cup {NoId}] /\ Settled(page', mmdc, tree, sync.placed)
            BY <1>1, <2>4, <3>1, <3>3, <3>4, <3>5, SettledNow
        <3> QED BY <3>6
    <2> QED BY <2>1, <2>2, <2>3, <2>4, CalmEnd
<1> QED BY <1>2, <1>3

\* A run begins.
LEMMA CalmStart ==
    ASSUME WikiInv, CalmInv, NEW clean \in BOOLEAN, Start(clean) PROVE CalmInv'
<1>1. /\ UNCHANGED <<tree, mmdc, page>> /\ touched' = {} /\ fresh' = {}
      /\ calm' \in {"run", "yes"} /\ (calm' = "yes" => calm = "yes" /\ ~clean)
    BY DEF Start
<1>2. Orderly(mmdc, tree) /\ calm' = "yes" => \E pl \in [Doc -> Id \cup {NoId}] : Settled(page, mmdc, tree, pl)
    BY <1>1 DEF CalmInv
<1>3. CASE Fail
    <2>1. ~Running'
        BY <1>3 DEF Fail, Running, Idle
    <2> QED BY <1>1, <1>2, <2>1 DEF CalmInv
<1>4. CASE ~Fail
    <2> DEFINE s == [Idle EXCEPT !.clean = clean, !.text = tree, !.todo = Present]
    <2>1. sync' = (IF clean THEN [s EXCEPT !.pc = "clean"] ELSE Entry(s)) /\ ~HierarchyConflict(Present)
        BY <1>4 DEF Start
    <2>2. /\ IsRun(s) /\ s.clean = clean /\ s.text = tree /\ s.todo = Present
          /\ s.mapped = {} /\ s.cache = {} /\ s.placed = [d \in Doc |-> NoId]
        BY DEF Idle, IsRun, RunFields
    <2> HIDE DEF s
    <2>3. BooksOK(s) /\ \A d \in Doc : ~IsDone(s, d)
        BY <2>2 DEF BooksOK, Present, IsDone
    <2>4. Traced(page, s, {}) /\ Finals(page, mmdc, s)
        BY <2>2, <2>3 DEF Traced, Finals
    <2>5. \A pl : ~clean => Again(page, pl, s)
        BY <2>2, <2>3 DEF Again
    <2>6. CASE clean
        <3>1. /\ SameBooks(s, sync') /\ sync'.todo = s.todo /\ sync'.clean = s.clean /\ sync'.pc = "clean"
            BY <2>1, <2>2, <2>6 DEF IsRun, RunFields, SameBooks
        <3>2. Traced(page, sync', {}) /\ Finals(page, mmdc, sync')
            BY <2>4, <3>1, SameTraces
        <3>3. TracedOK(page, sync') /\ FirstOK(page, mmdc, sync') /\ sync'.text = tree
            BY <2>2, <3>1, <3>2 DEF TracedOK, Tips, EntryPcs, FirstOK, SameBooks
        <3>4. ~HierarchyConflict(Present')
            BY <1>1, <2>1 DEF Present
        <3> QED BY <1>1, <2>6, <3>3, <3>4 DEF CalmInv
    <2>7. CASE ~clean
        <3>1. sync' = Entry(s)
            BY <2>1, <2>7
        <3>2. \A pl : /\ sync'.text = s.text /\ TracedOK(page, sync') /\ FirstOK(page, mmdc, sync')
                      /\ SecondOK(page, pl, sync')
            BY <2>3, <2>4, <2>5, <2>7, <3>1, CalmEntry
        <3>3. sync'.text = tree /\ TracedOK(page, sync') /\ FirstOK(page, mmdc, sync')
            BY <2>2, <3>2
        <3>4. ~HierarchyConflict(Present')
            BY <1>1, <2>1 DEF Present
        <3>5. Orderly(mmdc, tree) /\ calm' = "yes" => \E pl \in [Doc -> Id \cup {NoId}] :
                 Settled(page, mmdc, tree, pl) /\ SecondOK(page, pl, sync')
            BY <1>2, <3>2
        <3> QED BY <1>1, <3>3, <3>4, <3>5 DEF CalmInv
    <2> QED BY <2>6, <2>7
<1> QED BY <1>3, <1>4

\* What users do, and what lands late, ends the calm.
LEMMA UsersEndIt ==
    User \/ RequestFails => calm' = "no"
BY DEF User, UserEdits, UserUnlabels, UserTrashes, UserAdds, FileChanges, RendererChanges, Lands, Change, RequestFails

\* Whatever happens, a calm space is as the invariant says.
LEMMA CalmInvNext == WikiInv /\ CalmInv /\ [Next]_vars => CalmInv'
<1> SUFFICES ASSUME WikiInv, CalmInv, [Next]_vars PROVE CalmInv'
    OBVIOUS
<1>1. CASE \E clean \in BOOLEAN : Start(clean)
    BY <1>1, CalmStart
<1>2. CASE Lookup \/ Create \/ ReadLabels \/ AddLabel
    BY <1>2, CalmLookup, CalmCreate, CalmReadLabels, CalmAddLabel
<1>3. CASE Fetch \/ Rewrite \/ Put
    BY <1>3, CalmFetch, CalmRewrite, CalmPut
<1>4. CASE Clean \/ List \/ Plan \/ DeleteNext
    BY <1>4, CalmClean, CalmList, CalmPlan, CalmDeleteNext
<1>5. CASE Summary \/ PutSummary
    BY <1>5, CalmSummary, CalmPutSummary
<1>6. CASE RequestFails \/ User
    BY <1>6, UsersEndIt DEF CalmInv
<1>7. CASE UNCHANGED vars
    <2>1. Present' = Present /\ Running' = Running
        BY <1>7 DEF vars, Present, Running
    <2> QED BY <1>7, <2>1 DEF vars, CalmInv
<1> QED BY <1>1, <1>2, <1>3, <1>4, <1>5, <1>6, <1>7 DEF Next, Step

\* A run that nobody disturbs, after one that succeeded, writes nothing.
LEMMA NothingToWrite ==
    ASSUME WikiInv, CalmInv, [Next]_vars PROVE QuietRuns
<1> SUFFICES ASSUME calm = "yes", calm' = "yes", page' # page,
                    \A d \in Present : Alone(d) /\ ~Unrendered(d)
             PROVE  FALSE
    BY DEF QuietRuns
<1>1. Create \/ AddLabel \/ Rewrite \/ Put \/ DeleteNext \/ PutSummary
    <2>1. ~(\E clean \in BOOLEAN : Start(clean)) /\ ~User /\ ~RequestFails /\ ~UNCHANGED vars
        BY UsersEndIt DEF Start, vars
    <2>2. ~Lookup /\ ~ReadLabels /\ ~Fetch /\ ~Clean /\ ~List /\ ~Plan /\ ~Summary
        BY DEF Lookup, ReadLabels, Fetch, Clean, List, Plan, Summary, Reads, Fails
    <2> QED BY <2>1, <2>2 DEF Next, Step
<1>2. /\ Running
      /\ sync.pc \notin {"lookup", "labels", "fetch", "list", "plan", "summary"}
    BY <1>1 DEF Create, AddLabel, Rewrite, Put, DeleteNext, PutSummary, Running
<1>3. sync.text = tree
    BY <1>2 DEF CalmInv
<1>4. Orderly(mmdc, tree)
    BY <1>3, AssumptionOfConfluence DEF Orderly, Alone, Unrendered, Present, ConfluenceAssumption
<1> QED BY <1>2, <1>4, OnlyFirst

\* Confluence alone: a run on an unchanged tree and space writes nothing.
THEOREM RunsAreQuiet == Spec => [][QuietRuns]_vars
<1>1. Init => WikiInv /\ CalmInv
    BY WikiInvInit DEF Init, CalmInv
<1>2. WikiInv /\ CalmInv /\ [Next]_vars => (WikiInv /\ CalmInv)'
    BY WikiInvNext, CalmInvNext
<1>3. WikiInv /\ CalmInv /\ [Next]_vars => [QuietRuns]_vars
    BY NothingToWrite
<1> QED BY <1>1, <1>2, <1>3, PTL DEF Spec

------------------------------------------------------------------------------
\* A behaviour of the parts is one of Confluence.
LEMMA IsWiki == FileSpec => Spec
<1>1. FileInit => Init
      BY DEF FileInit
<1>2. [FileNext]_fileVars => [Next]_vars
      BY DEF FileNext, InWiki, InSync, InRollback, InGraph, fileVars
<1> QED BY <1>1, <1>2, PTL DEF FileSpec, Spec

\* A run that reports success leaves a labelled page with the content it read for every file, its
\* pictures attached, and no stale page but those that hold something to be kept, whatever earlier
\* runs, late writes and users did; what others touched since it began does not count (index.ts,
\* syncConfluenceToDocs).
THEOREM MirrorsAlways == FileSpec => []SuccessIsMirror
BY IsWiki, WikiAlways, InvIsMirror, PTL

\* Pruning trashes only labelled pages that the run did not map, or that changed since the listing,
\* and only when every file has its page; an edit is overwritten only by a run that read it
\* (planStalePruning, updatePage; README.md: "Unlabeled/manual pages are never deleted"); and a run
\* over files and a space that nobody touched since a run that succeeded writes nothing, if no two
\* files have one path (index.ts, syncConfluenceToDocs).
THEOREM ChangesAlwaysJustified == FileSpec => ChangesAreJustified
<1>1. [PruneSpares /\ EditsSurvive]_vars /\ [QuietRuns]_vars => [ChangeIsJustified]_fileVars
    BY DEF ChangeIsJustified, fileVars, vars, QuietRuns, PruneSpares, EditsSurvive
<1> QED BY <1>1, IsWiki, WritesAreSpared, RunsAreQuiet, PTL DEF ChangesAreJustified

------------------------------------------------------------------------------
\* Commit graph

\* The vault's ids are finitely many natural numbers, and sets of them are counted alike on
\* either side of the instance.
LEMMA CommitsCounted ==
    /\ Commit \subseteq Nat /\ IsFiniteSet(Commit) /\ MaxNodes \in Nat \ {0}
    /\ Cardinality(Commit) \in Nat
    /\ \A S : Graph!Cardinality(S) = Cardinality(S)
<1>1. \A S : Graph!IsFiniteSet(S) <=> IsFiniteSet(S)
      BY DEF Graph!IsFiniteSet, IsFiniteSet
<1>2. \A S : Graph!Cardinality(S) = Cardinality(S)
      BY DEF Graph!Cardinality, Cardinality
<1>3. IsFiniteSet(Commit)
      BY <1>1, AssumptionOfTheGraph DEF Graph!GraphAssumption
<1> QED BY <1>2, <1>3, AssumptionOfTheGraph, FS_CardinalityType DEF Graph!GraphAssumption

\* Sets of commits are finite, and one more counts as one more.
LEMMA CountCommits ==
    ASSUME NEW S \in SUBSET Commit
    PROVE  /\ IsFiniteSet(S) /\ Cardinality(S) \in Nat /\ Cardinality(S) <= Cardinality(Commit)
           /\ Cardinality(S) = Cardinality(Commit) => S = Commit
           /\ \A x : Cardinality(S \cup {x}) = IF x \in S THEN Cardinality(S) ELSE Cardinality(S) + 1
<1>1. IsFiniteSet(S) /\ Cardinality(S) <= Cardinality(Commit) /\ (Cardinality(S) = Cardinality(Commit) => S = Commit)
      BY CommitsCounted, FS_Subset
<1>2. Cardinality(S) \in Nat
      BY <1>1, FS_CardinalityType
<1>3. ASSUME NEW x
      PROVE  Cardinality(S \cup {x}) = IF x \in S THEN Cardinality(S) ELSE Cardinality(S) + 1
      BY <1>1, FS_AddElement
<1> QED BY <1>1, <1>2, <1>3

\* A set of commits within another is no larger, and smaller if it is not the same.
LEMMA CountWithin ==
    ASSUME NEW S \in SUBSET Commit, NEW T \in SUBSET S
    PROVE  Cardinality(T) <= Cardinality(S) /\ (T # S => Cardinality(T) < Cardinality(S))
<1>1. IsFiniteSet(S) /\ Cardinality(S) \in Nat /\ Cardinality(T) \in Nat
      BY CountCommits
<1>2. Cardinality(T) <= Cardinality(S) /\ (Cardinality(S) = Cardinality(T) => S = T)
      BY <1>1, FS_Subset
<1> QED BY <1>1, <1>2

\* The least and the greatest of a set of commits are in it.
LEMMA MinIn ==
    ASSUME NEW S \in SUBSET Commit, S # {}
    PROVE  Graph!Min(S) \in S
<1>1. \E x \in S : \A y \in S : x <= y
      BY CommitsCounted, HasLeast
<1> QED BY <1>1 DEF Graph!Min

\* The greatest has the fewest above it.
LEMMA MaxIn ==
    ASSUME NEW S \in SUBSET Commit, S # {}
    PROVE  Graph!Max(S) \in S
<1> DEFINE Above(x) == {y \in S : y > x}
           K == {Cardinality(Above(x)) : x \in S}
<1>1. \A x \in S : Above(x) \in SUBSET Commit /\ Cardinality(Above(x)) \in Nat
  <2> TAKE x \in S
  <2>1. Above(x) \in SUBSET Commit
        OBVIOUS
  <2> HIDE DEF Above
  <2> QED BY <2>1, CountCommits
<1>2. PICK x \in S : \A y \in S : Cardinality(Above(x)) <= Cardinality(Above(y))
  <2>1. K \in SUBSET Nat /\ K # {}
    <3> HIDE DEF Above
    <3> QED BY <1>1
  <2>2. PICK k \in K : \A m \in K : k <= m
    <3> HIDE DEF K
    <3> QED BY <2>1, HasLeast
  <2> HIDE DEF Above
  <2> QED BY <2>2
<1>3. ASSUME NEW y \in S, y > x PROVE FALSE
  <2>1. Above(y) \subseteq Above(x) /\ y \in Above(x) /\ y \notin Above(y)
    <3>1. S \subseteq Nat /\ x \in Nat /\ y \in Nat
          BY CommitsCounted
    <3>2. \A z \in S : z > y => z > x
          BY <1>3, <3>1
    <3>3. ~(y > y)
          BY <3>1
    <3> QED BY <1>3, <3>2, <3>3
  <2>2. Cardinality(Above(y)) < Cardinality(Above(x))
    <3> HIDE DEF Above
    <3> QED BY <1>1, <2>1, CountWithin
  <2> HIDE DEF Above
  <2> QED BY <1>1, <1>2, <2>2
<1>4. \E z \in S : \A y \in S : z >= y
  <2>1. \A y \in S : x >= y
        BY <1>3, CommitsCounted
  <2> QED BY <2>1
<1> QED BY <1>4 DEF Graph!Max

------------------------------------------------------------------------------
\* The ancestors

\* A history of commits whose parents are commits
IsHistory(H) == DOMAIN H \subseteq Commit /\ \A c \in DOMAIN H : H[c].parents \subseteq Commit

LEMMA ParentsAre ==
    ASSUME NEW H, IsHistory(H), NEW c
    PROVE  /\ Graph!Parents(H, c) \subseteq Commit
           /\ c \notin DOMAIN H => Graph!Parents(H, c) = {}
BY DEF IsHistory, Graph!Parents

\* The lineage holds the heads and is closed, and is within every set that does and is.
LEMMA LineageIs ==
    ASSUME NEW H, IsHistory(H), NEW heads \in SUBSET Commit
    PROVE  /\ Graph!Lineage(H, heads) \in SUBSET Commit /\ heads \subseteq Graph!Lineage(H, heads)
           /\ Graph!Closed(H, Graph!Lineage(H, heads))
           /\ \A S \in SUBSET Commit : heads \subseteq S /\ Graph!Closed(H, S) =>
                Graph!Lineage(H, heads) \subseteq S
<1>1. Graph!Lineage(H, heads) \in SUBSET Commit /\ heads \subseteq Graph!Lineage(H, heads)
      BY DEF Graph!Lineage
<1>2. ASSUME NEW x \in Graph!Lineage(H, heads), NEW p \in Graph!Parents(H, x)
      PROVE  p \in Graph!Lineage(H, heads)
  <2>1. p \in Commit BY ParentsAre
  <2>2. ASSUME NEW S \in SUBSET Commit, heads \subseteq S, Graph!Closed(H, S)
        PROVE  p \in S
    <3>1. x \in S BY <2>2 DEF Graph!Lineage
    <3> QED BY <2>2, <3>1 DEF Graph!Closed
  <2> QED BY <2>1, <2>2 DEF Graph!Lineage
<1>3. \A S \in SUBSET Commit : heads \subseteq S /\ Graph!Closed(H, S) =>
        Graph!Lineage(H, heads) \subseteq S
      BY DEF Graph!Lineage
<1> QED BY <1>1, <1>2, <1>3 DEF Graph!Closed

\* The ancestors hold the parents, are closed, and are within every set that does and is.
LEMMA AncestorsAre ==
    ASSUME NEW H, IsHistory(H), NEW c
    PROVE  /\ Graph!Ancestors(H, c) \subseteq Commit
           /\ Graph!Parents(H, c) \subseteq Graph!Ancestors(H, c)
           /\ Graph!Closed(H, Graph!Ancestors(H, c))
           /\ \A S \in SUBSET Commit : Graph!Parents(H, c) \subseteq S /\ Graph!Closed(H, S) =>
                Graph!Ancestors(H, c) \subseteq S
<1>1. Graph!Parents(H, c) \in SUBSET Commit
      BY ParentsAre
<1> QED BY <1>1, LineageIs DEF Graph!Ancestors

\* The ancestors of an ancestor are ancestors.
LEMMA AncestorsGoOn ==
    ASSUME NEW H, IsHistory(H), NEW c, NEW a \in Graph!Ancestors(H, c)
    PROVE  /\ a \in Commit /\ Graph!Parents(H, a) \subseteq Graph!Ancestors(H, c)
           /\ Graph!Ancestors(H, a) \subseteq Graph!Ancestors(H, c)
BY AncestorsAre DEF Graph!Closed

\* The lineage is what is given, and its ancestors.
LEMMA LineageOf ==
    ASSUME NEW H, IsHistory(H), NEW S \in SUBSET Commit
    PROVE  Graph!Lineage(H, S) = S \cup UNION {Graph!Ancestors(H, c) : c \in S}
<1> DEFINE L == S \cup UNION {Graph!Ancestors(H, c) : c \in S}
<1>1. \A x : x \in L <=> x \in S \/ \E c \in S : x \in Graph!Ancestors(H, c)
      OBVIOUS
<1> HIDE DEF L
<1>2. L \in SUBSET Commit /\ S \subseteq L
      BY <1>1, AncestorsAre
<1>3. Graph!Closed(H, L)
  <2> SUFFICES ASSUME NEW x \in L, NEW p \in Graph!Parents(H, x) PROVE p \in L
      BY DEF Graph!Closed
  <2>1. CASE x \in S
        BY <1>1, <2>1, AncestorsAre
  <2>2. CASE \E c \in S : x \in Graph!Ancestors(H, c)
        BY <1>1, <2>2, AncestorsGoOn
  <2> QED BY <1>1, <2>1, <2>2
<1>4. ASSUME NEW x \in L PROVE x \in Graph!Lineage(H, S)
  <2>1. ASSUME NEW c \in S, x \in Graph!Ancestors(H, c) PROVE x \in Graph!Lineage(H, S)
    <3>1. Graph!Parents(H, c) \subseteq Graph!Lineage(H, S)
          BY LineageIs DEF Graph!Closed
    <3> QED BY <2>1, <3>1, LineageIs, AncestorsAre
  <2> QED BY <1>1, <2>1, LineageIs
<1> QED BY <1>2, <1>3, <1>4, LineageIs DEF L

\* What is not there has no ancestors.
LEMMA NoneOfTheMissing ==
    ASSUME NEW H, IsHistory(H), NEW c, c \notin DOMAIN H
    PROVE  Graph!Ancestors(H, c) = {}
<1>1. Graph!Parents(H, c) \subseteq {} /\ Graph!Closed(H, {})
      BY ParentsAre DEF Graph!Closed
<1> QED BY <1>1, AncestorsAre

\* Without cycles nothing is its own ancestor.
LEMMA NotItsOwn ==
    ASSUME NEW H, IsHistory(H), Graph!Acyclic(H), NEW c
    PROVE  c \notin Graph!Ancestors(H, c)
BY NoneOfTheMissing DEF Graph!Acyclic

------------------------------------------------------------------------------
\* The walk of collectAncestors

\* The ids on a stack of frames
OnFrames(st) == UNION {st[i] : i \in DOMAIN st}
Stack == Seq((SUBSET Commit) \ {{}})

\* No id on the stack is an ancestor of one that is as high or higher, and none is there twice.
FramesApart(H, st) ==
    \A i, j \in DOMAIN st : i <= j =>
        \A a \in st[i], b \in st[j] : a \notin Graph!Ancestors(H, b) /\ (i < j => a # b)

\* What is pushed is on the stack, and apart if it is apart from what is there.
LEMMA PushedOn ==
    ASSUME NEW H, NEW st \in Stack, FramesApart(H, st), NEW ids \in SUBSET Commit,
           \A b \in ids : /\ \A a \in OnFrames(st) : a \notin Graph!Ancestors(H, b) /\ a # b
                          /\ \A a \in ids : a \notin Graph!Ancestors(H, b)
    PROVE  /\ Graph!Pushed(st, ids) \in Stack
           /\ OnFrames(Graph!Pushed(st, ids)) = OnFrames(st) \cup ids
           /\ FramesApart(H, Graph!Pushed(st, ids))
           /\ Graph!Pushed(st, ids) = <<>> => st = <<>> /\ ids = {}
<1>1. CASE ids = {}
      BY <1>1 DEF Graph!Pushed
<1>2. CASE ids # {}
  <2> DEFINE new == Append(st, ids)
  <2>1. /\ Graph!Pushed(st, ids) = new /\ new \in Stack /\ new # <<>>
        /\ DOMAIN st = 1..Len(st) /\ DOMAIN new = 1..(Len(st) + 1) /\ Len(st) \in Nat
        /\ \A i \in DOMAIN st : new[i] = st[i]
        /\ new[Len(st) + 1] = ids
        BY <1>2 DEF Graph!Pushed, Stack
  <2> HIDE DEF new
  <2>2. DOMAIN new = DOMAIN st \cup {Len(st) + 1} /\ \A i \in DOMAIN st : i < Len(st) + 1
        BY <2>1
  <2>3. OnFrames(new) = OnFrames(st) \cup ids
        BY <2>1, <2>2 DEF OnFrames
  <2>4. ASSUME NEW i \in DOMAIN new, NEW j \in DOMAIN new, i <= j, NEW a \in new[i], NEW b \in new[j]
        PROVE  a \notin Graph!Ancestors(H, b) /\ (i < j => a # b)
    <3>1. CASE j \in DOMAIN st
      <4>1. i \in DOMAIN st BY <2>1, <2>2, <2>4, <3>1
      <4> QED BY <2>1, <2>4, <3>1, <4>1 DEF FramesApart
    <3>2. CASE j = Len(st) + 1 /\ i \in DOMAIN st
      <4>1. b \in ids /\ a \in OnFrames(st) BY <2>1, <2>4, <3>2 DEF OnFrames
      <4> QED BY <4>1
    <3>3. CASE j = Len(st) + 1 /\ i = Len(st) + 1
      <4>1. b \in ids /\ a \in ids /\ ~(i < j) BY <2>1, <2>4, <3>3
      <4> QED BY <4>1
    <3> QED BY <2>2, <3>1, <3>2, <3>3
  <2> QED BY <1>2, <2>1, <2>3, <2>4 DEF FramesApart
<1> QED BY <1>1, <1>2

\* The last frame, without what is taken from it, and the others
LEMMA PoppedOff ==
    ASSUME NEW H, NEW st \in Stack, FramesApart(H, st), st # <<>>
    PROVE  /\ Graph!Front(st) \in Stack /\ Graph!Last(st) \in SUBSET Commit /\ Graph!Last(st) # {}
           /\ OnFrames(st) = OnFrames(Graph!Front(st)) \cup Graph!Last(st)
           /\ FramesApart(H, Graph!Front(st))
           /\ \A b \in Graph!Last(st) :
                /\ \A a \in OnFrames(Graph!Front(st)) : a \notin Graph!Ancestors(H, b) /\ a # b
                /\ \A a \in Graph!Last(st) : a \notin Graph!Ancestors(H, b)
<1> DEFINE n == Len(st)
           front == Graph!Front(st)
           last == Graph!Last(st)
<1>1. /\ n \in Nat \ {0} /\ DOMAIN st = 1..n /\ DOMAIN front = 1..(n - 1)
      /\ front \in Stack /\ \A i \in 1..(n - 1) : front[i] = st[i]
      /\ last = st[n]
  <2>1. n \in Nat \ {0} /\ DOMAIN st = 1..n BY DEF Stack
  <2>2. front = SubSeq(st, 1, n - 1) /\ last = st[n] BY DEF Graph!Front, Graph!Last
  <2> QED BY <2>1, <2>2 DEF Stack
<1>2. last \in (SUBSET Commit) \ {{}}
      BY <1>1 DEF Stack
<1> HIDE DEF n, front, last
<1>3. DOMAIN st = DOMAIN front \cup {n} /\ n \in DOMAIN st /\ \A i \in DOMAIN front : i < n /\ i \in DOMAIN st
      BY <1>1
<1>4. OnFrames(st) = OnFrames(front) \cup last
      BY <1>1, <1>3 DEF OnFrames
<1>5. FramesApart(H, front)
      BY <1>1, <1>3 DEF FramesApart
<1>6. ASSUME NEW b \in last
      PROVE  /\ \A a \in OnFrames(front) : a \notin Graph!Ancestors(H, b) /\ a # b
             /\ \A a \in last : a \notin Graph!Ancestors(H, b)
  <2>1. ASSUME NEW i \in DOMAIN front, NEW a \in front[i]
        PROVE  a \notin Graph!Ancestors(H, b) /\ a # b
    <3>1. i \in DOMAIN st /\ i < n /\ i <= n /\ a \in st[i] /\ b \in st[n] /\ n \in DOMAIN st
          BY <1>1, <1>3, <2>1, <1>6
    <3> QED BY <3>1 DEF FramesApart
  <2>2. ASSUME NEW a \in last PROVE a \notin Graph!Ancestors(H, b)
    <3>1. n <= n /\ a \in st[n] /\ b \in st[n] /\ n \in DOMAIN st
          BY <1>1, <1>3, <2>2, <1>6
    <3> QED BY <3>1 DEF FramesApart
  <2> QED BY <2>1, <2>2 DEF OnFrames
<1> QED BY <1>1, <1>2, <1>4, <1>5, <1>6 DEF front, last

\* What the walk from start knows after n turns, if no commit joins an ancestor of its other
\* parents: what it has visited is on the way, its parents are visited or on the stack, and
\* each turn has visited another.
WalkFields == {"stack", "visiting", "visited", "ancestors", "verdict"}
WalkShape(s) == s = [x \in WalkFields |-> s[x]]
WalkOK(H, limit, start, n, s) ==
    /\ WalkShape(s)
    /\ s.stack \in Stack /\ s.visited \subseteq Commit /\ s.verdict \in {Graph!None, Graph!TooLarge}
    /\ s.verdict = Graph!None =>
         /\ s.visiting \ s.visited = OnFrames(s.stack) /\ OnFrames(s.stack) \cap s.visited = {}
         /\ FramesApart(H, s.stack)
         /\ Cardinality(s.visited) <= limit /\ (s.stack = <<>> \/ Cardinality(s.visited) = n)
         /\ start \in s.visited \cup OnFrames(s.stack)
         /\ s.visited \cup OnFrames(s.stack) \subseteq {start} \cup Graph!Ancestors(H, start)
         /\ \A v \in s.visited : Graph!Parents(H, v) \subseteq s.visited \cup OnFrames(s.stack)
         /\ s.ancestors = (UNION {Graph!Parents(H, v) : v \in s.visited}) \ {start}
    /\ s.verdict = Graph!TooLarge =>
         Cardinality(Graph!Ancestors(H, start) \cup {start}) > limit

\* A turn visits the id on top: its parents are on no lower place of the stack, as they are its
\* ancestors, and not the start, as there is no cycle.
LEMMA WalkKeeps ==
    ASSUME NEW H, IsHistory(H), Graph!Acyclic(H), Graph!HeadJoins(H), NEW limit \in Nat,
           NEW start \in Commit, NEW n \in Nat, NEW s, WalkOK(H, limit, start, n, s)
    PROVE  WalkOK(H, limit, start, n + 1, Graph!WalkTurn(H, limit, start, s))
<1> DEFINE cur == Graph!Max(Graph!Last(s.stack))
           front == Graph!Front(s.stack)
           last == Graph!Last(s.stack)
           rest == Graph!Pushed(front, last \ {cur})
           visited == s.visited \cup {cur}
           up == Graph!Parents(H, cur)
           pushed == up \ visited
           T == Graph!WalkTurn(H, limit, start, s)
<1> SUFFICES WalkOK(H, limit, start, n + 1, T)
      OBVIOUS
<1>1. CASE s.stack = <<>> \/ s.verdict # Graph!None
  <2>1. T = s BY <1>1 DEF Graph!WalkTurn
  <2> HIDE DEF T
  <2> QED BY <1>1, <2>1 DEF WalkOK
<1>2. CASE s.stack # <<>> /\ s.verdict = Graph!None
  <2>1. T = IF cur \in s.visited
            THEN [s EXCEPT !.stack = rest, !.visiting = @ \ {cur}]
            ELSE IF Graph!Cardinality(visited) > limit THEN [s EXCEPT !.verdict = Graph!TooLarge]
            ELSE IF cur \notin DOMAIN H THEN [s EXCEPT !.stack = rest, !.visited = visited]
            ELSE IF \E p \in up : p \in s.visiting \ visited \/ (p = start /\ cur # start)
            THEN [s EXCEPT !.verdict = Graph!Corrupt]
            ELSE [stack     |-> Graph!Pushed(rest, pushed),
                  visiting  |-> (s.visiting \cup pushed)
                                  \ (IF cur # start \/ Graph!Pushed(rest, pushed) = <<>>
                                     THEN {cur} ELSE {}),
                  visited   |-> visited,
                  ancestors |-> s.ancestors \cup (up \ {start}),
                  verdict   |-> Graph!None]
        BY <1>2 DEF Graph!WalkTurn
  <2>2. /\ WalkShape(s)
        /\ s.stack \in Stack /\ s.visited \subseteq Commit
        /\ s.visiting \ s.visited = OnFrames(s.stack) /\ OnFrames(s.stack) \cap s.visited = {}
        /\ FramesApart(H, s.stack)
        /\ Cardinality(s.visited) <= limit /\ Cardinality(s.visited) = n
        /\ start \in s.visited \cup OnFrames(s.stack)
        /\ s.visited \cup OnFrames(s.stack) \subseteq {start} \cup Graph!Ancestors(H, start)
        /\ \A v \in s.visited : Graph!Parents(H, v) \subseteq s.visited \cup OnFrames(s.stack)
        /\ s.ancestors = (UNION {Graph!Parents(H, v) : v \in s.visited}) \ {start}
        BY <1>2 DEF WalkOK
  <2>3. /\ front \in Stack /\ last \in SUBSET Commit /\ last # {}
        /\ OnFrames(s.stack) = OnFrames(front) \cup last /\ FramesApart(H, front)
        /\ \A b \in last : /\ \A a \in OnFrames(front) : a \notin Graph!Ancestors(H, b) /\ a # b
                           /\ \A a \in last : a \notin Graph!Ancestors(H, b)
        BY <1>2, <2>2, PoppedOff
  <2>4. cur \in last
        BY <2>3, MaxIn
  <2>5. cur \in Commit /\ up \subseteq Commit /\ up \subseteq Graph!Ancestors(H, cur)
        BY <2>3, <2>4, ParentsAre, AncestorsAre
  <2> HIDE DEF cur, front, last
  <2>6. /\ rest \in Stack /\ FramesApart(H, rest)
        /\ OnFrames(rest) = OnFrames(s.stack) \ {cur}
    <3>1. last \ {cur} \in SUBSET Commit
          BY <2>3
    <3>2. /\ rest \in Stack /\ OnFrames(rest) = OnFrames(front) \cup (last \ {cur})
          /\ FramesApart(H, rest)
          BY <2>3, <3>1, PushedOn
    <3>3. cur \notin OnFrames(front)
          BY <2>3, <2>4
    <3> QED BY <2>3, <3>2, <3>3
  <2> HIDE DEF rest, up
  <2>7. cur \notin s.visited
        BY <2>2, <2>3, <2>4
  <2>8. visited \subseteq Commit /\ Cardinality(visited) = n + 1
    <3>1. Cardinality(visited) = Cardinality(s.visited) + 1
          BY <2>2, <2>7, CountCommits
    <3> QED BY <2>2, <2>5, <3>1
  <2>9. /\ cur \in {start} \cup Graph!Ancestors(H, start)
        /\ up \subseteq Graph!Ancestors(H, start)
        /\ visited \subseteq {start} \cup Graph!Ancestors(H, start)
    <3>1. cur \in {start} \cup Graph!Ancestors(H, start)
          BY <2>2, <2>3, <2>4
    <3>2. up \subseteq Graph!Ancestors(H, start)
          BY <3>1, AncestorsAre, AncestorsGoOn DEF up
    <3> QED BY <2>2, <3>1, <3>2
  <2>10. \A a \in OnFrames(rest) : a \notin Graph!Ancestors(H, cur) /\ a # cur
        BY <2>3, <2>4, <2>6
  <2>11. s.visiting \ visited = OnFrames(rest) /\ OnFrames(rest) \cap visited = {}
        BY <2>2, <2>6, <2>7
  <2> HIDE DEF T, visited, pushed
  <2>12. CASE Graph!Cardinality(visited) > limit
    <3>1. T = [s EXCEPT !.verdict = Graph!TooLarge]
          BY <2>1, <2>7, <2>12
    <3>2. Cardinality(Graph!Ancestors(H, start) \cup {start}) > limit
      <4>1. Graph!Ancestors(H, start) \cup {start} \in SUBSET Commit
            BY AncestorsAre
      <4>2. Cardinality(visited) <= Cardinality(Graph!Ancestors(H, start) \cup {start})
            BY <2>9, <4>1, CountWithin
      <4>3. Cardinality(Graph!Ancestors(H, start) \cup {start}) \in Nat
            BY <4>1, CountCommits
      <4> QED BY <2>8, <2>12, <4>2, <4>3, CommitsCounted
    <3>3. WalkShape(T) /\ T.stack = s.stack /\ T.visited = s.visited /\ T.verdict = Graph!TooLarge
          BY <2>2, <3>1 DEF WalkShape, WalkFields
    <3>4. Graph!TooLarge # Graph!None
          BY DEF Graph!TooLarge, Graph!None
    <3> QED BY <2>2, <3>2, <3>3, <3>4 DEF WalkOK
  <2>13. CASE ~(Graph!Cardinality(visited) > limit)
    <3>1. Cardinality(visited) <= limit
          BY <2>8, <2>13, CommitsCounted
    <3>2. Graph!None # Graph!TooLarge
          BY DEF Graph!TooLarge, Graph!None
    <3>3. CASE cur \notin DOMAIN H
      <4>1. T = [s EXCEPT !.stack = rest, !.visited = visited]
            BY <2>1, <2>7, <2>13, <3>3
      <4>2. /\ WalkShape(T) /\ T.stack = rest /\ T.visited = visited
            /\ T.verdict = Graph!None /\ T.visiting = s.visiting /\ T.ancestors = s.ancestors
            BY <1>2, <2>2, <4>1 DEF WalkShape, WalkFields
      <4>3. up = {}
            BY <3>3, ParentsAre DEF up
      <4>4. start \in visited \cup OnFrames(rest)
            BY <2>2, <2>6 DEF visited
      <4>5. \A v \in visited : Graph!Parents(H, v) \subseteq visited \cup OnFrames(rest)
            BY <2>2, <2>6, <4>3 DEF visited, up
      <4>6. UNION {Graph!Parents(H, v) : v \in visited} = UNION {Graph!Parents(H, v) : v \in s.visited}
            BY <4>3 DEF visited, up
      <4>7. visited \cup OnFrames(rest) \subseteq {start} \cup Graph!Ancestors(H, start)
            BY <2>2, <2>6, <2>9
      <4> QED BY <2>2, <2>6, <2>8, <2>11, <3>1, <3>2, <4>2, <4>4, <4>5, <4>6, <4>7 DEF WalkOK
    <3>4. CASE cur \in DOMAIN H
      <4> DEFINE next == Graph!Pushed(rest, pushed)
      <4>1. ~ \E p \in up : p \in s.visiting \ visited \/ (p = start /\ cur # start)
        <5>1. ASSUME NEW p \in up, p \in s.visiting \ visited PROVE FALSE
              BY <2>5, <2>10, <2>11, <5>1
        <5>2. ASSUME start \in up, cur # start PROVE FALSE
          <6>1. cur \in Graph!Ancestors(H, start) BY <2>9, <5>2
          <6>2. start \in Graph!Ancestors(H, start) BY <2>9, <5>2
          <6> QED BY <6>2, NotItsOwn
        <5> QED BY <5>1, <5>2
      <4>2. /\ pushed \in SUBSET Commit
            /\ \A b \in pushed : /\ \A a \in OnFrames(rest) : a \notin Graph!Ancestors(H, b) /\ a # b
                                /\ \A a \in pushed : a \notin Graph!Ancestors(H, b)
        <5>1. pushed \in SUBSET Commit /\ pushed \subseteq up BY <2>5 DEF pushed
        <5>2. ASSUME NEW b \in pushed, NEW a \in OnFrames(rest)
              PROVE  a \notin Graph!Ancestors(H, b) /\ a # b
          <6>1. b \in Graph!Ancestors(H, cur) BY <2>5, <5>1
          <6>2. Graph!Ancestors(H, b) \subseteq Graph!Ancestors(H, cur) BY <6>1, AncestorsGoOn
          <6> QED BY <2>10, <6>1, <6>2
        <5>3. ASSUME NEW b \in pushed, NEW a \in pushed PROVE a \notin Graph!Ancestors(H, b)
          <6>1. a \in H[cur].parents /\ b \in H[cur].parents
                BY <3>4, <5>1 DEF up, Graph!Parents
          <6> QED BY <3>4, <6>1 DEF Graph!HeadJoins
        <5> QED BY <5>1, <5>2, <5>3
      <4>3. next \in Stack /\ OnFrames(next) = OnFrames(rest) \cup pushed /\ FramesApart(H, next)
            BY <2>6, <4>2, PushedOn
      <4> DEFINE gone == IF cur # start \/ next = <<>> THEN {cur} ELSE {}
      <4>4. T = [stack |-> next, visiting |-> (s.visiting \cup pushed) \ gone, visited |-> visited,
                 ancestors |-> s.ancestors \cup (up \ {start}), verdict |-> Graph!None]
            BY <2>1, <2>7, <2>13, <3>4, <4>1
      <4>5. gone \subseteq {cur}
            OBVIOUS
      <4> HIDE DEF next, gone
      <4>6. /\ WalkShape(T) /\ T.stack = next /\ T.visited = visited
            /\ T.verdict = Graph!None /\ T.visiting = (s.visiting \cup pushed) \ gone
            /\ T.ancestors = s.ancestors \cup (up \ {start})
            BY <4>4 DEF WalkShape, WalkFields
      <4>7. /\ ((s.visiting \cup pushed) \ gone) \ visited = OnFrames(next)
            /\ OnFrames(next) \cap visited = {}
            BY <2>11, <4>3, <4>5 DEF pushed, visited
      <4>8. start \in visited \cup OnFrames(next)
            BY <2>2, <2>6, <4>3 DEF visited
      <4>9. \A v \in visited : Graph!Parents(H, v) \subseteq visited \cup OnFrames(next)
        <5>1. \A v \in s.visited : Graph!Parents(H, v) \subseteq visited \cup OnFrames(next)
              BY <2>2, <2>6, <4>3 DEF visited
        <5>2. Graph!Parents(H, cur) \subseteq visited \cup OnFrames(next)
              BY <4>3 DEF pushed, up
        <5> QED BY <5>1, <5>2 DEF visited
      <4>10. s.ancestors \cup (up \ {start}) = (UNION {Graph!Parents(H, v) : v \in visited}) \ {start}
            BY <2>2 DEF visited, up
      <4>11. visited \cup OnFrames(next) \subseteq {start} \cup Graph!Ancestors(H, start)
            BY <2>2, <2>6, <2>9, <4>3 DEF pushed
      <4> QED BY <2>8, <3>1, <3>2, <4>3, <4>6, <4>7, <4>8, <4>9, <4>10, <4>11 DEF WalkOK
    <3> QED BY <3>3, <3>4
  <2> QED BY <2>12, <2>13
<1> QED BY <1>1, <1>2

WalkStarts(start) ==
    [stack |-> <<{start}>>, visiting |-> {start}, visited |-> {}, ancestors |-> {}, verdict |-> Graph!None]
\* The turns of the walk, as a function of their number
WalkTo(H, limit, start, f, m) ==
    f = [k \in 0..m |-> IF k = 0 THEN WalkStarts(start) ELSE Graph!WalkTurn(H, limit, start, f[k - 1])]

\* There is such a function for any number of turns.
LEMMA WalkGoesOn ==
    ASSUME NEW H, NEW limit, NEW start, NEW l \in Nat
    PROVE  \E f : WalkTo(H, limit, start, f, l)
<1> DEFINE Begun == WalkStarts(start)
           Turn(s) == Graph!WalkTurn(H, limit, start, s)
           K == {m \in Nat : ~ \E f : WalkTo(H, limit, start, f, m)}
<1>1. SUFFICES ASSUME K # {} PROVE FALSE
      OBVIOUS
<1>2. PICK m \in K : \A k \in K : m <= k
  <2>1. K \subseteq Nat OBVIOUS
  <2> HIDE DEF K
  <2> QED BY <1>1, <2>1, HasLeast
<1>3. m \in Nat /\ ~ \E f : WalkTo(H, limit, start, f, m)
      OBVIOUS
<1>4. \A f, k : WalkTo(H, limit, start, f, k) <=> f = [j \in 0..k |-> IF j = 0 THEN Begun ELSE Turn(f[j - 1])]
      BY DEF WalkTo
<1> HIDE DEF Begun, Turn
<1>5. m # 0
  <2> DEFINE g == [j \in {0} |-> Begun]
  <2>1. 0..0 = {0} OBVIOUS
  <2>2. g = [j \in 0..0 |-> IF j = 0 THEN Begun ELSE Turn(g[j - 1])]
        BY <2>1
  <2>3. WalkTo(H, limit, start, g, 0)
        BY <1>4, <2>2
  <2> QED BY <1>3, <2>3
<1>6. PICK f : WalkTo(H, limit, start, f, m - 1)
  <2>1. m - 1 \in Nat /\ ~(m <= m - 1) BY <1>3, <1>5
  <2>2. m - 1 \notin K
    <3> HIDE DEF K
    <3> QED BY <1>2, <2>1
  <2> QED BY <2>1, <2>2
<1> DEFINE g == [k \in 0..m |-> IF k = m THEN Turn(f[m - 1]) ELSE f[k]]
<1>7. f = [j \in 0..(m - 1) |-> IF j = 0 THEN Begun ELSE Turn(f[j - 1])]
      BY <1>4, <1>6
<1>8. ASSUME NEW k \in 0..m
      PROVE  g[k] = IF k = 0 THEN Begun ELSE Turn(g[k - 1])
  <2>1. CASE k = m
    <3>1. m - 1 \in 0..m /\ m - 1 # m /\ m \in 0..m /\ m # 0 BY <1>3, <1>5
    <3>2. g[k] = Turn(f[m - 1]) /\ g[m - 1] = f[m - 1] BY <2>1, <3>1
    <3> QED BY <2>1, <3>1, <3>2
  <2>2. CASE k # m
    <3>1. k \in 0..(m - 1) /\ (k # 0 => k - 1 \in 0..m /\ k - 1 # m) BY <1>3, <2>2
    <3>2. f[k] = IF k = 0 THEN Begun ELSE Turn(f[k - 1])
          BY <1>7, <3>1
    <3>3. g[k] = f[k] /\ (k # 0 => g[k - 1] = f[k - 1]) BY <2>2, <3>1
    <3> QED BY <3>2, <3>3
  <2> QED BY <2>1, <2>2
<1>9. WalkTo(H, limit, start, g, m)
  <2>1. g = [k \in 0..m |-> g[k]] OBVIOUS
  <2> HIDE DEF g
  <2>2. g = [k \in 0..m |-> IF k = 0 THEN Begun ELSE Turn(g[k - 1])] BY <1>8, <2>1
  <2> QED BY <1>4, <2>2
<1> QED BY <1>3, <1>9

\* The turns are what the function says.
LEMMA WalkTurnsAre ==
    ASSUME NEW H, NEW limit, NEW start
    PROVE  WalkTo(H, limit, start, Graph!WalkTurns(H, limit, start), Cardinality(Commit))
<1> DEFINE m == Graph!Cardinality(Commit)
<1>1. m = Cardinality(Commit) /\ m \in Nat
      BY CommitsCounted
<1>2. \E f : f = [n \in 0..m |-> IF n = 0 THEN WalkStarts(start) ELSE Graph!WalkTurn(H, limit, start, f[n - 1])]
  <2> HIDE DEF m
  <2>1. PICK f : WalkTo(H, limit, start, f, m) BY <1>1, WalkGoesOn
  <2>2. f = [n \in 0..m |-> IF n = 0 THEN WalkStarts(start) ELSE Graph!WalkTurn(H, limit, start, f[n - 1])]
        BY <2>1 DEF WalkTo
  <2> QED BY <2>2
<1>3. WalkTo(H, limit, start, Graph!WalkTurns(H, limit, start), m)
      BY <1>2 DEF WalkTo, Graph!WalkTurns, WalkStarts
<1> QED BY <1>1, <1>3

\* Before the first turn only the start is on the stack.
LEMMA WalkBegins ==
    ASSUME NEW H, IsHistory(H), Graph!Acyclic(H), NEW limit \in Nat \ {0}, NEW start \in Commit
    PROVE  WalkOK(H, limit, start, 0, WalkStarts(start))
<1> DEFINE S == WalkStarts(start)
<1>1. /\ S.stack = <<{start}>> /\ S.visiting = {start} /\ S.visited = {} /\ S.ancestors = {}
      /\ S.verdict = Graph!None /\ WalkShape(S)
      BY DEF WalkStarts, WalkShape, WalkFields
<1> HIDE DEF S
<1>2. /\ <<{start}>> \in Stack /\ DOMAIN <<{start}>> = {1} /\ <<{start}>>[1] = {start}
      BY DEF Stack
<1>3. OnFrames(<<{start}>>) = {start}
      BY <1>2 DEF OnFrames
<1>4. FramesApart(H, <<{start}>>)
      BY <1>2, NotItsOwn DEF FramesApart
<1>5. Cardinality({}) = 0 /\ Graph!None # Graph!TooLarge
      BY FS_EmptySet DEF Graph!None, Graph!TooLarge
<1>6. WalkOK(H, limit, start, 0, S)
      BY <1>1, <1>2, <1>3, <1>4, <1>5 DEF WalkOK
<1> QED BY <1>6 DEF S

\* At the end everything on the way is visited, or there is too much of it.
LEMMA WalkExact ==
    ASSUME NEW H, IsHistory(H), Graph!Acyclic(H), Graph!HeadJoins(H), NEW limit \in Nat \ {0},
           NEW start \in Commit
    PROVE  Graph!CollectAncestors(H, start, limit) =
             Graph!Outcome(IF Cardinality(Graph!Ancestors(H, start) \cup {start}) <= limit
                           THEN Graph!None ELSE Graph!TooLarge, Graph!Ancestors(H, start))
<1> DEFINE f == Graph!WalkTurns(H, limit, start)
           m == Cardinality(Commit)
           anc == Graph!Ancestors(H, start)
           K == {k \in 0..m : ~WalkOK(H, limit, start, k, f[k])}
           s == f[m]
<1>1. WalkTo(H, limit, start, f, m) /\ m \in Nat
      BY WalkTurnsAre, CommitsCounted
<1>2. \A k \in 0..m : f[k] = IF k = 0 THEN WalkStarts(start) ELSE Graph!WalkTurn(H, limit, start, f[k - 1])
  <2> HIDE DEF f
  <2> QED BY <1>1 DEF WalkTo
<1>3. Graph!CollectAncestors(H, start, limit) = Graph!Outcome(s.verdict, s.ancestors)
      BY CommitsCounted DEF Graph!CollectAncestors
<1> HIDE DEF f, m
<1>4. K = {}
  <2>1. SUFFICES ASSUME K # {} PROVE FALSE OBVIOUS
  <2>2. PICK k \in K : \A j \in K : k <= j
    <3>1. K \subseteq Nat BY <1>1
    <3> HIDE DEF K
    <3> QED BY <2>1, <3>1, HasLeast
  <2>3. k \in 0..m /\ k \in Nat /\ ~WalkOK(H, limit, start, k, f[k])
        BY <1>1
  <2>4. k # 0
        BY <1>1, <1>2, <2>3, WalkBegins
  <2>5. k - 1 \in 0..m /\ k - 1 \notin K /\ k - 1 \in Nat
    <3>1. k - 1 \in 0..m /\ ~(k <= k - 1) /\ k - 1 \in Nat BY <1>1, <2>3, <2>4
    <3> HIDE DEF K
    <3> QED BY <2>2, <3>1
  <2>6. WalkOK(H, limit, start, k - 1, f[k - 1])
        BY <2>5
  <2>7. WalkOK(H, limit, start, (k - 1) + 1, Graph!WalkTurn(H, limit, start, f[k - 1]))
        BY <2>5, <2>6, WalkKeeps
  <2>8. (k - 1) + 1 = k /\ f[k] = Graph!WalkTurn(H, limit, start, f[k - 1])
        BY <1>2, <2>3, <2>4
  <2> QED BY <2>3, <2>7, <2>8
<1>5. WalkOK(H, limit, start, m, s)
      BY <1>1, <1>4
<1> HIDE DEF s
<1>6. anc \in SUBSET Commit /\ anc \cup {start} \in SUBSET Commit /\ start \notin anc
      BY AncestorsAre, NotItsOwn
<1>7. Cardinality(anc \cup {start}) \in Nat
      BY <1>6, CountCommits
<1>8. Graph!None # Graph!TooLarge
      BY DEF Graph!None, Graph!TooLarge
<1>9. CASE s.verdict = Graph!TooLarge
  <2>1. Cardinality(anc \cup {start}) > limit
        BY <1>5, <1>9 DEF WalkOK
  <2>2. ~(Cardinality(anc \cup {start}) <= limit)
        BY <1>7, <2>1
  <2>3. \A A, B : Graph!Outcome(Graph!TooLarge, A) = Graph!Outcome(Graph!TooLarge, B)
        BY <1>8 DEF Graph!Outcome
  <2> QED BY <1>3, <1>9, <2>2, <2>3
<1>10. CASE s.verdict = Graph!None
  <2>1. /\ s.visited \subseteq Commit /\ s.stack \in Stack
        /\ OnFrames(s.stack) \cap s.visited = {}
        /\ Cardinality(s.visited) <= limit /\ (s.stack = <<>> \/ Cardinality(s.visited) = m)
        /\ start \in s.visited \cup OnFrames(s.stack)
        /\ s.visited \cup OnFrames(s.stack) \subseteq {start} \cup anc
        /\ \A v \in s.visited : Graph!Parents(H, v) \subseteq s.visited \cup OnFrames(s.stack)
        /\ s.ancestors = (UNION {Graph!Parents(H, v) : v \in s.visited}) \ {start}
        BY <1>5, <1>10 DEF WalkOK
  <2>2. OnFrames(s.stack) = {}
    <3>1. CASE s.stack = <<>>
          BY <3>1 DEF OnFrames
    <3>2. CASE Cardinality(s.visited) = m
      <4>1. s.visited = Commit BY <2>1, <3>2, CountCommits DEF m
      <4>2. OnFrames(s.stack) \subseteq Commit BY <1>6, <2>1
      <4> QED BY <2>1, <4>1, <4>2
    <3> QED BY <2>1, <3>1, <3>2
  <2>3. anc \subseteq s.visited
        BY <2>1, <2>2, AncestorsAre DEF Graph!Closed
  <2>4. s.visited = anc \cup {start}
        BY <2>1, <2>2, <2>3
  <2> DEFINE U == UNION {Graph!Parents(H, v) : v \in s.visited}
  <2>5. U = anc
    <3>1. U \subseteq anc
          BY <2>4, AncestorsAre, AncestorsGoOn
    <3>2. anc \subseteq U
      <4>1. U \in SUBSET Commit /\ Graph!Parents(H, start) \subseteq U
            BY <1>6, <2>4, <3>1
      <4>2. Graph!Closed(H, U)
            BY <2>4, <3>1 DEF Graph!Closed
      <4> HIDE DEF U
      <4> QED BY <4>1, <4>2, AncestorsAre
    <3> QED BY <3>1, <3>2
  <2>6. s.ancestors = anc
    <3> HIDE DEF U
    <3>1. s.ancestors = U \ {start} BY <2>1 DEF U
    <3> QED BY <1>6, <2>5, <3>1
  <2> QED BY <1>3, <1>10, <2>1, <2>4, <2>6
<1> QED BY <1>5, <1>9, <1>10 DEF WalkOK

------------------------------------------------------------------------------
\* The search for cycles of detectCycle

\* What the search knows after n turns: on the path each id is an ancestor of those before it,
\* what is done is closed and has no cycle, and each turn calls or returns.
VisitFields == {"path", "done", "cyclic"}
VisitShape(s) == s = [x \in VisitFields |-> s[x]]
OnPath(p) == {p[i] : i \in DOMAIN p}
PathOK(H, p) == \A i, j \in DOMAIN p : i < j => p[j] \in Graph!Ancestors(H, p[i])
VisitOK(H, n, s) ==
    /\ VisitShape(s)
    /\ s.path \in Seq(Commit) /\ s.done \subseteq Commit /\ s.cyclic \in BOOLEAN
    /\ s.cyclic => \E c \in DOMAIN H : c \in Graph!Ancestors(H, c)
    /\ ~s.cyclic =>
         /\ PathOK(H, s.path) /\ OnPath(s.path) \cap s.done = {}
         /\ Cardinality(s.done \cup OnPath(s.path)) = Cardinality(s.done) + Len(s.path)
         /\ Graph!Closed(H, s.done) /\ \A d \in s.done : d \notin Graph!Ancestors(H, d)
         /\ \/ s.path = <<>> /\ DOMAIN H \subseteq s.done
            \/ 2 * Cardinality(s.done) + Len(s.path) = n

\* A call puts an id on the path that is a parent of the last one.
LEMMA VisitCalls ==
    ASSUME NEW H, IsHistory(H), NEW n \in Nat, NEW s, VisitOK(H, n, s), ~s.cyclic,
           NEW p \in Commit, p \notin s.done, p \notin OnPath(s.path),
           s.path # <<>> => p \in Graph!Parents(H, Graph!Last(s.path)),
           ~(s.path = <<>> /\ DOMAIN H \subseteq s.done)
    PROVE  VisitOK(H, n + 1, [s EXCEPT !.path = Append(@, p)])
<1> DEFINE T == [s EXCEPT !.path = Append(@, p)]
           path == s.path
           new == Append(path, p)
           l == Len(path)
<1>1. /\ VisitShape(s) /\ path \in Seq(Commit) /\ s.done \subseteq Commit
      /\ PathOK(H, path) /\ OnPath(path) \cap s.done = {}
      /\ Cardinality(s.done \cup OnPath(path)) = Cardinality(s.done) + l
      /\ Graph!Closed(H, s.done) /\ \A d \in s.done : d \notin Graph!Ancestors(H, d)
      /\ 2 * Cardinality(s.done) + l = n /\ s.cyclic = FALSE
      BY DEF VisitOK
<1>2. VisitShape(T) /\ T.path = new /\ T.done = s.done /\ T.cyclic = FALSE
      BY <1>1 DEF VisitShape, VisitFields
<1>3. /\ new \in Seq(Commit) /\ new # <<>> /\ l \in Nat /\ Len(new) = l + 1
      /\ DOMAIN path = 1..l /\ DOMAIN new = 1..(l + 1)
      /\ \A i \in DOMAIN path : new[i] = path[i]
      /\ new[l + 1] = p
      BY <1>1
<1>4. path # <<>> => l \in DOMAIN path /\ p \in Graph!Parents(H, path[l])
      BY <1>3 DEF Graph!Last
<1> HIDE DEF T, new, path, l
<1>5. DOMAIN new = DOMAIN path \cup {l + 1} /\ \A i \in DOMAIN path : i <= l
      BY <1>3
<1>6. OnPath(new) = OnPath(path) \cup {p}
      BY <1>3, <1>5 DEF OnPath
<1>7. PathOK(H, new)
  <2> SUFFICES ASSUME NEW i \in DOMAIN new, NEW j \in DOMAIN new, i < j
               PROVE  new[j] \in Graph!Ancestors(H, new[i])
      BY DEF PathOK
  <2>1. i \in DOMAIN path
        BY <1>3, <1>5
  <2>2. CASE j \in DOMAIN path
        BY <1>1, <1>3, <2>1, <2>2 DEF PathOK
  <2>3. CASE j = l + 1
    <3>1. path # <<>> BY <1>3, <2>1
    <3>2. l \in DOMAIN path /\ p \in Graph!Parents(H, path[l]) /\ new[j] = p /\ new[i] = path[i]
          BY <1>3, <1>4, <2>1, <2>3, <3>1
    <3>3. CASE i = l
          BY <3>2, <3>3, AncestorsAre
    <3>4. CASE i # l
      <4>1. i < l BY <1>3, <1>5, <2>1, <3>4
      <4>2. path[l] \in Graph!Ancestors(H, path[i]) BY <1>1, <2>1, <3>2, <4>1 DEF PathOK
      <4> QED BY <3>2, <4>2, AncestorsGoOn
    <3> QED BY <3>3, <3>4
  <2> QED BY <1>5, <2>2, <2>3
<1>8. Cardinality(s.done \cup OnPath(new)) = Cardinality(s.done) + Len(new)
  <2>1. OnPath(path) \subseteq Commit
        BY <1>1 DEF OnPath
  <2>2. s.done \cup OnPath(new) = (s.done \cup OnPath(path)) \cup {p}
        BY <1>6
  <2>3. s.done \cup OnPath(path) \in SUBSET Commit /\ p \notin s.done \cup OnPath(path)
        BY <1>1, <2>1 DEF path
  <2>4. Cardinality((s.done \cup OnPath(path)) \cup {p}) = Cardinality(s.done \cup OnPath(path)) + 1
        BY <2>3, CountCommits
  <2>5. Cardinality(s.done) \in Nat
        BY <1>1, CountCommits
  <2>6. Cardinality(s.done \cup OnPath(new)) = Cardinality(s.done \cup OnPath(path)) + 1
        BY <2>2, <2>4
  <2> QED BY <1>1, <1>3, <2>5, <2>6
<1>9. 2 * Cardinality(s.done) + Len(new) = n + 1
  <2>1. Cardinality(s.done) \in Nat
        BY <1>1, CountCommits
  <2> QED BY <1>1, <1>3, <2>1
<1>10. OnPath(new) \cap s.done = {}
      BY <1>1, <1>6
<1>11. VisitOK(H, n + 1, T)
      BY <1>1, <1>2, <1>3, <1>7, <1>8, <1>9, <1>10 DEF VisitOK
<1> QED BY <1>11 DEF T

\* A return takes the last one from the path, all of whose parents are done.
LEMMA VisitEnds ==
    ASSUME NEW H, IsHistory(H), NEW n \in Nat, NEW s, VisitOK(H, n, s), ~s.cyclic, s.path # <<>>,
           Graph!Parents(H, Graph!Last(s.path)) \subseteq s.done
    PROVE  VisitOK(H, n + 1, [s EXCEPT !.path = Graph!Front(@), !.done = @ \cup {Graph!Last(s.path)}])
<1> DEFINE T == [s EXCEPT !.path = Graph!Front(@), !.done = @ \cup {Graph!Last(s.path)}]
           path == s.path
           new == Graph!Front(path)
           l == Len(path)
           c == Graph!Last(path)
           done == s.done \cup {c}
<1>1. /\ VisitShape(s) /\ path \in Seq(Commit) /\ s.done \subseteq Commit
      /\ PathOK(H, path) /\ OnPath(path) \cap s.done = {}
      /\ Cardinality(s.done \cup OnPath(path)) = Cardinality(s.done) + l
      /\ Graph!Closed(H, s.done) /\ \A d \in s.done : d \notin Graph!Ancestors(H, d)
      /\ 2 * Cardinality(s.done) + l = n /\ s.cyclic = FALSE
      BY DEF VisitOK
<1>2. VisitShape(T) /\ T.path = new /\ T.done = done /\ T.cyclic = FALSE
      BY <1>1 DEF VisitShape, VisitFields
<1>3. /\ l \in Nat \ {0} /\ DOMAIN path = 1..l /\ c = path[l] /\ c \in Commit
      /\ new \in Seq(Commit) /\ Len(new) = l - 1 /\ DOMAIN new = 1..(l - 1)
      /\ \A i \in 1..(l - 1) : new[i] = path[i]
  <2>1. l \in Nat \ {0} /\ DOMAIN path = 1..l BY <1>1
  <2>2. new = SubSeq(path, 1, l - 1) /\ c = path[l] BY DEF Graph!Front, Graph!Last
  <2>3. c \in Commit BY <1>1, <2>1, <2>2
  <2> QED BY <1>1, <2>1, <2>2, <2>3
<1> HIDE DEF T, new, path, l, c
<1>4. DOMAIN path = DOMAIN new \cup {l} /\ l \in DOMAIN path /\ \A i \in DOMAIN new : i < l
      BY <1>3
<1>5. OnPath(path) = OnPath(new) \cup {c}
      BY <1>3, <1>4 DEF OnPath
<1>6. c \notin s.done
      BY <1>1, <1>5
<1>7. PathOK(H, new)
      BY <1>1, <1>3, <1>4 DEF PathOK
<1>8. OnPath(path) \subseteq Commit
      BY <1>1 DEF OnPath
<1>9. Cardinality(done) = Cardinality(s.done) + 1 /\ Cardinality(s.done) \in Nat /\ done \subseteq Commit
  <2>1. s.done \in SUBSET Commit
        BY <1>1
  <2>2. Cardinality(s.done \cup {c}) = Cardinality(s.done) + 1 /\ Cardinality(s.done) \in Nat
        BY <1>6, <2>1, CountCommits
  <2> QED BY <1>3, <2>1, <2>2
<1>10. done \cup OnPath(new) = s.done \cup OnPath(path)
      BY <1>5
<1>11. Cardinality(done \cup OnPath(new)) = Cardinality(done) + Len(new)
  <2>1. Cardinality(done \cup OnPath(new)) = Cardinality(s.done \cup OnPath(path))
        BY <1>10
  <2> HIDE DEF done
  <2> QED BY <1>1, <1>3, <1>9, <2>1
<1>12. OnPath(new) \cap done = {}
  <2>1. ASSUME c \in OnPath(new) PROVE FALSE
    <3>1. OnPath(path) = OnPath(new) BY <1>5, <2>1
    <3>2. done \cup OnPath(new) = s.done \cup OnPath(new) BY <1>10, <3>1
    <3>3. PICK i \in DOMAIN new : new[i] = c BY <2>1 DEF OnPath
    <3>4. path[l] \in Graph!Ancestors(H, path[i]) /\ path[i] = c /\ path[l] = c
          BY <1>1, <1>3, <1>4, <3>3 DEF PathOK
    <3>5. Graph!Ancestors(H, c) \subseteq s.done
          BY <1>1, AncestorsAre DEF path, c
    <3> QED BY <1>6, <3>4, <3>5
  <2> QED BY <1>1, <1>5, <2>1
<1>13. Graph!Parents(H, c) \subseteq s.done
      BY DEF c, path
<1>14. Graph!Closed(H, done)
      BY <1>1, <1>13 DEF Graph!Closed
<1>15. \A d \in done : d \notin Graph!Ancestors(H, d)
  <2>1. Graph!Ancestors(H, c) \subseteq s.done
        BY <1>1, <1>13, AncestorsAre
  <2> QED BY <1>1, <1>6, <2>1
<1>16. 2 * Cardinality(done) + Len(new) = n + 1
      BY <1>1, <1>3, <1>9
<1> HIDE DEF done
<1>17. VisitOK(H, n + 1, T)
      BY <1>1, <1>2, <1>3, <1>7, <1>9, <1>11, <1>12, <1>14, <1>15, <1>16 DEF VisitOK
<1> QED BY <1>17 DEF T, path, c, done

\* A turn calls, returns, ends, or has found a cycle: the id on the path is its own ancestor.
LEMMA VisitTurnKeeps ==
    ASSUME NEW H, IsHistory(H), NEW n \in Nat, NEW s, VisitOK(H, n, s)
    PROVE  VisitOK(H, n + 1, Graph!VisitTurn(H, s))
<1> DEFINE open == (IF s.path = <<>> THEN DOMAIN H ELSE Graph!Parents(H, Graph!Last(s.path))) \ s.done
           p == Graph!Min(open)
           T == Graph!VisitTurn(H, s)
<1> SUFFICES VisitOK(H, n + 1, T)
    OBVIOUS
<1>1. T = IF s.cyclic THEN s
          ELSE IF open = {} THEN
               IF s.path = <<>> THEN s
               ELSE [s EXCEPT !.path = Graph!Front(@), !.done = @ \cup {Graph!Last(s.path)}]
          ELSE IF p \in OnPath(s.path) THEN [s EXCEPT !.cyclic = TRUE]
          ELSE [s EXCEPT !.path = Append(@, p)]
      BY DEF Graph!VisitTurn, Graph!Range, OnPath
<1>2. open \in SUBSET Commit
      BY ParentsAre DEF IsHistory
<1>3. open # {} => p \in open
      BY <1>2, MinIn
<1>4. open \cap s.done = {} /\ (s.path = <<>> => (open = {} <=> DOMAIN H \subseteq s.done))
      OBVIOUS
<1>5. s.path # <<>> => open = Graph!Parents(H, Graph!Last(s.path)) \ s.done
      OBVIOUS
<1> HIDE DEF T, p, open
<1>6. CASE s.cyclic
  <2>1. T = s BY <1>1, <1>6
  <2> QED BY <1>6, <2>1 DEF VisitOK
<1>7. CASE ~s.cyclic /\ open = {} /\ s.path = <<>>
  <2>1. T = s BY <1>1, <1>7
  <2> QED BY <1>4, <1>7, <2>1 DEF VisitOK
<1>8. CASE ~s.cyclic /\ open = {} /\ s.path # <<>>
      BY <1>1, <1>5, <1>8, VisitEnds
<1>9. CASE ~s.cyclic /\ open # {} /\ p \in OnPath(s.path)
  <2>1. T = [s EXCEPT !.cyclic = TRUE] BY <1>1, <1>9
  <2>2. /\ VisitShape(s) /\ s.path \in Seq(Commit) /\ s.done \subseteq Commit /\ PathOK(H, s.path)
        BY <1>9 DEF VisitOK
  <2>3. VisitShape(T) /\ T.path = s.path /\ T.done = s.done /\ T.cyclic = TRUE
        BY <2>1, <2>2 DEF VisitShape, VisitFields
  <2>4. PICK i \in DOMAIN s.path : s.path[i] = p
        BY <1>9 DEF OnPath
  <2>5. Len(s.path) \in DOMAIN s.path /\ DOMAIN s.path = 1..Len(s.path) /\ s.path # <<>> /\ Len(s.path) \in Nat
        BY <2>2, <2>4
  <2>6. p \in Graph!Parents(H, s.path[Len(s.path)])
        BY <1>3, <1>5, <1>9, <2>5 DEF Graph!Last
  <2>7. p \in Graph!Ancestors(H, p)
    <3>1. CASE i = Len(s.path)
          BY <2>4, <2>6, <3>1, AncestorsAre
    <3>2. CASE i # Len(s.path)
      <4>1. i < Len(s.path) BY <2>5, <3>2
      <4>2. s.path[Len(s.path)] \in Graph!Ancestors(H, p) BY <2>2, <2>4, <2>5, <4>1 DEF PathOK
      <4> QED BY <2>6, <4>2, AncestorsGoOn
    <3> QED BY <3>1, <3>2
  <2>8. p \in DOMAIN H
        BY <2>7, NoneOfTheMissing
  <2> QED BY <2>2, <2>3, <2>7, <2>8 DEF VisitOK
<1>10. CASE ~s.cyclic /\ open # {} /\ p \notin OnPath(s.path)
      BY <1>1, <1>2, <1>3, <1>4, <1>5, <1>10, VisitCalls
<1> QED BY <1>6, <1>7, <1>8, <1>9, <1>10

VisitStarts == [path |-> <<>>, done |-> {}, cyclic |-> FALSE]
\* The turns of the search for cycles, as a function of their number
VisitTo(H, f, m) ==
    f = [k \in 0..m |-> IF k = 0 THEN VisitStarts ELSE Graph!VisitTurn(H, f[k - 1])]

\* There is such a function for any number of turns.
LEMMA VisitGoesOn ==
    ASSUME NEW H, NEW l \in Nat
    PROVE  \E f : VisitTo(H, f, l)
<1> DEFINE Begun == VisitStarts
           Turn(s) == Graph!VisitTurn(H, s)
           K == {m \in Nat : ~ \E f : VisitTo(H, f, m)}
<1>1. SUFFICES ASSUME K # {} PROVE FALSE
      OBVIOUS
<1>2. PICK m \in K : \A k \in K : m <= k
  <2>1. K \subseteq Nat OBVIOUS
  <2> HIDE DEF K
  <2> QED BY <1>1, <2>1, HasLeast
<1>3. m \in Nat /\ ~ \E f : VisitTo(H, f, m)
      OBVIOUS
<1>4. \A f, k : VisitTo(H, f, k) <=> f = [j \in 0..k |-> IF j = 0 THEN Begun ELSE Turn(f[j - 1])]
      BY DEF VisitTo
<1> HIDE DEF Begun, Turn
<1>5. m # 0
  <2> DEFINE g == [j \in {0} |-> Begun]
  <2>1. 0..0 = {0} OBVIOUS
  <2>2. g = [j \in 0..0 |-> IF j = 0 THEN Begun ELSE Turn(g[j - 1])]
        BY <2>1
  <2>3. VisitTo(H, g, 0)
        BY <1>4, <2>2
  <2> QED BY <1>3, <2>3
<1>6. PICK f : VisitTo(H, f, m - 1)
  <2>1. m - 1 \in Nat /\ ~(m <= m - 1) BY <1>3, <1>5
  <2>2. m - 1 \notin K
    <3> HIDE DEF K
    <3> QED BY <1>2, <2>1
  <2> QED BY <2>1, <2>2
<1> DEFINE g == [k \in 0..m |-> IF k = m THEN Turn(f[m - 1]) ELSE f[k]]
<1>7. f = [j \in 0..(m - 1) |-> IF j = 0 THEN Begun ELSE Turn(f[j - 1])]
      BY <1>4, <1>6
<1>8. ASSUME NEW k \in 0..m
      PROVE  g[k] = IF k = 0 THEN Begun ELSE Turn(g[k - 1])
  <2>1. CASE k = m
    <3>1. m - 1 \in 0..m /\ m - 1 # m /\ m \in 0..m /\ m # 0 BY <1>3, <1>5
    <3>2. g[k] = Turn(f[m - 1]) /\ g[m - 1] = f[m - 1] BY <2>1, <3>1
    <3> QED BY <2>1, <3>1, <3>2
  <2>2. CASE k # m
    <3>1. k \in 0..(m - 1) /\ (k # 0 => k - 1 \in 0..m /\ k - 1 # m) BY <1>3, <2>2
    <3>2. f[k] = IF k = 0 THEN Begun ELSE Turn(f[k - 1])
          BY <1>7, <3>1
    <3>3. g[k] = f[k] /\ (k # 0 => g[k - 1] = f[k - 1]) BY <2>2, <3>1
    <3> QED BY <3>2, <3>3
  <2> QED BY <2>1, <2>2
<1>9. VisitTo(H, g, m)
  <2>1. g = [k \in 0..m |-> g[k]] OBVIOUS
  <2> HIDE DEF g
  <2>2. g = [k \in 0..m |-> IF k = 0 THEN Begun ELSE Turn(g[k - 1])] BY <1>8, <2>1
  <2> QED BY <1>4, <2>2
<1> QED BY <1>3, <1>9

\* The turns are what the function says.
LEMMA VisitTurnsAre ==
    ASSUME NEW H
    PROVE  VisitTo(H, Graph!VisitTurns(H), 2 * Cardinality(Commit))
<1> DEFINE m == 2 * Graph!Cardinality(Commit)
<1>1. m = 2 * Cardinality(Commit) /\ m \in Nat
      BY CommitsCounted
<1>2. \E f : f = [n \in 0..m |-> IF n = 0 THEN VisitStarts ELSE Graph!VisitTurn(H, f[n - 1])]
  <2> HIDE DEF m
  <2>1. PICK f : VisitTo(H, f, m) BY <1>1, VisitGoesOn
  <2>2. f = [n \in 0..m |-> IF n = 0 THEN VisitStarts ELSE Graph!VisitTurn(H, f[n - 1])]
        BY <2>1 DEF VisitTo
  <2> QED BY <2>2
<1>3. VisitTo(H, Graph!VisitTurns(H), m)
      BY <1>2 DEF VisitTo, Graph!VisitTurns, VisitStarts
<1> QED BY <1>1, <1>3

\* Before the first turn nothing is called.
LEMMA VisitBegins ==
    ASSUME NEW H, IsHistory(H)
    PROVE  VisitOK(H, 0, VisitStarts)
<1> DEFINE S == VisitStarts
<1>1. S.path = <<>> /\ S.done = {} /\ S.cyclic = FALSE /\ VisitShape(S)
      BY DEF VisitStarts, VisitShape, VisitFields
<1> HIDE DEF S
<1>2. <<>> \in Seq(Commit) /\ DOMAIN <<>> = {} /\ Len(<<>>) = 0
      OBVIOUS
<1>3. OnPath(<<>>) = {} /\ PathOK(H, <<>>)
      BY <1>2 DEF OnPath, PathOK
<1>4. Cardinality({}) = 0
      BY FS_EmptySet
<1>5. Graph!Closed(H, {})
      BY DEF Graph!Closed
<1>6. Cardinality(S.done \cup OnPath(S.path)) = Cardinality(S.done) + Len(S.path)
  <2>1. {} \cup OnPath(<<>>) = {}
        BY <1>3
  <2>2. Cardinality({} \cup OnPath(<<>>)) = 0
        BY <1>4, <2>1
  <2> QED BY <1>1, <1>2, <1>4, <2>2
<1>7. 2 * Cardinality(S.done) + Len(S.path) = 0
      BY <1>1, <1>2, <1>4
<1>8. VisitOK(H, 0, S)
      BY <1>1, <1>2, <1>3, <1>5, <1>6, <1>7 DEF VisitOK
<1> QED BY <1>8 DEF S

\* The search ends with a cycle, or with every commit done and none found.
LEMMA CyclesFound ==
    ASSUME NEW H, IsHistory(H)
    PROVE  Graph!DetectCycle(H) <=> ~Graph!Acyclic(H)
<1> DEFINE f == Graph!VisitTurns(H)
           m == 2 * Cardinality(Commit)
           K == {k \in 0..m : ~VisitOK(H, k, f[k])}
           s == f[m]
<1>1. VisitTo(H, f, m) /\ m \in Nat
      BY VisitTurnsAre, CommitsCounted
<1>2. \A k \in 0..m : f[k] = IF k = 0 THEN VisitStarts ELSE Graph!VisitTurn(H, f[k - 1])
  <2> HIDE DEF f
  <2> QED BY <1>1 DEF VisitTo
<1>3. Graph!DetectCycle(H) = s.cyclic
      BY CommitsCounted DEF Graph!DetectCycle
<1> HIDE DEF f, m
<1>4. K = {}
  <2>1. SUFFICES ASSUME K # {} PROVE FALSE OBVIOUS
  <2>2. PICK k \in K : \A j \in K : k <= j
    <3>1. K \subseteq Nat BY <1>1
    <3> HIDE DEF K
    <3> QED BY <2>1, <3>1, HasLeast
  <2>3. k \in 0..m /\ k \in Nat /\ ~VisitOK(H, k, f[k])
        BY <1>1
  <2>4. k # 0
        BY <1>1, <1>2, <2>3, VisitBegins
  <2>5. k - 1 \in 0..m /\ k - 1 \notin K /\ k - 1 \in Nat
    <3>1. k - 1 \in 0..m /\ ~(k <= k - 1) /\ k - 1 \in Nat BY <1>1, <2>3, <2>4
    <3> HIDE DEF K
    <3> QED BY <2>2, <3>1
  <2>6. VisitOK(H, k - 1, f[k - 1])
        BY <2>5
  <2>7. VisitOK(H, (k - 1) + 1, Graph!VisitTurn(H, f[k - 1]))
        BY <2>5, <2>6, VisitTurnKeeps
  <2>8. (k - 1) + 1 = k /\ f[k] = Graph!VisitTurn(H, f[k - 1])
        BY <1>2, <2>3, <2>4
  <2> QED BY <2>3, <2>7, <2>8
<1>5. VisitOK(H, m, s)
      BY <1>1, <1>4
<1> HIDE DEF s
<1>6. CASE s.cyclic
      BY <1>3, <1>5, <1>6 DEF VisitOK, Graph!Acyclic
<1>7. CASE ~s.cyclic
  <2>1. /\ s.path \in Seq(Commit) /\ s.done \subseteq Commit
        /\ Cardinality(s.done \cup OnPath(s.path)) = Cardinality(s.done) + Len(s.path)
        /\ \A d \in s.done : d \notin Graph!Ancestors(H, d)
        /\ \/ s.path = <<>> /\ DOMAIN H \subseteq s.done
           \/ 2 * Cardinality(s.done) + Len(s.path) = m
        BY <1>5, <1>7 DEF VisitOK
  <2>2. DOMAIN H \subseteq s.done
    <3>1. CASE 2 * Cardinality(s.done) + Len(s.path) = m
      <4>1. OnPath(s.path) \subseteq Commit
            BY <2>1 DEF OnPath
      <4>2. Cardinality(s.done \cup OnPath(s.path)) <= Cardinality(Commit)
            BY <2>1, <4>1, CountCommits
      <4>3. Cardinality(s.done) \in Nat /\ Len(s.path) \in Nat /\ Cardinality(Commit) \in Nat
            BY <2>1, CountCommits, CommitsCounted
      <4>4. Cardinality(s.done) <= Cardinality(Commit)
            BY <2>1, CountCommits
      <4>5. Cardinality(s.done) = Cardinality(Commit)
            BY <2>1, <3>1, <4>2, <4>3, <4>4 DEF m
      <4>6. s.done = Commit
            BY <2>1, <4>5, CountCommits
      <4> QED BY <4>6 DEF IsHistory
    <3> QED BY <2>1, <3>1
  <2> QED BY <1>3, <1>7, <2>1, <2>2 DEF Graph!Acyclic
<1> QED BY <1>5, <1>6, <1>7 DEF VisitOK

------------------------------------------------------------------------------
\* The search from the heads of collectReachableCommits

\* What the search knows after n turns: everything seen or queued is of the lineage, what is
\* seen is there, its parents are seen or queued, and each turn has seen another.
ReachFields == {"queue", "seen", "verdict"}
ReachShape(s) == s = [x \in ReachFields |-> s[x]]
ReachOK(H, limit, heads, n, s) ==
    /\ ReachShape(s)
    /\ s.queue \subseteq Commit /\ s.seen \subseteq Commit
    /\ s.verdict \in {Graph!None, Graph!TooLarge, Graph!Incomplete}
    /\ s.queue \cup s.seen \subseteq Graph!Lineage(H, heads)
    /\ s.verdict = Graph!None =>
         /\ s.queue \cap s.seen = {} /\ heads \subseteq s.queue \cup s.seen
         /\ \A v \in s.seen : v \in DOMAIN H /\ Graph!Parents(H, v) \subseteq s.queue \cup s.seen
         /\ Cardinality(s.seen) <= limit /\ (s.queue = {} \/ Cardinality(s.seen) = n)
    /\ s.verdict = Graph!TooLarge => Cardinality(Graph!Lineage(H, heads)) > limit
    /\ s.verdict = Graph!Incomplete => ~(Graph!Lineage(H, heads) \subseteq DOMAIN H)

\* A turn sees the least id of the queue, unless that is one too many or missing.
LEMMA ReachKeeps ==
    ASSUME NEW H, IsHistory(H), NEW limit \in Nat, NEW heads \in SUBSET Commit, NEW n \in Nat,
           NEW s, ReachOK(H, limit, heads, n, s)
    PROVE  ReachOK(H, limit, heads, n + 1, Graph!ReachTurn(H, limit, s))
<1> DEFINE T == Graph!ReachTurn(H, limit, s)
           cur == Graph!Min(s.queue)
           seen == s.seen \cup {cur}
           up == Graph!Parents(H, cur)
           line == Graph!Lineage(H, heads)
<1> SUFFICES ReachOK(H, limit, heads, n + 1, T)
    OBVIOUS
<1>1. T = IF s.queue = {} \/ s.verdict # Graph!None THEN s
          ELSE IF Graph!Cardinality(seen) > limit THEN [s EXCEPT !.verdict = Graph!TooLarge]
          ELSE IF cur \notin DOMAIN H THEN [s EXCEPT !.verdict = Graph!Incomplete]
          ELSE [s EXCEPT !.queue = (@ \cup up) \ seen, !.seen = seen]
      BY DEF Graph!ReachTurn
<1>2. /\ line \in SUBSET Commit /\ Graph!Closed(H, line) /\ Cardinality(line) \in Nat
  <2>1. line \in SUBSET Commit /\ Graph!Closed(H, line)
        BY LineageIs
  <2> HIDE DEF line
  <2> QED BY <2>1, CountCommits
<1>3. Graph!None # Graph!TooLarge /\ Graph!None # Graph!Incomplete /\ Graph!TooLarge # Graph!Incomplete
      BY DEF Graph!None, Graph!TooLarge, Graph!Incomplete
<1>4. s.queue \subseteq Commit
      BY DEF ReachOK
<1>5. s.queue # {} => cur \in s.queue
      BY <1>4, MinIn
<1> HIDE DEF T, cur
<1>6. CASE s.queue = {} \/ s.verdict # Graph!None
  <2>1. T = s BY <1>1, <1>6
  <2> QED BY <1>6, <2>1 DEF ReachOK
<1>7. CASE s.queue # {} /\ s.verdict = Graph!None
  <2>1. /\ ReachShape(s) /\ s.seen \subseteq Commit /\ s.queue \cup s.seen \subseteq line
        /\ s.queue \cap s.seen = {} /\ heads \subseteq s.queue \cup s.seen
        /\ \A v \in s.seen : v \in DOMAIN H /\ Graph!Parents(H, v) \subseteq s.queue \cup s.seen
        /\ Cardinality(s.seen) <= limit /\ Cardinality(s.seen) = n
        BY <1>7 DEF ReachOK
  <2>2. cur \in s.queue /\ cur \notin s.seen /\ cur \in Commit /\ cur \in line
        BY <1>4, <1>5, <1>7, <2>1
  <2>3. seen \in SUBSET line /\ seen \in SUBSET Commit /\ up \subseteq line /\ up \subseteq Commit
        BY <1>2, <2>1, <2>2, ParentsAre DEF Graph!Closed
  <2>4. Cardinality(seen) = n + 1
    <3>1. s.seen \in SUBSET Commit
          BY <2>1
    <3>2. Cardinality(s.seen \cup {cur}) = Cardinality(s.seen) + 1
          BY <2>2, <3>1, CountCommits
    <3> QED BY <2>1, <3>2
  <2> HIDE DEF seen, up, line
  <2>5. CASE Graph!Cardinality(seen) > limit
    <3>1. T = [s EXCEPT !.verdict = Graph!TooLarge]
          BY <1>1, <1>7, <2>5
    <3>2. Cardinality(line) > limit
      <4>1. Cardinality(seen) <= Cardinality(line)
            BY <1>2, <2>3, CountWithin
      <4> QED BY <1>2, <2>4, <2>5, <4>1, CommitsCounted
    <3>3. ReachShape(T) /\ T.queue = s.queue /\ T.seen = s.seen /\ T.verdict = Graph!TooLarge
          BY <2>1, <3>1 DEF ReachShape, ReachFields
    <3> QED BY <1>3, <1>4, <2>1, <3>2, <3>3 DEF ReachOK, line
  <2>6. CASE ~(Graph!Cardinality(seen) > limit) /\ cur \notin DOMAIN H
    <3>1. T = [s EXCEPT !.verdict = Graph!Incomplete]
          BY <1>1, <1>7, <2>6
    <3>2. ReachShape(T) /\ T.queue = s.queue /\ T.seen = s.seen /\ T.verdict = Graph!Incomplete
          BY <2>1, <3>1 DEF ReachShape, ReachFields
    <3>3. ~(line \subseteq DOMAIN H)
          BY <2>2, <2>6
    <3> QED BY <1>3, <1>4, <2>1, <3>2, <3>3 DEF ReachOK, line
  <2>7. CASE ~(Graph!Cardinality(seen) > limit) /\ cur \in DOMAIN H
    <3> DEFINE queue == (s.queue \cup up) \ seen
    <3>1. T = [s EXCEPT !.queue = queue, !.seen = seen]
          BY <1>1, <1>7, <2>7
    <3>2. ReachShape(T) /\ T.queue = queue /\ T.seen = seen /\ T.verdict = Graph!None
          BY <1>7, <2>1, <3>1 DEF ReachShape, ReachFields
    <3>3. queue \subseteq Commit /\ queue \cup seen \subseteq line /\ queue \cap seen = {}
          BY <1>4, <2>1, <2>3
    <3>4. heads \subseteq queue \cup seen
          BY <2>1 DEF seen
    <3>5. \A v \in seen : v \in DOMAIN H /\ Graph!Parents(H, v) \subseteq queue \cup seen
      <4>1. \A v \in s.seen : v \in DOMAIN H /\ Graph!Parents(H, v) \subseteq queue \cup seen
            BY <2>1 DEF seen
      <4>2. Graph!Parents(H, cur) \subseteq queue \cup seen
            BY DEF up
      <4> QED BY <2>7, <4>1, <4>2 DEF seen
    <3>6. Cardinality(seen) <= limit
          BY <2>4, <2>7, CommitsCounted
    <3> HIDE DEF queue
    <3> QED BY <1>3, <2>3, <2>4, <3>2, <3>3, <3>4, <3>5, <3>6 DEF ReachOK, line
  <2> QED BY <2>5, <2>6, <2>7
<1> QED BY <1>6, <1>7

ReachStarts(heads) == [queue |-> heads, seen |-> {}, verdict |-> Graph!None]
\* The turns of the search from the heads, as a function of their number
ReachTo(H, limit, heads, f, m) ==
    f = [k \in 0..m |-> IF k = 0 THEN ReachStarts(heads) ELSE Graph!ReachTurn(H, limit, f[k - 1])]

\* There is such a function for any number of turns.
LEMMA ReachGoesOn ==
    ASSUME NEW H, NEW limit, NEW heads, NEW l \in Nat
    PROVE  \E f : ReachTo(H, limit, heads, f, l)
<1> DEFINE Begun == ReachStarts(heads)
           Turn(s) == Graph!ReachTurn(H, limit, s)
           K == {m \in Nat : ~ \E f : ReachTo(H, limit, heads, f, m)}
<1>1. SUFFICES ASSUME K # {} PROVE FALSE
      OBVIOUS
<1>2. PICK m \in K : \A k \in K : m <= k
  <2>1. K \subseteq Nat OBVIOUS
  <2> HIDE DEF K
  <2> QED BY <1>1, <2>1, HasLeast
<1>3. m \in Nat /\ ~ \E f : ReachTo(H, limit, heads, f, m)
      OBVIOUS
<1>4. \A f, k : ReachTo(H, limit, heads, f, k) <=> f = [j \in 0..k |-> IF j = 0 THEN Begun ELSE Turn(f[j - 1])]
      BY DEF ReachTo
<1> HIDE DEF Begun, Turn
<1>5. m # 0
  <2> DEFINE g == [j \in {0} |-> Begun]
  <2>1. 0..0 = {0} OBVIOUS
  <2>2. g = [j \in 0..0 |-> IF j = 0 THEN Begun ELSE Turn(g[j - 1])]
        BY <2>1
  <2>3. ReachTo(H, limit, heads, g, 0)
        BY <1>4, <2>2
  <2> QED BY <1>3, <2>3
<1>6. PICK f : ReachTo(H, limit, heads, f, m - 1)
  <2>1. m - 1 \in Nat /\ ~(m <= m - 1) BY <1>3, <1>5
  <2>2. m - 1 \notin K
    <3> HIDE DEF K
    <3> QED BY <1>2, <2>1
  <2> QED BY <2>1, <2>2
<1> DEFINE g == [k \in 0..m |-> IF k = m THEN Turn(f[m - 1]) ELSE f[k]]
<1>7. f = [j \in 0..(m - 1) |-> IF j = 0 THEN Begun ELSE Turn(f[j - 1])]
      BY <1>4, <1>6
<1>8. ASSUME NEW k \in 0..m
      PROVE  g[k] = IF k = 0 THEN Begun ELSE Turn(g[k - 1])
  <2>1. CASE k = m
    <3>1. m - 1 \in 0..m /\ m - 1 # m /\ m \in 0..m /\ m # 0 BY <1>3, <1>5
    <3>2. g[k] = Turn(f[m - 1]) /\ g[m - 1] = f[m - 1] BY <2>1, <3>1
    <3> QED BY <2>1, <3>1, <3>2
  <2>2. CASE k # m
    <3>1. k \in 0..(m - 1) /\ (k # 0 => k - 1 \in 0..m /\ k - 1 # m) BY <1>3, <2>2
    <3>2. f[k] = IF k = 0 THEN Begun ELSE Turn(f[k - 1])
          BY <1>7, <3>1
    <3>3. g[k] = f[k] /\ (k # 0 => g[k - 1] = f[k - 1]) BY <2>2, <3>1
    <3> QED BY <3>2, <3>3
  <2> QED BY <2>1, <2>2
<1>9. ReachTo(H, limit, heads, g, m)
  <2>1. g = [k \in 0..m |-> g[k]] OBVIOUS
  <2> HIDE DEF g
  <2>2. g = [k \in 0..m |-> IF k = 0 THEN Begun ELSE Turn(g[k - 1])] BY <1>8, <2>1
  <2> QED BY <1>4, <2>2
<1> QED BY <1>3, <1>9

\* The turns are what the function says.
LEMMA ReachTurnsAre ==
    ASSUME NEW H, NEW limit, NEW heads
    PROVE  ReachTo(H, limit, heads, Graph!ReachTurns(H, limit, heads), Cardinality(Commit))
<1> DEFINE m == Graph!Cardinality(Commit)
<1>1. m = Cardinality(Commit) /\ m \in Nat
      BY CommitsCounted
<1>2. \E f : f = [n \in 0..m |-> IF n = 0 THEN ReachStarts(heads) ELSE Graph!ReachTurn(H, limit, f[n - 1])]
  <2> HIDE DEF m
  <2>1. PICK f : ReachTo(H, limit, heads, f, m) BY <1>1, ReachGoesOn
  <2>2. f = [n \in 0..m |-> IF n = 0 THEN ReachStarts(heads) ELSE Graph!ReachTurn(H, limit, f[n - 1])]
        BY <2>1 DEF ReachTo
  <2> QED BY <2>2
<1>3. ReachTo(H, limit, heads, Graph!ReachTurns(H, limit, heads), m)
      BY <1>2 DEF ReachTo, Graph!ReachTurns, ReachStarts
<1> QED BY <1>1, <1>3

\* Before the first turn the heads are queued.
LEMMA ReachBegins ==
    ASSUME NEW H, IsHistory(H), NEW limit \in Nat, NEW heads \in SUBSET Commit
    PROVE  ReachOK(H, limit, heads, 0, ReachStarts(heads))
<1> DEFINE S == ReachStarts(heads)
<1>1. S.queue = heads /\ S.seen = {} /\ S.verdict = Graph!None /\ ReachShape(S)
      BY DEF ReachStarts, ReachShape, ReachFields
<1> HIDE DEF S
<1>2. heads \subseteq Graph!Lineage(H, heads)
      BY LineageIs
<1>3. Graph!None # Graph!TooLarge /\ Graph!None # Graph!Incomplete
      BY DEF Graph!None, Graph!TooLarge, Graph!Incomplete
<1>4. Cardinality({}) = 0
      BY FS_EmptySet
<1>5. ReachOK(H, limit, heads, 0, S)
      BY <1>1, <1>2, <1>3, <1>4 DEF ReachOK
<1> QED BY <1>5 DEF S

\* The search returns the whole lineage, or there is too much of it or something is missing.
LEMMA ReachExact ==
    ASSUME NEW H, IsHistory(H), NEW limit \in Nat, NEW heads \in SUBSET Commit
    PROVE  LET got == Graph!Reach(H, heads, limit)
               line == Graph!Lineage(H, heads)
           IN  /\ got.ok => got.value = line
               /\ line \subseteq DOMAIN H => (got.ok <=> Cardinality(line) <= limit)
<1> DEFINE f == Graph!ReachTurns(H, limit, heads)
           m == Cardinality(Commit)
           line == Graph!Lineage(H, heads)
           got == Graph!Reach(H, heads, limit)
           K == {k \in 0..m : ~ReachOK(H, limit, heads, k, f[k])}
           s == f[m]
<1>1. ReachTo(H, limit, heads, f, m) /\ m \in Nat
      BY ReachTurnsAre, CommitsCounted
<1>2. \A k \in 0..m : f[k] = IF k = 0 THEN ReachStarts(heads) ELSE Graph!ReachTurn(H, limit, f[k - 1])
  <2> HIDE DEF f
  <2> QED BY <1>1 DEF ReachTo
<1>3. got = Graph!Outcome(s.verdict, s.seen)
      BY CommitsCounted DEF Graph!Reach
<1> HIDE DEF f, m, got
<1>4. K = {}
  <2>1. SUFFICES ASSUME K # {} PROVE FALSE OBVIOUS
  <2>2. PICK k \in K : \A j \in K : k <= j
    <3>1. K \subseteq Nat BY <1>1
    <3> HIDE DEF K
    <3> QED BY <2>1, <3>1, HasLeast
  <2>3. k \in 0..m /\ k \in Nat /\ ~ReachOK(H, limit, heads, k, f[k])
        BY <1>1
  <2>4. k # 0
        BY <1>1, <1>2, <2>3, ReachBegins
  <2>5. k - 1 \in 0..m /\ k - 1 \notin K /\ k - 1 \in Nat
    <3>1. k - 1 \in 0..m /\ ~(k <= k - 1) /\ k - 1 \in Nat BY <1>1, <2>3, <2>4
    <3> HIDE DEF K
    <3> QED BY <2>2, <3>1
  <2>6. ReachOK(H, limit, heads, k - 1, f[k - 1])
        BY <2>5
  <2>7. ReachOK(H, limit, heads, (k - 1) + 1, Graph!ReachTurn(H, limit, f[k - 1]))
        BY <2>5, <2>6, ReachKeeps
  <2>8. (k - 1) + 1 = k /\ f[k] = Graph!ReachTurn(H, limit, f[k - 1])
        BY <1>2, <2>3, <2>4
  <2> QED BY <2>3, <2>7, <2>8
<1>5. ReachOK(H, limit, heads, m, s)
      BY <1>1, <1>4
<1> HIDE DEF s
<1>6. got.ok = (s.verdict = Graph!None) /\ (s.verdict = Graph!None => got.value = s.seen)
      BY <1>3 DEF Graph!Outcome
<1>7. line \in SUBSET Commit /\ Cardinality(line) \in Nat
      BY LineageIs, CountCommits
<1>8. CASE s.verdict = Graph!None
  <2>1. /\ s.seen \subseteq Commit /\ s.queue \subseteq Commit /\ s.queue \cup s.seen \subseteq line
        /\ s.queue \cap s.seen = {} /\ heads \subseteq s.queue \cup s.seen
        /\ \A v \in s.seen : v \in DOMAIN H /\ Graph!Parents(H, v) \subseteq s.queue \cup s.seen
        /\ Cardinality(s.seen) <= limit /\ (s.queue = {} \/ Cardinality(s.seen) = m)
        BY <1>5, <1>8 DEF ReachOK
  <2>2. s.queue = {}
    <3>1. CASE Cardinality(s.seen) = m
      <4>1. s.seen = Commit BY <2>1, <3>1, CountCommits DEF m
      <4> QED BY <2>1, <4>1
    <3> QED BY <2>1, <3>1
  <2>3. line \subseteq s.seen
    <3>1. Graph!Closed(H, s.seen) BY <2>1, <2>2 DEF Graph!Closed
    <3> QED BY <2>1, <2>2, <3>1, LineageIs
  <2>4. s.seen = line
        BY <2>1, <2>3
  <2> QED BY <1>6, <1>8, <2>1, <2>4 DEF got
<1>9. CASE s.verdict = Graph!TooLarge
  <2>1. Cardinality(line) > limit /\ ~got.ok
    <3>1. Graph!None # Graph!TooLarge BY DEF Graph!None, Graph!TooLarge
    <3> QED BY <1>5, <1>6, <1>9, <3>1 DEF ReachOK
  <2> HIDE DEF line
  <2>2. ~(Cardinality(line) <= limit)
        BY <1>7, <2>1
  <2> QED BY <2>1, <2>2 DEF got, line
<1>10. CASE s.verdict = Graph!Incomplete
  <2>1. ~(line \subseteq DOMAIN H) /\ ~got.ok
    <3>1. Graph!None # Graph!Incomplete BY DEF Graph!None, Graph!Incomplete
    <3> QED BY <1>5, <1>6, <1>10, <3>1 DEF ReachOK
  <2> QED BY <2>1 DEF got
<1> QED BY <1>5, <1>8, <1>9, <1>10 DEF ReachOK

------------------------------------------------------------------------------
\* The heads of a branch

\* A commit that others of the branch descend from has among them one that nothing descends from.
LEMMA LastOfTheLine ==
    ASSUME NEW H, IsHistory(H), Graph!Acyclic(H), NEW S \in SUBSET Commit, NEW c \in S
    PROVE  \E h \in S : /\ h = c \/ c \in Graph!Ancestors(H, h)
                        /\ \A o \in S : h \notin Graph!Ancestors(H, o)
<1> DEFINE X == {o \in S : o = c \/ c \in Graph!Ancestors(H, o)}
           Left(o) == Commit \ Graph!Ancestors(H, o)
           K == {Cardinality(Left(o)) : o \in X}
<1>1. \A o : Left(o) \in SUBSET Commit /\ Cardinality(Left(o)) \in Nat
  <2> TAKE o
  <2>1. Left(o) \in SUBSET Commit OBVIOUS
  <2> HIDE DEF Left
  <2> QED BY <2>1, CountCommits
<1>2. PICK h \in X : \A o \in X : Cardinality(Left(h)) <= Cardinality(Left(o))
  <2>1. K \in SUBSET Nat /\ K # {}
    <3>1. c \in X OBVIOUS
    <3> HIDE DEF Left, X
    <3> QED BY <1>1, <3>1
  <2>2. PICK k \in K : \A m \in K : k <= m
    <3> HIDE DEF K
    <3> QED BY <2>1, HasLeast
  <2> HIDE DEF Left, X
  <2> QED BY <2>2
<1>3. ASSUME NEW o \in S, h \in Graph!Ancestors(H, o) PROVE FALSE
  <2>1. Graph!Ancestors(H, h) \subseteq Graph!Ancestors(H, o) /\ h \in Commit
        BY <1>3, AncestorsGoOn
  <2>2. o \in X
        BY <1>3, <2>1
  <2>3. h \notin Graph!Ancestors(H, h)
        BY NotItsOwn
  <2>4. Left(o) \in SUBSET Left(h) /\ Left(o) # Left(h)
        BY <1>3, <2>1, <2>3
  <2>5. Cardinality(Left(o)) < Cardinality(Left(h))
    <3> HIDE DEF Left
    <3> QED BY <1>1, <2>4, CountWithin
  <2> HIDE DEF Left, X
  <2> QED BY <1>1, <1>2, <2>2, <2>5
<1> QED BY <1>3

\* Who decides about a candidate: those that descend from it, and those that are too far to walk.
LEMMA DecidingAre ==
    ASSUME NEW H, IsHistory(H), Graph!Acyclic(H), Graph!HeadJoins(H), NEW c, NEW S \in SUBSET Commit
    PROVE  /\ Graph!Deciding(H, c, S) \subseteq S
           /\ \A o \in S :
                /\ Graph!CollectAncestors(H, o, MaxNodes).ok <=>
                     Cardinality(Graph!Ancestors(H, o) \cup {o}) <= MaxNodes
                /\ Graph!CollectAncestors(H, o, MaxNodes).ok =>
                     (o \in Graph!Deciding(H, c, S) <=> c \in Graph!Ancestors(H, o))
                /\ ~Graph!CollectAncestors(H, o, MaxNodes).ok => o \in Graph!Deciding(H, c, S)
<1>1. ASSUME NEW o \in S
      PROVE  LET up == Graph!CollectAncestors(H, o, MaxNodes) IN
             /\ up.ok <=> Cardinality(Graph!Ancestors(H, o) \cup {o}) <= MaxNodes
             /\ up.ok => up.value = Graph!Ancestors(H, o)
  <2> DEFINE up == Graph!CollectAncestors(H, o, MaxNodes)
             verdict == IF Cardinality(Graph!Ancestors(H, o) \cup {o}) <= MaxNodes
                        THEN Graph!None ELSE Graph!TooLarge
  <2>1. up = Graph!Outcome(verdict, Graph!Ancestors(H, o))
        BY CommitsCounted, WalkExact
  <2>2. verdict = Graph!None <=> Cardinality(Graph!Ancestors(H, o) \cup {o}) <= MaxNodes
        BY DEF Graph!None, Graph!TooLarge
  <2> HIDE DEF up, verdict
  <2>3. up.ok = (verdict = Graph!None) /\ (verdict = Graph!None => up.value = Graph!Ancestors(H, o))
        BY <2>1 DEF Graph!Outcome
  <2> QED BY <2>2, <2>3 DEF up
<1> QED BY <1>1 DEF Graph!Deciding

\* What the heads are when they are found, and why they may not be.
LEMMA HeadsAre ==
    ASSUME NEW H, IsHistory(H), Graph!Acyclic(H), Graph!HeadJoins(H), NEW b
    PROVE  LET heads == Graph!DeriveBranchHeads(H, b)
               scoped == Graph!Scoped(H, b)
           IN  /\ heads.ok =>
                    /\ heads.value = scoped \ UNION {Graph!Ancestors(H, o) : o \in scoped}
                    /\ scoped \subseteq Graph!Lineage(H, heads.value)
               /\ ~heads.ok =>
                    \/ Graph!Oversized(H)
                    \/ \E o \in scoped : Cardinality(Graph!Lineage(H, {o})) > MaxNodes
<1> DEFINE heads == Graph!DeriveBranchHeads(H, b)
           scoped == Graph!Scoped(H, b)
           Deciding(c) == Graph!Deciding(H, c, scoped \ {c})
           Walked(c) == Graph!CollectAncestors(H, Graph!Min(Deciding(c)), MaxNodes)
           failed == {c \in scoped : Deciding(c) # {} /\ ~Walked(c).ok}
           last == scoped \ UNION {Graph!Ancestors(H, o) : o \in scoped}
<1>1. scoped \in SUBSET Commit
      BY DEF Graph!Scoped, IsHistory
<1>2. heads = IF Graph!Oversized(H) THEN Graph!Outcome(Graph!TooLarge, {})
              ELSE IF Graph!DetectCycle(H) THEN Graph!Outcome(Graph!Corrupt, {})
              ELSE IF failed # {} THEN Walked(Graph!Min(failed))
              ELSE Graph!Outcome(Graph!None, {c \in scoped : Deciding(c) = {}})
  <2> DEFINE deciding == [c \in scoped |-> Deciding(c)]
             walked(c) == Graph!CollectAncestors(H, Graph!Min(deciding[c]), MaxNodes)
             failures == {c \in scoped : deciding[c] # {} /\ ~walked(c).ok}
             found == {c \in scoped : deciding[c] = {}}
  <2>1. heads = IF Graph!Oversized(H) THEN Graph!Outcome(Graph!TooLarge, {})
                ELSE IF Graph!DetectCycle(H) THEN Graph!Outcome(Graph!Corrupt, {})
                ELSE IF failures # {} THEN walked(Graph!Min(failures))
                ELSE Graph!Outcome(Graph!None, found)
        BY DEF Graph!DeriveBranchHeads
  <2>2. \A c \in scoped : deciding[c] = Deciding(c) /\ walked(c) = Walked(c)
        OBVIOUS
  <2>3. found = {c \in scoped : Deciding(c) = {}}
        BY <2>2
  <2>4. failures = failed
        BY <2>2
  <2>5. failed # {} => Graph!Min(failed) \in scoped
    <3>1. failed \in SUBSET Commit /\ failed \subseteq scoped BY <1>1
    <3> HIDE DEF failed
    <3> QED BY <3>1, MinIn
  <2>6. failed # {} => walked(Graph!Min(failures)) = Walked(Graph!Min(failed))
        BY <2>2, <2>4, <2>5
  <2> HIDE DEF heads, failed, failures, found, walked, Walked, Deciding, deciding, scoped
  <2> QED BY <2>1, <2>3, <2>4, <2>6
<1>3. Graph!Outcome(Graph!TooLarge, {}).ok = FALSE
      BY DEF Graph!Outcome, Graph!None, Graph!TooLarge
<1>4. ~Graph!DetectCycle(H)
      BY CyclesFound
<1>5. ASSUME NEW c \in scoped
      PROVE  /\ Deciding(c) \subseteq scoped \ {c}
             /\ Deciding(c) # {} => Graph!Min(Deciding(c)) \in Deciding(c)
             /\ \A o \in scoped \ {c} :
                  LET up == Graph!CollectAncestors(H, o, MaxNodes) IN
                  /\ up.ok => (o \in Deciding(c) <=> c \in Graph!Ancestors(H, o))
                  /\ ~up.ok => o \in Deciding(c)
                  /\ ~up.ok => ~(Cardinality(Graph!Ancestors(H, o) \cup {o}) <= MaxNodes)
  <2> DEFINE S == scoped \ {c}
  <2>1. S \in SUBSET Commit BY <1>1
  <2> HIDE DEF S
  <2>2. Graph!Deciding(H, c, S) \in SUBSET Commit
        BY <2>1, DecidingAre
  <2>3. Graph!Deciding(H, c, S) # {} => Graph!Min(Graph!Deciding(H, c, S)) \in Graph!Deciding(H, c, S)
        BY <2>2, MinIn
  <2> QED BY <2>1, <2>3, DecidingAre DEF S
<1>6. ASSUME NEW c \in failed
      PROVE  \E o \in scoped : o = Graph!Min(Deciding(c)) /\ Cardinality(Graph!Lineage(H, {o})) > MaxNodes
  <2> DEFINE o == Graph!Min(Deciding(c))
  <2>1. c \in scoped /\ Deciding(c) # {} /\ ~Graph!CollectAncestors(H, o, MaxNodes).ok
        OBVIOUS
  <2>2. o \in scoped \ {c} /\ o \in scoped
        BY <1>5, <2>1
  <2>3. ~(Cardinality(Graph!Ancestors(H, o) \cup {o}) <= MaxNodes)
        BY <1>5, <2>1, <2>2
  <2> HIDE DEF o
  <2>4. Graph!Lineage(H, {o}) = Graph!Ancestors(H, o) \cup {o}
        BY <1>1, <2>2, LineageOf
  <2>5. Graph!Lineage(H, {o}) \in SUBSET Commit
        BY <1>1, <2>2, LineageIs
  <2>6. Cardinality(Graph!Lineage(H, {o})) \in Nat
        BY <2>5, CountCommits
  <2>7. Cardinality(Graph!Lineage(H, {o})) > MaxNodes
        BY <2>3, <2>4, <2>6, CommitsCounted
  <2> QED BY <2>2, <2>7 DEF o
<1>7. CASE heads.ok
  <2>1. ~Graph!Oversized(H)
        BY <1>2, <1>3, <1>7
  <2>2. failed = {}
    <3> SUFFICES ASSUME failed # {} PROVE FALSE
        OBVIOUS
    <3>1. Graph!Min(failed) \in failed
      <4>1. failed \in SUBSET Commit BY <1>1
      <4> HIDE DEF failed
      <4> QED BY <4>1, MinIn
    <3>2. ~Walked(Graph!Min(failed)).ok
          BY <3>1
    <3> HIDE DEF failed, Walked, heads
    <3> QED BY <1>2, <1>4, <1>7, <2>1, <3>2
  <2>3. heads.value = {c \in scoped : Deciding(c) = {}}
    <3> DEFINE found == {c \in scoped : Deciding(c) = {}}
    <3>1. heads = Graph!Outcome(Graph!None, found)
          BY <1>2, <1>4, <2>1, <2>2
    <3> HIDE DEF found, heads
    <3>2. heads.value = found
          BY <3>1 DEF Graph!Outcome
    <3> QED BY <3>2 DEF found
  <2>4. ASSUME NEW c \in scoped PROVE Deciding(c) = {} <=> c \in last
    <3>1. ASSUME Deciding(c) = {} PROVE c \in last
      <4>1. c \notin Graph!Ancestors(H, c) BY NotItsOwn
      <4>2. \A o \in scoped \ {c} : c \notin Graph!Ancestors(H, o) BY <1>5, <3>1
      <4> QED BY <4>1, <4>2
    <3>2. ASSUME Deciding(c) # {} PROVE c \notin last
      <4> DEFINE o == Graph!Min(Deciding(c))
      <4>1. o \in Deciding(c) /\ o \in scoped \ {c} /\ o \in scoped BY <1>5, <3>2
      <4>2. Graph!CollectAncestors(H, o, MaxNodes).ok
            BY <2>2, <3>2
      <4>3. c \in Graph!Ancestors(H, o)
            BY <1>5, <4>1, <4>2
      <4> QED BY <4>1, <4>3
    <3> QED BY <3>1, <3>2
  <2>5. heads.value = last
    <3> HIDE DEF heads, Deciding
    <3> QED BY <2>3, <2>4
  <2>6. scoped \subseteq Graph!Lineage(H, last)
    <3> SUFFICES ASSUME NEW c \in scoped PROVE c \in Graph!Lineage(H, last)
        OBVIOUS
    <3>1. PICK h \in scoped : /\ h = c \/ c \in Graph!Ancestors(H, h)
                              /\ \A o \in scoped : h \notin Graph!Ancestors(H, o)
      <4> HIDE DEF scoped
      <4> QED BY <1>1, LastOfTheLine
    <3>2. h \in last
          BY <3>1
    <3>3. last \in SUBSET Commit
          BY <1>1
    <3> HIDE DEF last
    <3> QED BY <3>1, <3>2, <3>3, LineageOf
  <2> HIDE DEF heads, scoped, last
  <2>7. heads.value = last /\ scoped \subseteq Graph!Lineage(H, heads.value)
        BY <2>5, <2>6
  <2> QED BY <1>7, <2>7 DEF heads, scoped, last
<1>8. CASE ~heads.ok
  <2>1. Graph!Outcome(Graph!None, {c \in scoped : Deciding(c) = {}}).ok
        BY DEF Graph!Outcome
  <2>2. Graph!Oversized(H) \/ failed # {}
    <3> HIDE DEF heads, failed, scoped, Deciding, Walked
    <3> QED BY <1>2, <1>4, <1>8, <2>1
  <2>3. Graph!Oversized(H) \/ \E o \in scoped : Cardinality(Graph!Lineage(H, {o})) > MaxNodes
        BY <1>6, <2>2
  <2> QED BY <1>8, <2>3
<1> QED BY <1>7, <1>8

\* A complete history has every ancestor of its commits.
LEMMA CompleteUp ==
    ASSUME NEW H, IsHistory(H), Graph!FindMissingParents(H) = {}
    PROVE  /\ Graph!Closed(H, DOMAIN H) /\ DOMAIN H \in SUBSET Commit
           /\ \A c \in DOMAIN H : Graph!Ancestors(H, c) \subseteq DOMAIN H
<1>1. Graph!Closed(H, DOMAIN H)
      BY DEF Graph!FindMissingParents, Graph!Closed, Graph!Parents
<1>2. DOMAIN H \in SUBSET Commit
      BY DEF IsHistory
<1>3. ASSUME NEW c \in DOMAIN H PROVE Graph!Ancestors(H, c) \subseteq DOMAIN H
      BY <1>1, <1>2, AncestorsAre DEF Graph!Closed
<1> QED BY <1>1, <1>2, <1>3

\* A state with heads is one of a history without cycles and gaps, and a sound and complete
\* history is never taken for anything else.
LEMMA ClassifiedWell ==
    ASSUME NEW H, IsHistory(H), NEW b
    PROVE  LET state == Graph!ClassifyBranchState(H, b) IN
           /\ state.status \in {"single", "diverged"} =>
                Graph!Acyclic(H) /\ \A h \in state.heads : Graph!Ancestors(H, h) \subseteq DOMAIN H
           /\ /\ Graph!Acyclic(H) /\ Graph!HeadJoins(H)
              /\ Graph!FindMissingParents(H) = {} /\ ~Graph!Oversized(H)
              => IF Graph!Scoped(H, b) = {} THEN state.status = "empty"
                 ELSE state.status \in {"single", "diverged"}
<1> DEFINE state == Graph!ClassifyBranchState(H, b)
           found == Graph!DeriveBranchHeads(H, b)
           scoped == Graph!Scoped(H, b)
<1>1. state = IF Graph!Oversized(H) THEN [status |-> Graph!TooLarge, heads |-> {}]
              ELSE IF Graph!DetectCycle(H) THEN [status |-> Graph!Corrupt, heads |-> {}]
              ELSE IF Graph!FindMissingParents(H) # {} THEN [status |-> Graph!Incomplete, heads |-> {}]
              ELSE IF scoped = {} THEN [status |-> "empty", heads |-> {}]
              ELSE IF ~found.ok THEN [status |-> found.value, heads |-> {}]
              ELSE IF found.value = {} THEN [status |-> Graph!Corrupt, heads |-> {}]
              ELSE [status |-> IF Graph!Cardinality(found.value) = 1 THEN "single" ELSE "diverged",
                    heads  |-> found.value]
      BY DEF Graph!ClassifyBranchState, Graph!StateOfHeads
<1>2. /\ Graph!TooLarge \notin {"single", "diverged"} /\ Graph!Corrupt \notin {"single", "diverged"}
      /\ Graph!Incomplete \notin {"single", "diverged"} /\ "empty" \notin {"single", "diverged"}
      BY DEF Graph!TooLarge, Graph!Corrupt, Graph!Incomplete
<1> HIDE DEF state, found
<1>3. ASSUME state.status \in {"single", "diverged"}
      PROVE  Graph!Acyclic(H) /\ \A h \in state.heads : Graph!Ancestors(H, h) \subseteq DOMAIN H
  <2>1. ~Graph!DetectCycle(H) /\ Graph!FindMissingParents(H) = {}
    <3> HIDE DEF scoped
    <3> QED BY <1>1, <1>2, <1>3
  <2>2. Graph!Acyclic(H)
        BY <2>1, CyclesFound
  <2>3. \A h : Graph!Ancestors(H, h) \subseteq DOMAIN H
        BY <2>1, CompleteUp, NoneOfTheMissing
  <2> QED BY <2>2, <2>3
<1>4. ASSUME Graph!Acyclic(H), Graph!HeadJoins(H), Graph!FindMissingParents(H) = {}, ~Graph!Oversized(H)
      PROVE  IF scoped = {} THEN state.status = "empty" ELSE state.status \in {"single", "diverged"}
  <2>1. ~Graph!DetectCycle(H)
        BY <1>4, CyclesFound
  <2>2. CASE scoped = {}
    <3>1. state = [status |-> "empty", heads |-> {}]
      <4> HIDE DEF scoped
      <4> QED BY <1>1, <1>4, <2>1, <2>2
    <3> QED BY <2>2, <3>1
  <2>3. CASE scoped # {}
    <3>1. found.ok
      <4> SUFFICES ASSUME ~found.ok PROVE FALSE
          OBVIOUS
      <4>1. PICK o \in scoped : Cardinality(Graph!Lineage(H, {o})) > MaxNodes
            BY <1>4, HeadsAre DEF found
      <4>2. {o} \in SUBSET Commit /\ {o} \subseteq DOMAIN H
            BY DEF Graph!Scoped, IsHistory
      <4>3. DOMAIN H \in SUBSET Commit /\ Graph!Lineage(H, {o}) \in SUBSET DOMAIN H
            BY <1>4, <4>2, CompleteUp, LineageIs
      <4>4. Cardinality(Graph!Lineage(H, {o})) <= Cardinality(DOMAIN H)
            BY <4>3, CountWithin
      <4>5. Cardinality(DOMAIN H) \in Nat /\ Cardinality(Graph!Lineage(H, {o})) \in Nat
            BY <4>3, CountCommits
      <4>6. ~(Cardinality(DOMAIN H) > MaxNodes)
            BY <1>4, CommitsCounted DEF Graph!Oversized
      <4> QED BY <4>1, <4>4, <4>5, <4>6, CommitsCounted
    <3>2. scoped \subseteq Graph!Lineage(H, found.value)
          BY <1>4, <3>1, HeadsAre DEF found
    <3> HIDE DEF scoped
    <3>3. found.value # {}
      <4>1. Graph!Lineage(H, {}) = {} BY LineageOf
      <4> QED BY <2>3, <3>2, <4>1
    <3>4. state = [status |-> IF Graph!Cardinality(found.value) = 1 THEN "single" ELSE "diverged",
                   heads  |-> found.value]
          BY <1>1, <1>4, <2>1, <2>3, <3>1, <3>3
    <3>5. state.status = IF Graph!Cardinality(found.value) = 1 THEN "single" ELSE "diverged"
          BY <3>4
    <3> QED BY <2>3, <3>5
  <2> QED BY <2>2, <2>3
<1> QED BY <1>3, <1>4 DEF state

------------------------------------------------------------------------------
\* Histories

\* Whatever records surface, in whatever order, they make a history.
HistoryInv == IsHistory(commits)

\* What the traversals compute, for one history
LEMMA HistoryExact == HistoryInv => Graph!GraphExact
<1> SUFFICES ASSUME IsHistory(commits) PROVE Graph!GraphExact
    BY DEF HistoryInv
<1>1. Graph!AncestorsExact
  <2> SUFFICES ASSUME Graph!Acyclic(commits), Graph!HeadJoins(commits), NEW c \in Commit, NEW limit \in 1..MaxNodes
               PROVE  Graph!CollectAncestors(commits, c, limit) =
                        Graph!Outcome(IF Graph!Cardinality(Graph!Ancestors(commits, c) \cup {c}) <= limit
                                      THEN Graph!None ELSE Graph!TooLarge, Graph!Ancestors(commits, c))
      BY DEF Graph!AncestorsExact, Graph!Sound
  <2>1. limit \in Nat \ {0}
        BY CommitsCounted
  <2> QED BY <2>1, WalkExact, CommitsCounted
<1>2. Graph!CycleExact
      BY CyclesFound DEF Graph!CycleExact
<1>3. Graph!HeadsExact
      BY HeadsAre, CommitsCounted DEF Graph!HeadsExact, Graph!Covers, Graph!Sound
<1>4. Graph!ClassifiedSafely
      BY ClassifiedWell DEF Graph!ClassifiedSafely, Graph!Trusted, Graph!Usable, Graph!Sound
<1>5. Graph!ReachableExact
  <2> SUFFICES ASSUME NEW heads \in SUBSET Commit, NEW limit \in 1..MaxNodes
               PROVE  LET closure == Graph!Lineage(commits, heads)
                          got == Graph!CollectReachableCommits(commits, heads, limit)
                      IN  /\ got.ok => got.value = closure
                          /\ closure \subseteq DOMAIN commits =>
                               (got.ok <=> Graph!Cardinality(closure) <= limit)
      BY DEF Graph!ReachableExact
  <2>1. limit \in Nat /\ Graph!Bounded(limit) = limit
        BY CommitsCounted DEF Graph!Bounded
  <2>2. Graph!CollectReachableCommits(commits, heads, limit) = Graph!Reach(commits, heads, limit)
        BY <2>1 DEF Graph!CollectReachableCommits
  <2> QED BY <2>1, <2>2, ReachExact, CommitsCounted
<1> QED BY <1>1, <1>2, <1>3, <1>4, <1>5 DEF Graph!GraphExact

\* A record that surfaces has parents that are commits.
LEMMA HistoryNext ==
    ASSUME HistoryInv, [Graph!Next]_commits
    PROVE  HistoryInv'
<1>1. CASE UNCHANGED commits
      BY <1>1 DEF HistoryInv, IsHistory
<1>2. ASSUME NEW c \in Commit, NEW record \in Graph!Records, Graph!Surface(c, record)
      PROVE  HistoryInv'
  <2>1. record.parents \subseteq Commit
        BY DEF Graph!Records
  <2>2. commits' = [x \in DOMAIN commits \cup {c} |-> IF x = c THEN record ELSE commits[x]]
        BY <1>2 DEF Graph!Surface
  <2> QED BY <2>1, <2>2 DEF HistoryInv, IsHistory
<1> QED BY <1>1, <1>2 DEF Graph!Next

\* On every history that can surface, of any number of records, the traversals of graph.ts
\* compute what they are meant to: ancestors, cycles, heads, the state of a branch and what is
\* reachable (graph.ts 42-317).
THEOREM TraversalsAreExact == FileSpec => []GraphExact
<1>1. FileInit => HistoryInv
  <2>1. DOMAIN <<>> = {}
        OBVIOUS
  <2> QED BY <2>1 DEF FileInit, Graph!Init, HistoryInv, IsHistory
<1>2. HistoryInv /\ [FileNext]_fileVars => HistoryInv'
  <2>1. [FileNext]_fileVars => [Graph!Next]_commits
        BY DEF FileNext, fileVars, InWiki, InSync, InRollback, InGraph
  <2> QED BY <2>1, HistoryNext
<1>3. HistoryInv => GraphExact
      BY HistoryExact DEF GraphExact
<1> QED BY <1>1, <1>2, <1>3, PTL DEF FileSpec
==============================================================================
