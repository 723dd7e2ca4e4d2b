-------------------------- MODULE SecretVault_proofs --------------------------
(***************************************************************************)
(* For any number of clients, branches and contents, and any bounds:       *)
(* a commit never gets ahead of what it refers to, it descends from all    *)
(* that its author saw when he looked again, and a fork is told to an      *)
(* author of it.  The first invariant adds what a running command may hold *)
(* (ids of accepted records only), the second that ancestors are closed    *)
(* under ancestors, the third who still has to look at a branch.           *)
(***************************************************************************)
EXTENDS SecretVault, FiniteSetTheorems, WellFoundedInduction, TLAPS

\* What a command carries from its first look to its commit.
HoldsAccepted(r) ==
    /\ r.parents \subseteq CommitId /\ r.tree \subseteq BlobId
    /\ r.step = "observe" => r.own \in CommitId

VaultInv ==
    /\ TypeOK
    /\ DependenciesFirst
    /\ \A c \in Client : cmd[c] # Idle => HoldsAccepted(cmd[c])

LEMMA HeadsAreAccepted ==
    ASSUME TypeOK, NEW b
    PROVE  HeadsOf(b) \subseteq CommitId
BY DEF TypeOK, HeadsOf

\* The tree of accepted commits refers to accepted blobs.
LEMMA TreesAreAccepted ==
    ASSUME VaultInv, NEW H \in SUBSET CommitId
    PROVE  TreeOf(H) \subseteq BlobId
BY DEF VaultInv, DependenciesFirst, TreeOf

\* A client that only moves its own command, within what it holds.
LEMMA CommandMoves ==
    ASSUME VaultInv, NEW c \in Client, NEW r \in Running, HoldsAccepted(r),
           cmd' = [cmd EXCEPT ![c] = r], UNCHANGED <<records, told, faults>>
    PROVE  VaultInv'
<1>1. TypeOK' BY DEF VaultInv, TypeOK, records, CommitId, BlobId
<1>2. DependenciesFirst'
      BY DEF VaultInv, DependenciesFirst, records, CommitId, BlobId
<1>3. \A d \in Client : cmd'[d] # Idle => HoldsAccepted(cmd[d])'
      BY DEF VaultInv, TypeOK, HoldsAccepted, records, CommitId, BlobId
<1> QED BY <1>1, <1>2, <1>3 DEF VaultInv

LEMMA RunningTyped ==
    ASSUME VaultInv, NEW c \in Client, cmd[c] # Idle
    PROVE  cmd[c] \in Running /\ HoldsAccepted(cmd[c])
BY DEF VaultInv, TypeOK

LEMMA LoadKeepsInv ==
    ASSUME VaultInv, NEW c \in Client, NEW b \in Branch,
           PushLoad(c, b) \/ ResolveLoad(c, b) \/ \E from \in Branch : BranchLoad(c, b, from)
    PROVE  VaultInv'
<1>1. CASE PushLoad(c, b)
      <2>1. PICK kept \in SUBSET TreeOf(HeadsOf(b)), uploads \in SUBSET Content :
                Begin(c, "push", "upload", b, b, kept, uploads)
            BY <1>1 DEF PushLoad
      <2> DEFINE r == [kind |-> "push", step |-> "upload", branch |-> b, watched |-> b,
                       parents |-> HeadsOf(b), tree |-> kept, todo |-> uploads,
                       knew |-> {}, own |-> 0]
      <2>2. HeadsOf(b) \subseteq CommitId /\ kept \subseteq BlobId
            BY HeadsAreAccepted, TreesAreAccepted DEF VaultInv
      <2>3. r \in Running BY <2>2 DEF Running, CommitId, BlobId
      <2>4. HoldsAccepted(r) BY <2>2 DEF HoldsAccepted
      <2>5. cmd' = [cmd EXCEPT ![c] = r] BY <2>1 DEF Begin
      <2>6. UNCHANGED <<records, told, faults>> BY <1>1 DEF PushLoad
      <2> HIDE DEF r
      <2> QED BY <2>3, <2>4, <2>5, <2>6, CommandMoves
<1>2. CASE ResolveLoad(c, b)
      <2>1. PICK heads \in SUBSET {i \in listedCommits : commits[i].branch = b} :
              \E take \in heads :
                cmd' = [cmd EXCEPT ![c] =
                          [kind |-> "resolve", step |-> "recheck", branch |-> b, watched |-> b,
                           parents |-> heads, tree |-> commits[take].tree, todo |-> {},
                           knew |-> {}, own |-> 0]]
            BY <1>2 DEF ResolveLoad
      <2>2. PICK take \in heads :
                cmd' = [cmd EXCEPT ![c] =
                          [kind |-> "resolve", step |-> "recheck", branch |-> b, watched |-> b,
                           parents |-> heads, tree |-> commits[take].tree, todo |-> {},
                           knew |-> {}, own |-> 0]]
            BY <2>1
      <2> DEFINE r == [kind |-> "resolve", step |-> "recheck", branch |-> b, watched |-> b,
                       parents |-> heads, tree |-> commits[take].tree, todo |-> {},
                       knew |-> {}, own |-> 0]
      <2>3. heads \subseteq CommitId /\ commits[take].tree \subseteq BlobId
            BY DEF VaultInv, TypeOK, DependenciesFirst
      <2>4. r \in Running BY <2>3 DEF Running, CommitId, BlobId
      <2>5. HoldsAccepted(r) BY <2>3 DEF HoldsAccepted
      <2>6. cmd' = [cmd EXCEPT ![c] = r] BY <2>2
      <2>7. UNCHANGED <<records, told, faults>> BY <1>2 DEF ResolveLoad
      <2> HIDE DEF r
      <2> QED BY <2>4, <2>5, <2>6, <2>7, CommandMoves
<1>3. ASSUME NEW from \in Branch, BranchLoad(c, b, from) PROVE VaultInv'
      <2> DEFINE r == [kind |-> "branch", step |-> "recheck", branch |-> b, watched |-> from,
                       parents |-> HeadsOf(from), tree |-> TreeOf(HeadsOf(from)), todo |-> {},
                       knew |-> {}, own |-> 0]
      <2>1. HeadsOf(from) \subseteq CommitId /\ TreeOf(HeadsOf(from)) \subseteq BlobId
            BY HeadsAreAccepted, TreesAreAccepted DEF VaultInv
      <2>2. r \in Running BY <2>1 DEF Running, CommitId, BlobId
      <2>3. HoldsAccepted(r) BY <2>1 DEF HoldsAccepted
      <2>4. cmd' = [cmd EXCEPT ![c] = r] BY <1>3 DEF BranchLoad, Begin
      <2>5. UNCHANGED <<records, told, faults>> BY <1>3 DEF BranchLoad
      <2> HIDE DEF r
      <2> QED BY <2>2, <2>3, <2>4, <2>5, CommandMoves
<1> QED BY <1>1, <1>2, <1>3

\* A command that ends leaves the records alone.
LEMMA EndKeepsInv ==
    ASSUME VaultInv, NEW c \in Client, End(c), UNCHANGED <<records, faults>>,
           told' \subseteq CommitId
    PROVE  VaultInv'
<1>1. TypeOK' BY DEF VaultInv, TypeOK, records, CommitId, BlobId, End
<1>2. DependenciesFirst'
      BY DEF VaultInv, DependenciesFirst, records, CommitId, BlobId
<1>3. \A d \in Client : cmd'[d] # Idle => HoldsAccepted(cmd[d])'
      BY DEF VaultInv, TypeOK, HoldsAccepted, records, CommitId, BlobId, End
<1> QED BY <1>1, <1>2, <1>3 DEF VaultInv

LEMMA FaultCounted ==
    ASSUME TypeOK, NEW o \in Outcome, CountFault(o)
    PROVE  faults' \in 0..MaxFaults
BY VaultAssumption DEF TypeOK, CountFault

LEMMA UploadKeepsInv ==
    ASSUME VaultInv, NEW c \in Client, NEW x \in Content, NEW o \in Outcome, UploadBlob(c, x, o)
    PROVE  VaultInv'
<1> DEFINE id == Len(blobs) + 1
<1>1. cmd[c] \in Running /\ HoldsAccepted(cmd[c])
      BY RunningTyped DEF UploadBlob, At
<1>2. BlobId \subseteq BlobId' /\ (o.accepted => id \in BlobId')
      BY DEF UploadBlob, VaultInv, TypeOK, BlobId
<1>3. blobs' \in Seq(Content) BY DEF UploadBlob, VaultInv, TypeOK
<1>4. listedBlobs' \subseteq BlobId'
      BY <1>2 DEF UploadBlob, VaultInv, TypeOK, Outcome
<1>5. o.certain \/ o.listed => o.accepted BY DEF Outcome
<1>6. cmd' = [cmd EXCEPT ![c] = Idle] \/ \E i \in BlobId' : Uploaded(c, x, i)
      <2>1. Adopted(x) \subseteq BlobId' BY <1>2 DEF Adopted, VaultInv, TypeOK
      <2> QED BY <1>2, <1>5, <2>1 DEF UploadBlob, BlobAnswer, End
<1>7. cmd' \in [Client -> Running \cup {Idle}] /\
      \A d \in Client : cmd'[d] # Idle => HoldsAccepted(cmd[d])'
      <2>1. cmd \in [Client -> Running \cup {Idle}] BY DEF VaultInv, TypeOK
      <2>2. \A d \in Client : cmd[d] # Idle => HoldsAccepted(cmd[d]) BY DEF VaultInv
      <2>3. CommitId' = CommitId BY DEF UploadBlob, CommitId
      <2>4. CASE cmd' = [cmd EXCEPT ![c] = Idle]
            BY <1>2, <2>1, <2>2, <2>3, <2>4 DEF HoldsAccepted
      <2>5. ASSUME NEW i \in BlobId', Uploaded(c, x, i)
            PROVE  cmd' \in [Client -> Running \cup {Idle}] /\
                   \A d \in Client : cmd'[d] # Idle => HoldsAccepted(cmd[d])'
            <3>1. cmd' = [cmd EXCEPT ![c] = [cmd[c] EXCEPT !.tree = @ \cup {i},
                                                            !.todo = @ \ {x}]]
                  BY <1>1, <2>1, <2>5 DEF Uploaded, Running
            <3>2. i \in Nat BY DEF BlobId
            <3>3. [cmd[c] EXCEPT !.tree = @ \cup {i}, !.todo = @ \ {x}] \in Running
                  BY <1>1, <3>2 DEF Running
            <3>4. cmd'[c] = [cmd[c] EXCEPT !.tree = @ \cup {i}, !.todo = @ \ {x}]
                  BY <2>1, <3>1
            <3>5. HoldsAccepted(cmd[c])'
                  BY <1>1, <1>2, <2>3, <2>5, <3>4 DEF HoldsAccepted, Running
            <3>6. \A d \in Client \ {c} : cmd'[d] = cmd[d]
                  BY <2>1, <3>1
            <3>7. \A d \in Client \ {c} : cmd'[d] # Idle => HoldsAccepted(cmd[d])'
                  BY <1>2, <2>2, <2>3, <3>6 DEF HoldsAccepted
            <3> QED BY <2>1, <3>1, <3>3, <3>5, <3>7
      <2> QED BY <1>6, <2>4, <2>5
<1>8. TypeOK'
      BY <1>3, <1>4, <1>7, FaultCounted DEF UploadBlob, VaultInv, TypeOK, CommitId
<1>9. DependenciesFirst'
      BY <1>2 DEF UploadBlob, VaultInv, DependenciesFirst, CommitId
<1> QED BY <1>7, <1>8, <1>9 DEF VaultInv

LEMMA NewCommitIsRecord ==
    ASSUME VaultInv, NEW c \in Client, cmd[c] # Idle
    PROVE  NewCommit(cmd[c]) \in Record
<1>1. cmd[c] \in Running /\ HoldsAccepted(cmd[c]) BY RunningTyped
<1>2. \A i \in cmd[c].parents : commits[i] \in Record
      BY <1>1 DEF HoldsAccepted, VaultInv, TypeOK, CommitId
<1>3. UNION {commits[i].anc : i \in cmd[c].parents} \subseteq Nat BY <1>2 DEF Record
<1> QED BY <1>1, <1>3 DEF Running, Record, NewCommit

\* The only step that adds a commit.
LEMMA PublishKeepsInv ==
    ASSUME VaultInv, NEW c \in Client, NEW o \in Outcome, PublishCommit(c, o)
    PROVE  VaultInv'
<1> DEFINE id == Len(commits) + 1
           new == NewCommit(cmd[c])
<1>1. cmd[c] \in Running /\ HoldsAccepted(cmd[c])
      BY RunningTyped DEF PublishCommit, At
<1>2. new \in Record BY NewCommitIsRecord DEF PublishCommit, At
<1>3. commits' = IF o.accepted THEN Append(commits, new) ELSE commits
      BY DEF PublishCommit
<1>4. commits \in Seq(Record) BY DEF VaultInv, TypeOK
<1> HIDE DEF new
<1>5. commits' \in Seq(Record) BY <1>2, <1>3, <1>4
<1>6. /\ CommitId \subseteq CommitId' /\ (o.accepted => id \in CommitId')
      /\ CommitId' \subseteq CommitId \cup {id}
      BY <1>2, <1>3, <1>4 DEF CommitId
<1>7. \A i \in CommitId : commits'[i] = commits[i]
      BY <1>2, <1>3, <1>4 DEF CommitId
<1>8. BlobId' = BlobId BY DEF PublishCommit, BlobId
<1>9. o.certain \/ o.listed => o.accepted BY DEF Outcome
<1>10. listedCommits' \subseteq CommitId'
      BY <1>6, <1>9 DEF PublishCommit, VaultInv, TypeOK
<1>11. /\ cmd' \in [Client -> Running \cup {Idle}]
       /\ \A d \in Client : cmd'[d] # Idle => HoldsAccepted(cmd[d])'
      <2>1. cmd \in [Client -> Running \cup {Idle}] BY DEF VaultInv, TypeOK
      <2>2. \A d \in Client : cmd[d] # Idle => HoldsAccepted(cmd[d]) BY DEF VaultInv
      <2>3. CASE o.certain \/ o.listed
            <3> DEFINE r == [cmd[c] EXCEPT !.step = "observe", !.own = id]
            <3>1. cmd' = [cmd EXCEPT ![c] = r]
                  BY <1>1, <2>1, <2>3 DEF PublishCommit, Running
            <3> HIDE DEF id
            <3>2. r \in Running
                  <4>1. id \in Nat BY <1>4 DEF id
                  <4> QED BY <1>1, <4>1 DEF Running
            <3>3. r.own = id /\ r.parents = cmd[c].parents /\ r.tree = cmd[c].tree
                  BY <1>1 DEF Running
            <3> HIDE DEF r
            <3>4. cmd'[c] = r BY <2>1, <3>1
            <3>5. HoldsAccepted(cmd[c])'
                  BY <1>1, <1>6, <1>8, <1>9, <2>3, <3>3, <3>4 DEF HoldsAccepted
            <3>6. \A d \in Client \ {c} : cmd'[d] = cmd[d] BY <2>1, <3>1
            <3>7. \A d \in Client \ {c} : cmd'[d] # Idle => HoldsAccepted(cmd[d])'
                  BY <1>6, <1>8, <2>2, <3>6 DEF HoldsAccepted
            <3> QED BY <2>1, <3>1, <3>2, <3>5, <3>7
      <2>4. CASE ~(o.certain \/ o.listed)
            <3>1. cmd' = [cmd EXCEPT ![c] = Idle] BY <2>4 DEF PublishCommit, End
            <3> QED BY <1>6, <1>8, <2>1, <2>2, <3>1 DEF HoldsAccepted
      <2> QED BY <2>3, <2>4
<1>12. TypeOK'
      BY <1>5, <1>6, <1>8, <1>10, <1>11, FaultCounted DEF PublishCommit, VaultInv, TypeOK
<1>13. DependenciesFirst'
      <2>1. ASSUME NEW i \in CommitId
            PROVE  commits'[i].parents \subseteq 1..(i - 1) /\ commits'[i].tree \subseteq BlobId'
            BY <1>7, <1>8 DEF VaultInv, DependenciesFirst
      <2>2. ASSUME o.accepted
            PROVE  commits'[id].parents \subseteq 1..(id - 1) /\ commits'[id].tree \subseteq BlobId'
            <3>1. commits'[id] = new BY <1>2, <1>3, <1>4, <2>2
            <3>2. new.parents = cmd[c].parents /\ new.tree = cmd[c].tree BY DEF new, NewCommit
            <3> QED BY <1>1, <1>4, <1>8, <3>1, <3>2 DEF HoldsAccepted, CommitId
      <2>3. ~o.accepted => CommitId' = CommitId BY <1>3 DEF CommitId
      <2> QED BY <1>6, <2>1, <2>2, <2>3 DEF DependenciesFirst
<1> QED BY <1>11, <1>12, <1>13 DEF VaultInv

LEMMA UploadsDoneKeepsInv ==
    ASSUME VaultInv, NEW c \in Client, UploadsDone(c)
    PROVE  VaultInv'
<1> DEFINE r == [cmd[c] EXCEPT !.step = "recheck"]
<1>1. cmd[c] \in Running /\ HoldsAccepted(cmd[c]) BY RunningTyped DEF UploadsDone, At
<1>2. r \in Running BY <1>1 DEF Running
<1>3. HoldsAccepted(r) BY <1>1 DEF HoldsAccepted, Running
<1>4. cmd' = [cmd EXCEPT ![c] = r] BY DEF UploadsDone
<1>5. UNCHANGED <<records, told, faults>> BY DEF UploadsDone
<1> HIDE DEF r
<1> QED BY <1>2, <1>3, <1>4, <1>5, CommandMoves

LEMMA RecheckKeepsInv ==
    ASSUME VaultInv, NEW c \in Client, RecheckHeads(c)
    PROVE  VaultInv'
<1> DEFINE r == [cmd[c] EXCEPT !.step = "publish", !.knew = listedCommits]
<1>1. cmd[c] \in Running /\ HoldsAccepted(cmd[c]) BY RunningTyped DEF RecheckHeads, At
<1>2. UNCHANGED <<records, told, faults>> BY DEF RecheckHeads
<1>3. CASE HeadsStand(c)
      <2>1. r \in Running
            <3>1. listedCommits \subseteq Nat BY DEF VaultInv, TypeOK, CommitId
            <3> QED BY <1>1, <3>1 DEF Running
      <2>2. HoldsAccepted(r) BY <1>1 DEF HoldsAccepted, Running
      <2>3. cmd' = [cmd EXCEPT ![c] = r]
            BY <1>1, <1>3 DEF RecheckHeads, VaultInv, TypeOK, Running
      <2> HIDE DEF r
      <2> QED BY <1>2, <2>1, <2>2, <2>3, CommandMoves
<1>4. CASE ~HeadsStand(c)
      <2>1. End(c) BY <1>4 DEF RecheckHeads
      <2>2. told' \subseteq CommitId BY <1>2 DEF VaultInv, TypeOK
      <2> QED BY <1>2, <2>1, <2>2, EndKeepsInv
<1> QED BY <1>3, <1>4

LEMMA LastStepsKeepInv ==
    ASSUME VaultInv, NEW c \in Client, Observe(c) \/ Crash(c)
    PROVE  VaultInv'
<1>1. End(c) /\ UNCHANGED <<records, faults>> BY DEF Observe, Crash
<1>2. cmd[c] # Idle /\ (At(c, "observe") => cmd[c].own \in CommitId)
      BY DEF Observe, Crash, At, VaultInv, HoldsAccepted
<1>3. told' \subseteq CommitId
      BY <1>2 DEF Observe, Crash, VaultInv, TypeOK
<1> QED BY <1>1, <1>3, EndKeepsInv

LEMMA SurfaceKeepsInv ==
    ASSUME VaultInv, SurfaceBlob \/ SurfaceCommit
    PROVE  VaultInv'
<1>1. TypeOK' BY DEF VaultInv, TypeOK, SurfaceBlob, SurfaceCommit, CommitId, BlobId
<1>2. DependenciesFirst'
      BY DEF VaultInv, DependenciesFirst, SurfaceBlob, SurfaceCommit, CommitId, BlobId
<1>3. \A d \in Client : cmd'[d] # Idle => HoldsAccepted(cmd[d])'
      BY DEF VaultInv, HoldsAccepted, SurfaceBlob, SurfaceCommit, CommitId, BlobId
<1> QED BY <1>1, <1>2, <1>3 DEF VaultInv

LEMMA InitInv == Init => VaultInv
<1> SUFFICES ASSUME Init PROVE VaultInv OBVIOUS
<1>1. TypeOK BY VaultAssumption DEF Init, TypeOK, CommitId, BlobId
<1>2. DependenciesFirst BY DEF Init, DependenciesFirst, CommitId
<1>3. \A c \in Client : cmd[c] = Idle BY DEF Init
<1> QED BY <1>1, <1>2, <1>3 DEF VaultInv

LEMMA NextInv == VaultInv /\ [Next]_vars => VaultInv'
<1> SUFFICES ASSUME VaultInv, [Next]_vars PROVE VaultInv' OBVIOUS
<1>1. ASSUME NEW c \in Client, NEW b \in Branch,
             PushLoad(c, b) \/ ResolveLoad(c, b) \/ \E from \in Branch : BranchLoad(c, b, from)
      PROVE  VaultInv'
      BY <1>1, LoadKeepsInv
<1>2. ASSUME NEW c \in Client, NEW x \in Content, NEW o \in Outcome, UploadBlob(c, x, o)
      PROVE  VaultInv'
      BY <1>2, UploadKeepsInv
<1>3. ASSUME NEW c \in Client, NEW o \in Outcome, PublishCommit(c, o) PROVE VaultInv'
      BY <1>3, PublishKeepsInv
<1>4. ASSUME NEW c \in Client, UploadsDone(c) PROVE VaultInv'
      BY <1>4, UploadsDoneKeepsInv
<1>5. ASSUME NEW c \in Client, RecheckHeads(c) PROVE VaultInv'
      BY <1>5, RecheckKeepsInv
<1>6. ASSUME NEW c \in Client, Observe(c) \/ Crash(c) PROVE VaultInv'
      BY <1>6, LastStepsKeepInv
<1>7. CASE SurfaceBlob \/ SurfaceCommit BY <1>7, SurfaceKeepsInv
<1>8. CASE UNCHANGED vars
      <2>1. TypeOK' BY <1>8 DEF vars, VaultInv, TypeOK, CommitId, BlobId
      <2>2. DependenciesFirst' BY <1>8 DEF vars, VaultInv, DependenciesFirst, CommitId, BlobId
      <2>3. \A d \in Client : cmd'[d] # Idle => HoldsAccepted(cmd[d])'
            BY <1>8 DEF vars, VaultInv, HoldsAccepted, CommitId, BlobId
      <2> QED BY <2>1, <2>2, <2>3 DEF VaultInv
<1> QED BY <1>1, <1>2, <1>3, <1>4, <1>5, <1>6, <1>7, <1>8 DEF Next

\* The variables keep their types: what the vault lists was accepted, and a
\* command refers to records by their ids.
THEOREM TypeCorrect == Spec => []TypeOK
<1>1. VaultInv => TypeOK BY DEF VaultInv
<1> QED BY <1>1, InitInv, NextInv, PTL DEF Spec

\* Whatever is lost, late or refused, a commit is accepted only after its parents
\* and its blobs.
THEOREM DependenciesAreFirst == Spec => []DependenciesFirst
<1>1. VaultInv => DependenciesFirst BY DEF VaultInv
<1> QED BY <1>1, InitInv, NextInv, PTL DEF Spec

------------------------------------------------------------------------------
(***************************************************************************)
(* The second look.  Ancestors are closed under ancestors, so a listed     *)
(* commit is a head or below one; a command that found its parents to be   *)
(* the heads therefore descends from all that was listed then.             *)
(***************************************************************************)

AncestorsClosed ==
    \A i \in CommitId :
        /\ commits[i].anc \subseteq 1..(i - 1) /\ commits[i].knew \subseteq CommitId
        /\ \A j \in commits[i].anc : commits[j].anc \subseteq commits[i].anc

\* The heads in H stand for every commit of branch b in K.
Covers(H, K, b) ==
    \A j \in K : commits[j].branch = b => j \in H \cup UNION {commits[h].anc : h \in H}

LooksClosed(r) ==
    /\ r.knew \subseteq CommitId
    /\ r.kind # "branch" =>
        /\ r.watched = r.branch
        /\ r.step = "publish" => Covers(r.parents, r.knew, r.branch)

WindowInv ==
    /\ VaultInv
    /\ AncestorsClosed
    /\ ForksOnlyWithinWindow
    /\ \A c \in Client : cmd[c] # Idle => LooksClosed(cmd[c])

LEMMA HasGreatest ==
    ASSUME NEW n \in Nat, NEW K \in SUBSET (1..n), K # {}
    PROVE  \E k \in K : \A m \in K : m <= k
<1> DEFINE R == {ss \in Nat \X Nat : ss[1] < ss[2]}
           T == {n - k : k \in K}
<1>1. T \subseteq Nat /\ T # {}
      <2>1. PICK k0 \in K : TRUE OBVIOUS
      <2>2. n - k0 \in T BY <2>1
      <2>3. T \subseteq Nat OBVIOUS
      <2> QED BY <2>2, <2>3
<1>2. PICK x \in T : \A y \in T : <<y, x>> \notin R
      <2>1. IsWellFoundedOn(R, Nat) BY NatLessThanWellFounded DEF OpToRel
      <2> HIDE DEF R, T
      <2> QED BY <1>1, <2>1, WFMin
<1>3. PICK k \in K : x = n - k OBVIOUS
<1>4. ASSUME NEW m \in K PROVE m <= k
      <2>1. n - m \in T OBVIOUS
      <2>2. ~(n - m < x) BY <1>1, <1>2, <2>1
      <2> QED BY <1>3, <2>2
<1> QED BY <1>4

\* Following descendants among the listed commits ends at a head.
LEMMA ListedIsCovered ==
    ASSUME WindowInv, NEW b
    PROVE  Covers(HeadsOf(b), listedCommits, b)
<1> SUFFICES ASSUME NEW j \in listedCommits, commits[j].branch = b, j \notin HeadsOf(b)
             PROVE  \E h \in HeadsOf(b) : j \in commits[h].anc
    BY DEF Covers
<1> DEFINE K == {k \in listedCommits : commits[k].branch = b /\ j \in commits[k].anc}
<1>1. Len(commits) \in Nat /\ listedCommits \subseteq 1..Len(commits)
      BY DEF WindowInv, VaultInv, TypeOK, CommitId
<1>2. K \subseteq 1..Len(commits) BY <1>1
<1>3. K # {} BY DEF HeadsOf
<1>4. PICK k \in K : \A m \in K : m <= k
      <2> HIDE DEF K
      <2> QED BY <1>1, <1>2, <1>3, HasGreatest
<1>5. ASSUME NEW m \in listedCommits, commits[m].branch = b, k \in commits[m].anc PROVE FALSE
      <2>1. k \in 1..(m - 1) /\ commits[k].anc \subseteq commits[m].anc
            BY <1>1, <1>5 DEF WindowInv, AncestorsClosed, CommitId
      <2>2. m \in K BY <1>5, <2>1
      <2> QED BY <1>1, <1>4, <2>1, <2>2
<1>6. k \in HeadsOf(b) BY <1>5 DEF HeadsOf
<1> QED BY <1>6

\* A step that adds no commit and gives no command a new look.
LEMMA OldCommitsStand ==
    ASSUME WindowInv, VaultInv', commits' = commits,
           \A c \in Client : cmd'[c] # Idle => LooksClosed(cmd'[c])
    PROVE  WindowInv'
<1>1. AncestorsClosed' /\ ForksOnlyWithinWindow'
      BY DEF WindowInv, AncestorsClosed, ForksOnlyWithinWindow, CommitId
<1>2. \A c \in Client : cmd'[c] # Idle => LooksClosed(cmd[c])'
      BY DEF LooksClosed, Covers, CommitId
<1> QED BY <1>1, <1>2 DEF WindowInv

LEMMA PublishKeepsWindow ==
    ASSUME WindowInv, VaultInv', NEW c \in Client, NEW o \in Outcome, PublishCommit(c, o)
    PROVE  WindowInv'
<1> DEFINE id == Len(commits) + 1
           anc == cmd[c].parents \cup UNION {commits[i].anc : i \in cmd[c].parents}
           new == NewCommit(cmd[c])
<1>1. cmd[c] \in Running /\ HoldsAccepted(cmd[c]) /\ LooksClosed(cmd[c]) /\ cmd[c].step = "publish"
      BY RunningTyped DEF PublishCommit, At, WindowInv
<1>2. commits \in Seq(Record) /\ cmd \in [Client -> Running \cup {Idle}]
      BY DEF WindowInv, VaultInv, TypeOK
<1>3. commits' = IF o.accepted THEN Append(commits, new) ELSE commits
      BY DEF PublishCommit
<1> HIDE DEF new
<1>4. CommitId' = IF o.accepted THEN CommitId \cup {id} ELSE CommitId
      <2>1. new \in Record BY NewCommitIsRecord DEF PublishCommit, At, WindowInv, new
      <2>2. CASE o.accepted
            <3>1. Len(commits) \in Nat /\ Len(commits') = Len(commits) + 1
                  BY <1>2, <1>3, <2>1, <2>2
            <3>2. \A n \in Nat : 1..(n + 1) = (1..n) \cup {n + 1} OBVIOUS
            <3> QED BY <2>2, <3>1, <3>2 DEF CommitId
      <2>3. CASE ~o.accepted BY <1>3, <2>3 DEF CommitId
      <2> QED BY <2>2, <2>3
<1>5. /\ \A i \in CommitId : commits'[i] = commits[i]
      /\ o.accepted => commits'[id] = new
      <2>1. new \in Record BY NewCommitIsRecord DEF PublishCommit, At, WindowInv, new
      <2> QED BY <1>2, <1>3, <2>1 DEF CommitId
<1>6. cmd[c].parents \subseteq CommitId BY <1>1 DEF HoldsAccepted
<1>7. /\ anc \subseteq 1..(id - 1)
      /\ \A j \in anc : commits[j].anc \subseteq anc
      <2>1. \A i \in CommitId : /\ commits[i].anc \subseteq CommitId
                                /\ \A j \in commits[i].anc : commits[j].anc \subseteq commits[i].anc
            BY <1>2 DEF WindowInv, AncestorsClosed, CommitId
      <2>2. CommitId = 1..(id - 1) BY <1>2 DEF CommitId
      <2> HIDE DEF id
      <2> QED BY <1>6, <2>1, <2>2
<1>8. /\ cmd[c].knew \subseteq CommitId
      /\ cmd[c].kind # "branch" =>
           \A j \in cmd[c].knew : commits[j].branch = cmd[c].branch => j \in anc
      BY <1>1 DEF LooksClosed, Covers
<1>9. /\ new.branch = cmd[c].branch /\ new.kind = cmd[c].kind
      /\ new.knew = cmd[c].knew /\ new.anc = anc
      BY DEF new, NewCommit
<1>10. id \notin CommitId BY <1>2 DEF CommitId
<1> HIDE DEF anc, id
<1>11. AncestorsClosed'
      <2>1. ASSUME NEW i \in CommitId
            PROVE  /\ commits'[i].anc \subseteq 1..(i - 1) /\ commits'[i].knew \subseteq CommitId'
                   /\ \A j \in commits'[i].anc : commits'[j].anc \subseteq commits'[i].anc
            <3>1. commits[i].anc \subseteq CommitId
                  BY <1>2 DEF WindowInv, AncestorsClosed, CommitId
            <3> QED BY <1>4, <1>5, <3>1 DEF WindowInv, AncestorsClosed
      <2>2. ASSUME o.accepted
            PROVE  /\ commits'[id].anc \subseteq 1..(id - 1) /\ commits'[id].knew \subseteq CommitId'
                   /\ \A j \in commits'[id].anc : commits'[j].anc \subseteq commits'[id].anc
            <3>1. anc \subseteq CommitId BY <1>2, <1>7 DEF CommitId, id
            <3> QED BY <1>4, <1>5, <1>7, <1>8, <1>9, <2>2, <3>1
      <2> QED BY <1>4, <2>1, <2>2 DEF AncestorsClosed
<1>12. ForksOnlyWithinWindow'
      <2>1. ASSUME NEW i \in CommitId, commits'[i].kind # "branch", NEW j \in commits'[i].knew,
                   commits'[j].branch = commits'[i].branch
            PROVE  j \in commits'[i].anc
            <3>1. j \in CommitId BY <1>5 DEF WindowInv, AncestorsClosed
            <3> QED BY <1>5, <2>1, <3>1 DEF WindowInv, ForksOnlyWithinWindow
      <2>2. ASSUME o.accepted, commits'[id].kind # "branch", NEW j \in commits'[id].knew,
                   commits'[j].branch = commits'[id].branch
            PROVE  j \in commits'[id].anc
            BY <1>5, <1>8, <1>9, <2>2
      <2> QED BY <1>4, <2>1, <2>2 DEF ForksOnlyWithinWindow
<1>13. ASSUME NEW d \in Client, cmd'[d] # Idle PROVE LooksClosed(cmd[d])'
      <2>1. CASE d = c
            <3>1. o.certain \/ o.listed
                  BY <1>2, <1>13, <2>1 DEF PublishCommit, End
            <3>2. cmd'[c] = [cmd[c] EXCEPT !.step = "observe", !.own = Len(commits) + 1]
                  BY <1>1, <1>2, <3>1 DEF PublishCommit, Running
            <3>3. /\ cmd'[c].knew = cmd[c].knew /\ cmd'[c].kind = cmd[c].kind
                  /\ cmd'[c].watched = cmd[c].watched /\ cmd'[c].branch = cmd[c].branch
                  /\ cmd'[c].step = "observe"
                  BY <1>1, <3>2 DEF Running
            <3> QED BY <1>1, <1>4, <2>1, <3>3 DEF LooksClosed
      <2>2. CASE d # c
            <3>1. cmd'[d] = cmd[d] BY <1>2, <2>2 DEF PublishCommit, End
            <3>2. LooksClosed(cmd[d]) BY <1>13, <3>1 DEF WindowInv
            <3>3. cmd[d] \in Running /\ HoldsAccepted(cmd[d])
                  BY <1>13, <3>1, RunningTyped DEF WindowInv
            <3>4. Covers(cmd[d].parents, cmd[d].knew, cmd[d].branch) =>
                    Covers(cmd[d].parents, cmd[d].knew, cmd[d].branch)'
                  BY <1>5, <3>1, <3>2, <3>3 DEF Covers, LooksClosed, HoldsAccepted
            <3> QED BY <1>4, <3>1, <3>2, <3>4 DEF LooksClosed
      <2> QED BY <2>1, <2>2
<1> QED BY <1>11, <1>12, <1>13 DEF WindowInv

\* The commits stay; client c moves on to r, the others stand.
LEMMA LookMoves ==
    ASSUME WindowInv, VaultInv', commits' = commits, NEW c \in Client,
           NEW r, cmd' = [cmd EXCEPT ![c] = r], r # Idle => LooksClosed(r)
    PROVE  WindowInv'
<1>1. cmd \in [Client -> Running \cup {Idle}] BY DEF WindowInv, VaultInv, TypeOK
<1>2. ASSUME NEW d \in Client, cmd'[d] # Idle PROVE LooksClosed(cmd'[d])
      BY <1>1, <1>2 DEF WindowInv
<1> QED BY <1>2, OldCommitsStand

LEMMA LoadKeepsWindow ==
    ASSUME WindowInv, VaultInv', NEW c \in Client, NEW b \in Branch,
           PushLoad(c, b) \/ ResolveLoad(c, b) \/ \E from \in Branch : BranchLoad(c, b, from)
    PROVE  WindowInv'
<1>1. commits' = commits BY DEF PushLoad, ResolveLoad, BranchLoad, records
<1>2. CASE PushLoad(c, b)
      <2>1. PICK kept \in SUBSET TreeOf(HeadsOf(b)), uploads \in SUBSET Content :
                Begin(c, "push", "upload", b, b, kept, uploads)
            BY <1>2 DEF PushLoad
      <2> DEFINE r == [kind |-> "push", step |-> "upload", branch |-> b, watched |-> b,
                       parents |-> HeadsOf(b), tree |-> kept, todo |-> uploads,
                       knew |-> {}, own |-> 0]
      <2>2. cmd' = [cmd EXCEPT ![c] = r] BY <2>1 DEF Begin
      <2>3. LooksClosed(r) BY DEF LooksClosed
      <2> HIDE DEF r
      <2> QED BY <1>1, <2>2, <2>3, LookMoves
<1>3. CASE ResolveLoad(c, b)
      <2>1. PICK heads \in SUBSET {i \in listedCommits : commits[i].branch = b} :
              \E take \in heads :
                cmd' = [cmd EXCEPT ![c] =
                          [kind |-> "resolve", step |-> "recheck", branch |-> b, watched |-> b,
                           parents |-> heads, tree |-> commits[take].tree, todo |-> {},
                           knew |-> {}, own |-> 0]]
            BY <1>3 DEF ResolveLoad
      <2>2. PICK take \in heads :
                cmd' = [cmd EXCEPT ![c] =
                          [kind |-> "resolve", step |-> "recheck", branch |-> b, watched |-> b,
                           parents |-> heads, tree |-> commits[take].tree, todo |-> {},
                           knew |-> {}, own |-> 0]]
            BY <2>1
      <2> DEFINE r == [kind |-> "resolve", step |-> "recheck", branch |-> b, watched |-> b,
                       parents |-> heads, tree |-> commits[take].tree, todo |-> {},
                       knew |-> {}, own |-> 0]
      <2>3. LooksClosed(r) BY DEF LooksClosed
      <2>4. cmd' = [cmd EXCEPT ![c] = r] BY <2>2
      <2> HIDE DEF r
      <2> QED BY <1>1, <2>3, <2>4, LookMoves
<1>4. ASSUME NEW from \in Branch, BranchLoad(c, b, from) PROVE WindowInv'
      <2> DEFINE r == [kind |-> "branch", step |-> "recheck", branch |-> b, watched |-> from,
                       parents |-> HeadsOf(from), tree |-> TreeOf(HeadsOf(from)), todo |-> {},
                       knew |-> {}, own |-> 0]
      <2>1. cmd' = [cmd EXCEPT ![c] = r] BY <1>4 DEF BranchLoad, Begin
      <2>2. LooksClosed(r) BY DEF LooksClosed
      <2> HIDE DEF r
      <2> QED BY <1>1, <2>1, <2>2, LookMoves
<1> QED BY <1>2, <1>3, <1>4

\* Everything between the two looks, and after the commit.
LEMMA OtherStepsKeepWindow ==
    ASSUME WindowInv, VaultInv', NEW c \in Client,
           \/ \E x \in Content, o \in Outcome : UploadBlob(c, x, o)
           \/ UploadsDone(c) \/ Observe(c) \/ Crash(c)
    PROVE  WindowInv'
<1>1. commits' = commits BY DEF UploadBlob, UploadsDone, Observe, Crash, records
<1>2. cmd[c] # Idle BY DEF UploadBlob, UploadsDone, Observe, Crash, At
<1>3. cmd[c] \in Running /\ LooksClosed(cmd[c]) BY <1>2, RunningTyped DEF WindowInv
<1>4. CASE End(c) BY <1>1, <1>4, LookMoves DEF End
<1>5. ASSUME NEW x \in Content, NEW i, cmd[c].step = "upload", Uploaded(c, x, i) PROVE WindowInv'
      <2> DEFINE r == [cmd[c] EXCEPT !.tree = @ \cup {i}, !.todo = @ \ {x}]
      <2>1. cmd' = [cmd EXCEPT ![c] = r]
            BY <1>3, <1>5 DEF Uploaded, Running, WindowInv, VaultInv, TypeOK
      <2>2. LooksClosed(r) BY <1>3, <1>5 DEF LooksClosed, Running
      <2> HIDE DEF r
      <2> QED BY <1>1, <2>1, <2>2, LookMoves
<1>6. CASE UploadsDone(c)
      <2> DEFINE r == [cmd[c] EXCEPT !.step = "recheck"]
      <2>1. cmd' = [cmd EXCEPT ![c] = r] BY <1>6 DEF UploadsDone
      <2>2. LooksClosed(r) BY <1>3 DEF LooksClosed, Running
      <2> HIDE DEF r
      <2> QED BY <1>1, <2>1, <2>2, LookMoves
<1>7. ASSUME NEW x \in Content, NEW o \in Outcome, UploadBlob(c, x, o)
      PROVE  End(c) \/ \E i : cmd[c].step = "upload" /\ Uploaded(c, x, i)
      BY <1>7 DEF UploadBlob, BlobAnswer, At
<1> QED BY <1>4, <1>5, <1>6, <1>7 DEF Observe, Crash

\* The second look itself.
LEMMA RecheckKeepsWindow ==
    ASSUME WindowInv, VaultInv', NEW c \in Client, RecheckHeads(c)
    PROVE  WindowInv'
<1> DEFINE r == [cmd[c] EXCEPT !.step = "publish", !.knew = listedCommits]
<1>1. commits' = commits BY DEF RecheckHeads, records
<1>2. cmd[c] \in Running /\ LooksClosed(cmd[c])
      BY RunningTyped DEF RecheckHeads, At, WindowInv
<1>3. CASE HeadsStand(c)
      <2>1. cmd' = [cmd EXCEPT ![c] = r]
            BY <1>2, <1>3 DEF RecheckHeads, WindowInv, VaultInv, TypeOK, Running
      <2>2. listedCommits \subseteq CommitId BY DEF WindowInv, VaultInv, TypeOK
      <2>3. cmd[c].parents = HeadsOf(cmd[c].watched) BY <1>3 DEF HeadsStand
      <2>4. Covers(cmd[c].parents, listedCommits, cmd[c].watched) BY <2>3, ListedIsCovered
      <2>5. /\ r.kind = cmd[c].kind /\ r.watched = cmd[c].watched /\ r.branch = cmd[c].branch
            /\ r.parents = cmd[c].parents /\ r.knew = listedCommits
            BY <1>2 DEF Running
      <2> HIDE DEF r
      <2>6. LooksClosed(r) BY <1>2, <2>2, <2>4, <2>5 DEF LooksClosed
      <2> QED BY <1>1, <2>1, <2>6, LookMoves
<1>4. CASE ~HeadsStand(c)
      <2>1. End(c) BY <1>4 DEF RecheckHeads
      <2> QED BY <1>1, <2>1, LookMoves DEF End
<1> QED BY <1>3, <1>4

LEMMA NextWindow == WindowInv /\ [Next]_vars => WindowInv'
<1> SUFFICES ASSUME WindowInv, [Next]_vars PROVE WindowInv' OBVIOUS
<1>1. VaultInv' BY NextInv DEF WindowInv
<1>2. ASSUME NEW c \in Client, NEW b \in Branch,
             PushLoad(c, b) \/ ResolveLoad(c, b) \/ \E from \in Branch : BranchLoad(c, b, from)
      PROVE  WindowInv'
      BY <1>1, <1>2, LoadKeepsWindow
<1>3. ASSUME NEW c \in Client,
             \/ \E x \in Content, o \in Outcome : UploadBlob(c, x, o)
             \/ UploadsDone(c) \/ Observe(c) \/ Crash(c)
      PROVE  WindowInv'
      BY <1>1, <1>3, OtherStepsKeepWindow
<1>4. ASSUME NEW c \in Client, NEW o \in Outcome, PublishCommit(c, o) PROVE WindowInv'
      BY <1>1, <1>4, PublishKeepsWindow
<1>5. ASSUME NEW c \in Client, RecheckHeads(c) PROVE WindowInv'
      BY <1>1, <1>5, RecheckKeepsWindow
<1>6. CASE SurfaceBlob \/ SurfaceCommit \/ UNCHANGED vars
      <2>1. commits' = commits /\ cmd' = cmd BY <1>6 DEF SurfaceBlob, SurfaceCommit, vars
      <2>2. \A c \in Client : cmd'[c] # Idle => LooksClosed(cmd'[c]) BY <2>1 DEF WindowInv
      <2> QED BY <1>1, <2>1, <2>2, OldCommitsStand
<1> QED BY <1>2, <1>3, <1>4, <1>5, <1>6 DEF Next

\* However long the uploads of a push take, and whatever the others publish and
\* the vault lists meanwhile, its commit descends from all that was listed of its
\* branch when it looked again; so does the commit of resolve.
THEOREM SecondLookClosesWindow == Spec => []ForksOnlyWithinWindow
<1>1. Init => WindowInv
      <2> SUFFICES ASSUME Init PROVE WindowInv OBVIOUS
      <2>1. CommitId = {} BY DEF Init, CommitId
      <2>2. AncestorsClosed /\ ForksOnlyWithinWindow
            BY <2>1 DEF AncestorsClosed, ForksOnlyWithinWindow
      <2>3. \A c \in Client : cmd[c] = Idle BY DEF Init
      <2> QED BY <2>2, <2>3, InitInv DEF WindowInv
<1>2. WindowInv => ForksOnlyWithinWindow BY DEF WindowInv
<1> QED BY <1>1, <1>2, NextWindow, PTL DEF Spec

------------------------------------------------------------------------------
(***************************************************************************)
(* Forks.  A commit that nobody was told about has its author about to     *)
(* look, is the only head, or has a later commit on its branch: the latest *)
(* commit of a forked branch, which is a head, was told.  This needs every *)
(* record to be listed when it is accepted, so that the last look finds    *)
(* the history complete.  The parents a command carries are heads of one   *)
(* branch, of which none is an ancestor of another.                        *)
(***************************************************************************)

Apart(P) == \A j, k \in P : j \notin commits[k].anc

Accounted(i) ==
    \/ i \in told
    \/ \E c \in Client : At(c, "observe") /\ cmd[c].own = i
    \/ HeadsOf(commits[i].branch) = {i}
    \/ \E j \in CommitId : j > i /\ commits[j].branch = commits[i].branch

Reported ==
    /\ listedCommits = CommitId /\ listedBlobs = BlobId
    /\ \A i \in CommitId : Accounted(i)

ForkInv ==
    /\ WindowInv
    /\ JoinsAreOfHeads
    /\ \A c \in Client : cmd[c] # Idle => Apart(cmd[c].parents)
    /\ \A c \in Client : At(c, "observe") => commits[cmd[c].own].branch = cmd[c].branch
    /\ faults = 0 => Reported

LEMMA HeadsAreApart ==
    ASSUME TypeOK, NEW b
    PROVE  Apart(HeadsOf(b))
BY DEF Apart, HeadsOf

\* A command that has nothing to look at yet moves on, or ends: what was reported
\* still is.
LEMMA CommandKeepsForks ==
    ASSUME ForkInv, WindowInv', NEW c \in Client, ~At(c, "observe"),
           NEW r, cmd' = [cmd EXCEPT ![c] = r],
           r # Idle => Apart(r.parents) /\ r.step # "observe",
           UNCHANGED <<commits, listedCommits, told>>,
           faults' = 0 => faults = 0 /\ listedBlobs' = BlobId'
    PROVE  ForkInv'
<1>1. cmd \in [Client -> Running \cup {Idle}]
      BY DEF ForkInv, WindowInv, VaultInv, TypeOK
<1>2. JoinsAreOfHeads' BY DEF ForkInv, JoinsAreOfHeads, CommitId
<1>3. \A d \in Client : cmd'[d] # Idle => Apart(cmd[d].parents)'
      BY <1>1 DEF ForkInv, Apart
<1>4. \A d \in Client : At(d, "observe")' => d # c /\ cmd'[d] = cmd[d] /\ At(d, "observe")
      BY <1>1 DEF At
<1>5. \A d \in Client : At(d, "observe")' => commits'[cmd'[d].own].branch = cmd'[d].branch
      BY <1>4 DEF ForkInv
<1>6. \A d \in Client : At(d, "observe") => At(d, "observe")' /\ cmd'[d] = cmd[d]
      BY <1>1 DEF At
<1>7. \A b : HeadsOf(b)' = HeadsOf(b) BY DEF HeadsOf
<1>8. ASSUME faults' = 0 PROVE Reported'
      <2>1. Reported BY <1>8 DEF ForkInv
      <2>2. CommitId' = CommitId BY DEF CommitId
      <2>3. ASSUME NEW i \in CommitId PROVE Accounted(i)'
            <3>1. Accounted(i) BY <2>1 DEF Reported
            <3> QED BY <1>6, <1>7, <2>2, <3>1 DEF Accounted
      <2> QED BY <1>8, <2>1, <2>2, <2>3 DEF Reported
<1> QED BY <1>2, <1>3, <1>5, <1>8 DEF ForkInv

LEMMA FaultsStay ==
    ASSUME NEW o \in Outcome, CountFault(o), TypeOK, faults' = 0
    PROVE  faults = 0 /\ o.accepted /\ o.listed /\ o.certain
BY DEF CountFault, Faulty, Outcome, TypeOK

LEMMA LoadKeepsForks ==
    ASSUME ForkInv, WindowInv', NEW c \in Client, NEW b \in Branch,
           PushLoad(c, b) \/ ResolveLoad(c, b) \/ \E from \in Branch : BranchLoad(c, b, from)
    PROVE  ForkInv'
<1>1. TypeOK BY DEF ForkInv, WindowInv, VaultInv
<1>2. cmd[c] = Idle /\ UNCHANGED <<records, told, faults>>
      BY DEF PushLoad, ResolveLoad, BranchLoad
<1>3. \E r : /\ cmd' = [cmd EXCEPT ![c] = r] /\ r.step # "observe"
             /\ \E w : r.parents = HeadsOf(w)
      <2>1. CASE PushLoad(c, b)
            <3>1. PICK kept, uploads : Begin(c, "push", "upload", b, b, kept, uploads)
                  BY <2>1 DEF PushLoad
            <3> DEFINE r == [kind |-> "push", step |-> "upload", branch |-> b, watched |-> b,
                             parents |-> HeadsOf(b), tree |-> kept, todo |-> uploads,
                             knew |-> {}, own |-> 0]
            <3>2. cmd' = [cmd EXCEPT ![c] = r] BY <3>1 DEF Begin
            <3>3. r.step # "observe" /\ r.parents = HeadsOf(b) OBVIOUS
            <3> HIDE DEF r
            <3> QED BY <3>2, <3>3
      <2>2. CASE ResolveLoad(c, b)
            <3>1. PICK heads : HeadsAsObserved(b, heads) /\ \E take \in heads :
                    cmd' = [cmd EXCEPT ![c] =
                              [kind |-> "resolve", step |-> "recheck", branch |-> b, watched |-> b,
                               parents |-> heads, tree |-> commits[take].tree, todo |-> {},
                               knew |-> {}, own |-> 0]]
                  BY <2>2 DEF ResolveLoad
            <3>2. PICK take \in heads :
                    cmd' = [cmd EXCEPT ![c] =
                              [kind |-> "resolve", step |-> "recheck", branch |-> b, watched |-> b,
                               parents |-> heads, tree |-> commits[take].tree, todo |-> {},
                               knew |-> {}, own |-> 0]]
                  BY <3>1
            <3> DEFINE r == [kind |-> "resolve", step |-> "recheck", branch |-> b, watched |-> b,
                             parents |-> heads, tree |-> commits[take].tree, todo |-> {},
                             knew |-> {}, own |-> 0]
            <3>3. cmd' = [cmd EXCEPT ![c] = r] BY <3>2
            <3>4. r.step # "observe" /\ r.parents = HeadsOf(b) BY <3>1 DEF HeadsAsObserved
            <3> HIDE DEF r
            <3> QED BY <3>3, <3>4
      <2>3. ASSUME NEW from \in Branch, BranchLoad(c, b, from)
            PROVE  \E r : /\ cmd' = [cmd EXCEPT ![c] = r] /\ r.step # "observe"
                          /\ \E w : r.parents = HeadsOf(w)
            <3> DEFINE r == [kind |-> "branch", step |-> "recheck", branch |-> b, watched |-> from,
                             parents |-> HeadsOf(from), tree |-> TreeOf(HeadsOf(from)),
                             todo |-> {}, knew |-> {}, own |-> 0]
            <3>1. cmd' = [cmd EXCEPT ![c] = r] BY <2>3 DEF BranchLoad, Begin
            <3>2. r.step # "observe" /\ r.parents = HeadsOf(from) OBVIOUS
            <3> HIDE DEF r
            <3> QED BY <3>1, <3>2
      <2> QED BY <2>1, <2>2, <2>3
<1>4. PICK r : /\ cmd' = [cmd EXCEPT ![c] = r] /\ r.step # "observe"
               /\ \E w : r.parents = HeadsOf(w)
      BY <1>3
<1>5. Apart(r.parents) BY <1>1, <1>4, HeadsAreApart
<1>6. ~At(c, "observe") BY <1>2 DEF At
<1>7. UNCHANGED <<commits, listedCommits, told>> BY <1>2 DEF records
<1>8. faults' = 0 => faults = 0 /\ listedBlobs' = BlobId'
      BY <1>2 DEF records, ForkInv, Reported, BlobId
<1> QED BY <1>4, <1>5, <1>6, <1>7, <1>8, CommandKeepsForks

\* From the uploads to the second look.
LEMMA PreparingKeepsForks ==
    ASSUME ForkInv, WindowInv', NEW c \in Client,
           \/ \E x \in Content, o \in Outcome : UploadBlob(c, x, o)
           \/ UploadsDone(c) \/ RecheckHeads(c)
    PROVE  ForkInv'
<1>1. TypeOK /\ cmd \in [Client -> Running \cup {Idle}]
      BY DEF ForkInv, WindowInv, VaultInv, TypeOK
<1>2. cmd[c] # Idle /\ cmd[c].step \in {"upload", "recheck"}
      BY DEF UploadBlob, UploadsDone, RecheckHeads, At
<1>3. cmd[c] \in Running /\ Apart(cmd[c].parents) /\ ~At(c, "observe")
      BY <1>1, <1>2 DEF ForkInv, At
<1>4. UNCHANGED <<commits, listedCommits, told>>
      BY DEF UploadBlob, UploadsDone, RecheckHeads, records
<1>5. faults' = 0 => faults = 0 /\ listedBlobs' = BlobId'
      <2>1. ASSUME NEW x \in Content, NEW o \in Outcome, UploadBlob(c, x, o), faults' = 0
            PROVE  faults = 0 /\ listedBlobs' = BlobId'
            <3>1. faults = 0 /\ o.accepted /\ o.listed
                  BY <1>1, <2>1, FaultsStay DEF UploadBlob
            <3>2. /\ listedBlobs = BlobId /\ blobs' = Append(blobs, x)
                  /\ listedBlobs' = listedBlobs \cup {Len(blobs) + 1}
                  BY <2>1, <3>1 DEF UploadBlob, ForkInv, Reported
            <3>3. Len(blobs) \in Nat /\ Len(blobs') = Len(blobs) + 1
                  BY <1>1, <3>2 DEF TypeOK
            <3>4. \A n \in Nat : 1..(n + 1) = (1..n) \cup {n + 1} OBVIOUS
            <3> QED BY <3>1, <3>2, <3>3, <3>4 DEF BlobId
      <2>2. ASSUME UploadsDone(c) \/ RecheckHeads(c), faults' = 0
            PROVE  faults = 0 /\ listedBlobs' = BlobId'
            BY <2>2 DEF UploadsDone, RecheckHeads, records, ForkInv, Reported, BlobId
      <2> QED BY <2>1, <2>2
<1>6. \E r : /\ cmd' = [cmd EXCEPT ![c] = r]
             /\ r = Idle \/ (r.parents = cmd[c].parents /\ r.step # "observe")
      <2>1. CASE End(c) BY <2>1 DEF End
      <2>2. ASSUME NEW x \in Content, NEW i, cmd[c].step = "upload", Uploaded(c, x, i)
            PROVE  \E r : /\ cmd' = [cmd EXCEPT ![c] = r]
                          /\ r = Idle \/ (r.parents = cmd[c].parents /\ r.step # "observe")
            <3> DEFINE r == [cmd[c] EXCEPT !.tree = @ \cup {i}, !.todo = @ \ {x}]
            <3>1. cmd' = [cmd EXCEPT ![c] = r] BY <1>1, <1>3, <2>2 DEF Uploaded, Running
            <3>2. r.parents = cmd[c].parents /\ r.step # "observe" BY <1>3, <2>2 DEF Running
            <3> HIDE DEF r
            <3> QED BY <3>1, <3>2
      <2>3. CASE UploadsDone(c)
            <3> DEFINE r == [cmd[c] EXCEPT !.step = "recheck"]
            <3>1. cmd' = [cmd EXCEPT ![c] = r] BY <2>3 DEF UploadsDone
            <3>2. r.parents = cmd[c].parents /\ r.step # "observe" BY <1>3 DEF Running
            <3> HIDE DEF r
            <3> QED BY <3>1, <3>2
      <2>4. CASE RecheckHeads(c) /\ HeadsStand(c)
            <3> DEFINE r == [cmd[c] EXCEPT !.step = "publish", !.knew = listedCommits]
            <3>1. cmd' = [cmd EXCEPT ![c] = r] BY <1>1, <1>3, <2>4 DEF RecheckHeads, Running
            <3>2. r.parents = cmd[c].parents /\ r.step # "observe" BY <1>3 DEF Running
            <3> HIDE DEF r
            <3> QED BY <3>1, <3>2
      <2>5. ASSUME NEW x \in Content, NEW o \in Outcome, UploadBlob(c, x, o)
            PROVE  End(c) \/ \E i : cmd[c].step = "upload" /\ Uploaded(c, x, i)
            BY <2>5 DEF UploadBlob, BlobAnswer, At
      <2>6. RecheckHeads(c) /\ ~HeadsStand(c) => End(c) BY DEF RecheckHeads
      <2> QED BY <2>1, <2>2, <2>3, <2>4, <2>5, <2>6
<1>7. PICK r : /\ cmd' = [cmd EXCEPT ![c] = r]
               /\ r = Idle \/ (r.parents = cmd[c].parents /\ r.step # "observe")
      BY <1>6
<1>8. r # Idle => Apart(r.parents) /\ r.step # "observe" BY <1>3, <1>7
<1> QED BY <1>3, <1>4, <1>5, <1>7, <1>8, CommandKeepsForks

\* A new commit is its author's to look at, and gives those of its branch a later one.
LEMMA PublishKeepsForks ==
    ASSUME ForkInv, WindowInv', NEW c \in Client, NEW o \in Outcome, PublishCommit(c, o)
    PROVE  ForkInv'
<1> DEFINE new == NewCommit(cmd[c])
<1>1. VaultInv /\ TypeOK BY DEF ForkInv, WindowInv, VaultInv
<1>0. PICK id \in Nat : id = Len(commits) + 1 BY <1>1 DEF TypeOK
<1>2. /\ cmd[c] # Idle /\ cmd[c] \in Running /\ cmd[c].step = "publish"
      /\ cmd[c].parents \subseteq CommitId /\ Apart(cmd[c].parents)
      BY <1>1, RunningTyped DEF PublishCommit, At, HoldsAccepted, ForkInv
<1>3. commits \in Seq(Record) /\ cmd \in [Client -> Running \cup {Idle}]
      BY <1>1 DEF TypeOK
<1>4. new \in Record BY <1>1, <1>2, NewCommitIsRecord
<1>5. /\ new.branch = cmd[c].branch /\ new.parents = cmd[c].parents
      BY DEF NewCommit
<1>6. commits' = IF o.accepted THEN Append(commits, new) ELSE commits
      BY DEF PublishCommit
<1>7. \/ cmd' = [cmd EXCEPT ![c] = Idle]
      \/ /\ o.accepted
         /\ cmd' = [cmd EXCEPT ![c] = [cmd[c] EXCEPT !.step = "observe", !.own = id]]
      <2>1. o.certain \/ o.listed => o.accepted BY DEF Outcome
      <2>2. CASE o.certain \/ o.listed
            <3>1. cmd' = [cmd EXCEPT ![c] = [cmd[c] EXCEPT !.step = "observe", !.own = id]]
                  BY <1>0, <1>2, <1>3, <2>2 DEF PublishCommit, Running
            <3> QED BY <2>1, <2>2, <3>1
      <2>3. CASE ~(o.certain \/ o.listed)
            <3>1. cmd' = [cmd EXCEPT ![c] = Idle] BY <2>3 DEF PublishCommit, End
            <3> QED BY <3>1
      <2> QED BY <2>2, <2>3
<1>8. told' = told /\ listedBlobs' = listedBlobs /\ BlobId' = BlobId
      BY DEF PublishCommit, BlobId
<1> HIDE DEF new
<1>9. CommitId' = IF o.accepted THEN CommitId \cup {id} ELSE CommitId
      <2>1. CASE o.accepted
            <3>1. Len(commits) \in Nat /\ Len(commits') = Len(commits) + 1
                  BY <1>3, <1>4, <1>6, <2>1
            <3>2. \A n \in Nat : 1..(n + 1) = (1..n) \cup {n + 1} OBVIOUS
            <3> QED BY <1>0, <2>1, <3>1, <3>2 DEF CommitId
      <2>2. CASE ~o.accepted BY <1>6, <2>2 DEF CommitId
      <2> QED BY <2>1, <2>2
<1>10. /\ \A i \in CommitId : commits'[i] = commits[i]
       /\ o.accepted => commits'[id] = new
      BY <1>0, <1>3, <1>4, <1>6 DEF CommitId
<1>11. id \notin CommitId /\ \A i \in CommitId : id > i BY <1>0, <1>3 DEF CommitId
<1>12. \A i \in CommitId : commits[i].parents \subseteq CommitId
      BY <1>1, <1>3 DEF VaultInv, DependenciesFirst, CommitId
<1>13. \A P \in SUBSET CommitId : Apart(P) => Apart(P)' BY <1>10 DEF Apart
<1>14. JoinsAreOfHeads'
      <2>1. \A i \in CommitId : Apart(commits[i].parents)
            BY DEF ForkInv, JoinsAreOfHeads, Apart
      <2>2. \A i \in CommitId : \A j, k \in commits'[i].parents : j \notin commits'[k].anc
            BY <1>10, <1>12, <1>13, <2>1 DEF Apart
      <2>3. o.accepted => \A j, k \in commits'[id].parents : j \notin commits'[k].anc
            BY <1>2, <1>5, <1>10, <1>13 DEF Apart
      <2> QED BY <1>9, <2>2, <2>3 DEF JoinsAreOfHeads
<1>15. cmd'[c] = Idle \/ (/\ o.accepted /\ At(c, "observe")' /\ cmd'[c].own = id
                          /\ cmd'[c].parents = cmd[c].parents
                          /\ cmd'[c].branch = cmd[c].branch)
      <2>1. CASE cmd' = [cmd EXCEPT ![c] = Idle] BY <1>3, <2>1
      <2>2. CASE o.accepted /\ cmd' = [cmd EXCEPT ![c] = [cmd[c] EXCEPT !.step = "observe",
                                                                       !.own = id]]
            <3> DEFINE r == [cmd[c] EXCEPT !.step = "observe", !.own = id]
            <3>1. /\ r.step = "observe" /\ r.own = id /\ r.parents = cmd[c].parents
                  /\ r.branch = cmd[c].branch /\ r.kind = cmd[c].kind
                  BY <1>2 DEF Running
            <3>2. r # Idle
                  <4>1. cmd[c].kind # "idle" BY <1>2 DEF Running
                  <4> QED BY <3>1, <4>1 DEF Idle
            <3>3. cmd'[c] = r BY <1>3, <2>2
            <3> HIDE DEF r
            <3> QED BY <2>2, <3>1, <3>2, <3>3 DEF At
      <2> QED BY <1>7, <2>1, <2>2
<1>16. \A d \in Client \ {c} : cmd'[d] = cmd[d] BY <1>3, <1>7
<1>17. ASSUME NEW d \in Client, cmd'[d] # Idle
       PROVE  Apart(cmd[d].parents)'
      <2>1. cmd[d] # Idle /\ cmd'[d].parents = cmd[d].parents BY <1>2, <1>15, <1>16, <1>17
      <2>2. cmd[d].parents \subseteq CommitId /\ Apart(cmd[d].parents)
            BY <1>1, <2>1 DEF VaultInv, HoldsAccepted, ForkInv
      <2>3. \A j, k \in cmd[d].parents : j \notin commits'[k].anc
            BY <1>10, <2>2 DEF Apart
      <2> QED BY <2>1, <2>3 DEF Apart
<1>18. ASSUME NEW d \in Client, At(d, "observe")'
       PROVE  commits'[cmd'[d].own].branch = cmd'[d].branch
      <2>1. CASE d = c BY <1>5, <1>10, <1>15, <1>18, <2>1 DEF At
      <2>2. CASE d # c
            <3>1. cmd'[d] = cmd[d] /\ At(d, "observe") BY <1>16, <1>18, <2>2 DEF At
            <3>2. cmd[d].own \in CommitId BY <1>1, <3>1 DEF At, VaultInv, HoldsAccepted
            <3> QED BY <1>10, <3>1, <3>2 DEF ForkInv
      <2> QED BY <2>1, <2>2
<1>19. ASSUME faults' = 0 PROVE Reported'
      <2>1. faults = 0 /\ o.accepted /\ o.listed /\ o.certain
            BY <1>1, <1>19, FaultsStay DEF PublishCommit
      <2>2. Reported BY <2>1 DEF ForkInv
      <2>3. listedCommits' = CommitId'
            BY <1>0, <1>9, <2>1, <2>2 DEF PublishCommit, Reported
      <2>4. cmd'[c] # Idle
            <3>1. cmd'[c] = [cmd[c] EXCEPT !.step = "observe", !.own = id]
                  BY <1>0, <1>2, <1>3, <2>1 DEF PublishCommit, Running
            <3>2. cmd'[c].kind = cmd[c].kind BY <1>2, <3>1 DEF Running
            <3> QED BY <1>2, <3>2 DEF Running, Idle
      <2>5. Accounted(id)' BY <1>15, <2>4 DEF Accounted
      <2>6. ASSUME NEW i \in CommitId PROVE Accounted(i)'
            <3>1. Accounted(i) BY <2>2 DEF Reported
            <3>2. CASE commits[i].branch = cmd[c].branch
                  <4>1. id \in CommitId' /\ commits'[id].branch = commits'[i].branch
                        BY <1>5, <1>9, <1>10, <2>1, <3>2
                  <4> QED BY <1>11, <4>1 DEF Accounted
            <3>3. CASE commits[i].branch # cmd[c].branch
                  <4> DEFINE b == commits[i].branch
                  <4>1. HeadsOf(b)' = HeadsOf(b)
                        <5>1. /\ listedCommits = CommitId /\ CommitId' = CommitId \cup {id}
                              BY <1>9, <2>1, <2>2 DEF Reported
                        <5>2. commits'[id].branch # b BY <1>5, <1>10, <2>1, <3>3
                        <5>3. HeadsOf(b) = {k \in CommitId : commits[k].branch = b /\
                                    \A j \in CommitId : commits[j].branch = b =>
                                        k \notin commits[j].anc}
                              BY <5>1 DEF HeadsOf
                        <5>4. HeadsOf(b)' = {k \in CommitId \cup {id} : commits'[k].branch = b /\
                                    \A j \in CommitId \cup {id} : commits'[j].branch = b =>
                                        k \notin commits'[j].anc}
                              BY <1>10, <2>3, <5>1 DEF HeadsOf
                        <5> HIDE DEF b
                        <5> QED BY <1>10, <5>2, <5>3, <5>4
                  <4>2. commits'[i] = commits[i] BY <1>10
                  <4>3. CASE \E d \in Client : At(d, "observe") /\ cmd[d].own = i
                        <5>1. PICK d \in Client : At(d, "observe") /\ cmd[d].own = i BY <4>3
                        <5>2. d # c BY <1>2, <5>1 DEF At
                        <5>3. At(d, "observe")' /\ cmd'[d].own = i BY <1>16, <5>1, <5>2 DEF At
                        <5> QED BY <5>3 DEF Accounted
                  <4>4. CASE i \in told BY <1>8, <4>4 DEF Accounted
                  <4>5. CASE HeadsOf(b) = {i} BY <4>1, <4>2, <4>5 DEF Accounted
                  <4>6. CASE \E j \in CommitId : j > i /\ commits[j].branch = commits[i].branch
                        BY <1>9, <1>10, <4>6 DEF Accounted
                  <4> QED BY <3>1, <4>3, <4>4, <4>5, <4>6 DEF Accounted
            <3> QED BY <3>2, <3>3
      <2> QED BY <1>8, <1>9, <2>1, <2>2, <2>3, <2>5, <2>6 DEF Reported
<1> QED BY <1>14, <1>17, <1>18, <1>19 DEF ForkInv

\* The last look, or the end of the process before it.
LEMMA LastStepsKeepForks ==
    ASSUME ForkInv, WindowInv', NEW c \in Client, Observe(c) \/ Crash(c)
    PROVE  ForkInv'
<1>1. VaultInv /\ TypeOK /\ cmd \in [Client -> Running \cup {Idle}]
      BY DEF ForkInv, WindowInv, VaultInv, TypeOK
<1>2. /\ cmd' = [cmd EXCEPT ![c] = Idle] /\ cmd[c] # Idle
      /\ UNCHANGED <<commits, listedCommits, listedBlobs, blobs, faults>>
      BY DEF Observe, Crash, End, records, At
<1>3. JoinsAreOfHeads' BY <1>2 DEF ForkInv, JoinsAreOfHeads, CommitId
<1>4. \A d \in Client : cmd'[d] # Idle => d # c /\ cmd'[d] = cmd[d] BY <1>1, <1>2
<1>5. \A d \in Client : cmd'[d] # Idle => Apart(cmd[d].parents)'
      BY <1>2, <1>4 DEF ForkInv, Apart
<1>6. \A d \in Client : At(d, "observe")' => commits'[cmd'[d].own].branch = cmd'[d].branch
      BY <1>2, <1>4 DEF ForkInv, At
<1>7. ASSUME faults' = 0 PROVE Reported'
      <2>1. Reported BY <1>2, <1>7 DEF ForkInv
      <2>2. CommitId' = CommitId /\ BlobId' = BlobId BY <1>2 DEF CommitId, BlobId
      <2>3. \A b : HeadsOf(b)' = HeadsOf(b) BY <1>2 DEF HeadsOf
      <2>4. HistoryComplete
            <3>1. listedCommits = CommitId /\ listedBlobs = BlobId BY <2>1 DEF Reported
            <3>2. \A i \in CommitId : 1..(i - 1) \subseteq CommitId
                  BY <1>1 DEF TypeOK, CommitId
            <3> QED BY <1>1, <3>1, <3>2 DEF HistoryComplete, VaultInv, DependenciesFirst
      <2>5. told \subseteq told' BY DEF Observe, Crash
      <2>6. ASSUME NEW i \in CommitId PROVE Accounted(i)'
            <3>1. Accounted(i) BY <2>1 DEF Reported
            <3>2. CASE At(c, "observe") /\ cmd[c].own = i
                  <4>1. commits[i].branch = cmd[c].branch BY <3>2 DEF ForkInv
                  <4>2. i \in told' \/ HeadsOf(commits[i].branch) = {i}
                        BY <2>4, <3>2, <4>1 DEF Observe, Crash, ToldOfFork
                  <4> QED BY <1>2, <2>3, <4>2 DEF Accounted
            <3>3. CASE \E d \in Client : d # c /\ At(d, "observe") /\ cmd[d].own = i
                  <4>1. PICK d \in Client : d # c /\ At(d, "observe") /\ cmd[d].own = i BY <3>3
                  <4>2. At(d, "observe")' /\ cmd'[d].own = i BY <1>1, <1>2, <4>1 DEF At
                  <4> QED BY <4>2 DEF Accounted
            <3>4. CASE \/ i \in told \/ HeadsOf(commits[i].branch) = {i}
                       \/ \E j \in CommitId : j > i /\ commits[j].branch = commits[i].branch
                  BY <1>2, <2>2, <2>3, <2>5, <3>4 DEF Accounted
            <3> QED BY <3>1, <3>2, <3>3, <3>4 DEF Accounted
      <2> QED BY <1>2, <2>1, <2>2, <2>6 DEF Reported
<1> QED BY <1>3, <1>5, <1>6, <1>7 DEF ForkInv

\* A record surfaces late only after a fault.
LEMMA SurfaceKeepsForks ==
    ASSUME ForkInv, WindowInv', SurfaceBlob \/ SurfaceCommit \/ UNCHANGED vars
    PROVE  ForkInv'
<1>1. UNCHANGED <<blobs, commits, cmd, told, faults>>
      BY DEF SurfaceBlob, SurfaceCommit, vars
<1>2. JoinsAreOfHeads' BY <1>1 DEF ForkInv, JoinsAreOfHeads, CommitId
<1>3. /\ \A d \in Client : cmd'[d] # Idle => Apart(cmd[d].parents)'
      /\ \A d \in Client : At(d, "observe")' => commits'[cmd'[d].own].branch = cmd'[d].branch
      BY <1>1 DEF ForkInv, Apart, At
<1>4. ASSUME faults' = 0 PROVE Reported'
      <2>1. Reported BY <1>1, <1>4 DEF ForkInv
      <2>2. UNCHANGED vars BY <2>1 DEF Reported, SurfaceBlob, SurfaceCommit
      <2>3. \A b : HeadsOf(b)' = HeadsOf(b) BY <2>2 DEF HeadsOf, vars
      <2>4. CommitId' = CommitId /\ BlobId' = BlobId BY <1>1 DEF CommitId, BlobId
      <2>5. \A i \in CommitId : Accounted(i) => Accounted(i)'
            BY <1>1, <2>3, <2>4 DEF Accounted, At
      <2> QED BY <2>1, <2>2, <2>4, <2>5 DEF Reported, vars
<1> QED BY <1>2, <1>3, <1>4 DEF ForkInv

LEMMA NextForks == ForkInv /\ [Next]_vars => ForkInv'
<1> SUFFICES ASSUME ForkInv, [Next]_vars PROVE ForkInv' OBVIOUS
<1>1. WindowInv' BY NextWindow DEF ForkInv
<1>2. ASSUME NEW c \in Client, NEW b \in Branch,
             PushLoad(c, b) \/ ResolveLoad(c, b) \/ \E from \in Branch : BranchLoad(c, b, from)
      PROVE  ForkInv'
      BY <1>1, <1>2, LoadKeepsForks
<1>3. ASSUME NEW c \in Client,
             \/ \E x \in Content, o \in Outcome : UploadBlob(c, x, o)
             \/ UploadsDone(c) \/ RecheckHeads(c)
      PROVE  ForkInv'
      BY <1>1, <1>3, PreparingKeepsForks
<1>4. ASSUME NEW c \in Client, NEW o \in Outcome, PublishCommit(c, o) PROVE ForkInv'
      BY <1>1, <1>4, PublishKeepsForks
<1>5. ASSUME NEW c \in Client, Observe(c) \/ Crash(c) PROVE ForkInv'
      BY <1>1, <1>5, LastStepsKeepForks
<1>6. CASE SurfaceBlob \/ SurfaceCommit \/ UNCHANGED vars
      BY <1>1, <1>6, SurfaceKeepsForks
<1> QED BY <1>2, <1>3, <1>4, <1>5, <1>6 DEF Next

\* The latest commit of a branch is a head of it.
LEMMA LatestIsHead ==
    ASSUME WindowInv, listedCommits = CommitId, NEW i \in CommitId,
           ~ \E j \in CommitId : j > i /\ commits[j].branch = commits[i].branch
    PROVE  i \in HeadsOf(commits[i].branch)
<1>1. ASSUME NEW j \in CommitId, commits[j].branch = commits[i].branch, i \in commits[j].anc
      PROVE  FALSE
      <2>1. i \in 1..(j - 1) BY <1>1 DEF WindowInv, AncestorsClosed
      <2>2. j > i BY <2>1 DEF WindowInv, VaultInv, TypeOK, CommitId
      <2> QED BY <1>1, <2>2
<1> QED BY <1>1 DEF HeadsOf

LEMMA ForkInvReports == ForkInv => ForkIsReported
<1> SUFFICES ASSUME ForkInv, NEW b \in Branch, faults = 0, Cardinality(HeadsOf(b)) > 1,
                    \A c \in Client : ~At(c, "observe")
             PROVE  HeadsOf(b) \cap told # {}
    BY DEF ForkIsReported
<1> DEFINE K == {k \in CommitId : commits[k].branch = b}
<1>1. Reported /\ WindowInv BY DEF ForkInv
<1>2. Len(commits) \in Nat BY DEF ForkInv, WindowInv, VaultInv, TypeOK
<1>3. K \subseteq 1..Len(commits) BY DEF CommitId
<1>4. HeadsOf(b) # {} BY FS_EmptySet
<1>5. K # {} BY <1>1, <1>4 DEF HeadsOf, Reported
<1>6. PICK i \in K : \A m \in K : m <= i
      <2> HIDE DEF K
      <2> QED BY <1>2, <1>3, <1>5, HasGreatest
<1>7. ~ \E j \in CommitId : j > i /\ commits[j].branch = commits[i].branch
      BY <1>2, <1>3, <1>6 DEF CommitId
<1>8. i \in HeadsOf(b)
      <2>1. listedCommits = CommitId BY <1>1 DEF Reported
      <2> QED BY <1>1, <1>6, <1>7, <2>1, LatestIsHead
<1>9. HeadsOf(b) # {i} BY FS_Singleton
<1>10. Accounted(i) BY <1>1, <1>6 DEF Reported
<1>11. i \in told BY <1>6, <1>7, <1>9, <1>10 DEF Accounted
<1> QED BY <1>8, <1>11

\* As long as records are listed when they are accepted, a fork is told to an
\* author of one of its heads, whatever the order of the commands; and no join has
\* a parent that descends from another, however late the vault lists.
THEOREM ForksAreAlwaysHandled == Spec => []ForksAreHandled
<1>1. Init => ForkInv
      <2> SUFFICES ASSUME Init PROVE ForkInv OBVIOUS
      <2>1. CommitId = {} /\ BlobId = {} BY DEF Init, CommitId, BlobId
      <2>2. WindowInv
            <3>1. AncestorsClosed /\ ForksOnlyWithinWindow
                  BY <2>1 DEF AncestorsClosed, ForksOnlyWithinWindow
            <3>2. \A c \in Client : cmd[c] = Idle BY DEF Init
            <3> QED BY <3>1, <3>2, InitInv DEF WindowInv
      <2>3. JoinsAreOfHeads /\ Reported
            BY <2>1 DEF Init, JoinsAreOfHeads, Reported
      <2>4. \A c \in Client : cmd[c] = Idle /\ ~At(c, "observe") BY DEF Init, At
      <2> QED BY <2>2, <2>3, <2>4 DEF ForkInv
<1>2. ForkInv => ForksAreHandled
      BY ForkInvReports DEF ForksAreHandled, ForkInv
<1> QED BY <1>1, <1>2, NextForks, PTL DEF Spec
==============================================================================
