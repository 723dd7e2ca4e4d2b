--------------------------- MODULE MCServices_proofs ---------------------------
(* The release stages of release-tag: types, what is merged, what is           *)
(* overwritten, what is removed, and that one pull request is merged at most.   *)
(* The stores of secret-sync: createItem of either store, with the pool and the *)
(* shared client around it, implements CreateOnce, and no commit leaves before  *)
(* its blobs.  For any jobs, sources, blobs, workers and bounds.                *)
EXTENDS MCServices, SequenceTheorems, TLAPS

\* An open pull request is at the head of the branch, and there is one at most.
OpenAtBranch == \A n \in OpenPulls : pulls[n].head = origin.branch

OneOpen == \A m, n \in OpenPulls : m = n

MergesAreMerged == \A n \in merges : n \in DOMAIN pulls /\ pulls[n].state = "merged"

\* A tag names a commit of a release command, which no checkout of the base finds.
ReleaseCommit == 1..made

RemoteInv ==
    /\ OpenAtBranch /\ OneOpen /\ MergesAreMerged
    /\ origin.tag \in ReleaseCommit \cup {Absent}

\* The steps after the release command, those that have a pull request at hand, and
\* those that only a job takes which may create and merge.
AfterRelease == {"publish", "origin", "find", "create", "relookup", "read", "update", "confirm",
                 "merge", "look", "delete"}
WithPull == {"read", "update", "confirm", "merge"}
MayMerge == {"create", "relookup", "update", "confirm", "merge"}

JobInv(j) ==
    /\ clone[j].tag \in ReleaseCommit \cup {Absent}
    /\ cmd[j].step \in {"tag", "push"} => cmd[j].observed = Absent \/ cmd[j].reset
    /\ cmd[j].step \in AfterRelease => cmd[j].released = clone[j].tag /\ clone[j].tag # Absent
    /\ cmd[j].step \in WithPull => cmd[j].pull \in DOMAIN pulls
    /\ cmd[j].step \in MayMerge => ~cmd[j].must
    /\ cmd[j].step \in {"look", "delete"} => cmd[j].released \in MergedHeads

IInv == TypeOK /\ RemoteInv /\ \A j \in Job : JobInv(j)

------------------------------------------------------------------------------
\* A function on the numbers of a sequence is a sequence of the same length.
LEMMA SameLength ==
    ASSUME NEW S, NEW T, NEW s \in Seq(S), NEW f \in [DOMAIN s -> T]
    PROVE  f \in Seq(T) /\ Len(f) = Len(s) /\ DOMAIN f = DOMAIN s
  <1>1. ASSUME NEW n \in Nat, NEW g \in [1..n -> T] PROVE g \in Seq(T) /\ Len(g) = n
    OBVIOUS
  <1> QED BY <1>1, LenProperties

\* What a move of the branch does to the pull requests.
LEMMA PullsAfterMove ==
    ASSUME TypeOK, NEW commit \in Ref, NEW closes \in BOOLEAN, closes => commit \in Source
    PROVE  LET after == PullsAfter(commit, closes)
           IN  /\ after \in Seq(Pull) /\ Len(after) = Len(pulls) /\ DOMAIN after = DOMAIN pulls
               /\ \A n \in DOMAIN pulls :
                    /\ pulls[n].state # "open" => after[n] = pulls[n]
                    /\ pulls[n].state = "open" => /\ after[n].state # "merged"
                                                  /\ after[n].state = "open" => after[n].head = commit
  <1> DEFINE after == PullsAfter(commit, closes)
  <1>1. pulls \in Seq(Pull) /\ \A n \in DOMAIN pulls : pulls[n] \in Pull
    BY LenProperties DEF TypeOK
  <1>2. after \in [DOMAIN pulls -> Pull]
    BY <1>1, ReleaseAssumption DEF PullsAfter, Pull, Ref, Commit
  <1>3. after \in Seq(Pull) /\ Len(after) = Len(pulls) /\ DOMAIN after = DOMAIN pulls
    BY <1>1, <1>2, SameLength
  <1>4. ASSUME NEW n \in DOMAIN pulls
        PROVE  /\ pulls[n].state # "open" => after[n] = pulls[n]
               /\ pulls[n].state = "open" => /\ after[n].state # "merged"
                                             /\ after[n].state = "open" => after[n].head = commit
    BY <1>1 DEF PullsAfter, Pull
  <1> QED BY <1>3, <1>4

\* Pull requests that keep the two invariants of the remote, and whose merges last.
PullsKept == pulls \in Seq(Pull) /\ OpenAtBranch /\ OneOpen

MergedStay ==
    /\ DOMAIN pulls \subseteq DOMAIN pulls'
    /\ \A n \in DOMAIN pulls : pulls[n].state = "merged" => pulls'[n] = pulls[n]

\* The branch moves, and the open pull request with it.
LEMMA BranchMoves ==
    ASSUME TypeOK, PullsKept, NEW commit \in Ref, NEW closes \in BOOLEAN,
           closes => commit \in Source,
           pulls' = PullsAfter(commit, closes), origin'.branch = commit
    PROVE  PullsKept' /\ MergedStay /\ Len(pulls') = Len(pulls)
  <1>1. /\ pulls' \in Seq(Pull) /\ Len(pulls') = Len(pulls) /\ DOMAIN pulls' = DOMAIN pulls
        /\ \A n \in DOMAIN pulls :
             /\ pulls[n].state # "open" => pulls'[n] = pulls[n]
             /\ pulls[n].state = "open" => /\ pulls'[n].state # "merged"
                                           /\ pulls'[n].state = "open" => pulls'[n].head = commit
    BY PullsAfterMove
  <1>2. \A n \in OpenPulls' : n \in OpenPulls /\ pulls'[n].head = commit
    BY <1>1 DEF OpenPulls
  <1>3. OpenAtBranch' /\ OneOpen'
    BY <1>2 DEF PullsKept, OpenAtBranch, OneOpen
  <1>4. MergedStay
    BY <1>1 DEF MergedStay
  <1> QED BY <1>1, <1>3, <1>4 DEF PullsKept

\* The open pull request is closed or merged, and the branch may go.
LEMMA PullEnds ==
    ASSUME TypeOK, PullsKept, NEW n \in OpenPulls, NEW state \in {"closed", "merged"},
           pulls' = [pulls EXCEPT ![n].state = state]
    PROVE  /\ PullsKept' /\ MergedStay /\ Len(pulls') = Len(pulls) /\ OpenPulls' = {}
           /\ n \in DOMAIN pulls' /\ pulls'[n] = [pulls[n] EXCEPT !.state = state]
  <1>1. pulls \in Seq(Pull) /\ DOMAIN pulls = 1..Len(pulls) /\ n \in DOMAIN pulls
        /\ \A i \in DOMAIN pulls : pulls[i] \in Pull
    BY LenProperties DEF TypeOK, OpenPulls
  <1>2. pulls' \in [DOMAIN pulls -> Pull]
    BY <1>1 DEF Pull
  <1>3. pulls' \in Seq(Pull) /\ Len(pulls') = Len(pulls) /\ DOMAIN pulls' = DOMAIN pulls
    BY <1>1, <1>2, SameLength
  <1>4. /\ pulls'[n] = [pulls[n] EXCEPT !.state = state] /\ pulls'[n].state = state
        /\ \A i \in DOMAIN pulls : i # n => pulls'[i] = pulls[i]
    BY <1>1 DEF Pull
  <1>5. OpenPulls' = {}
    BY <1>3, <1>4 DEF OpenPulls, PullsKept, OneOpen
  <1>6. MergedStay
    BY <1>1, <1>3, <1>4 DEF MergedStay, OpenPulls
  <1> QED BY <1>1, <1>3, <1>4, <1>5, <1>6 DEF PullsKept, OpenAtBranch, OneOpen

\* A closed pull request at the head of the branch is opened again.
LEMMA PullReopens ==
    ASSUME TypeOK, PullsKept, NEW n \in DOMAIN pulls, pulls[n].state = "closed",
           pulls[n].head = origin.branch, OpenPulls = {}, UNCHANGED origin,
           pulls' = [pulls EXCEPT ![n].state = "open"]
    PROVE  /\ PullsKept' /\ MergedStay /\ Len(pulls') = Len(pulls)
           /\ OpenPulls' = {n} /\ pulls'[n].head = origin.branch
  <1>1. pulls \in Seq(Pull) /\ \A i \in DOMAIN pulls : pulls[i] \in Pull
    BY LenProperties DEF TypeOK
  <1>2. pulls' \in [DOMAIN pulls -> Pull]
    BY <1>1 DEF Pull
  <1>3. pulls' \in Seq(Pull) /\ Len(pulls') = Len(pulls) /\ DOMAIN pulls' = DOMAIN pulls
    BY <1>1, <1>2, SameLength
  <1>4. /\ pulls'[n].state = "open" /\ pulls'[n].head = pulls[n].head
        /\ \A i \in DOMAIN pulls : i # n => pulls'[i] = pulls[i]
    BY <1>1 DEF Pull
  <1>5. OpenPulls' = {n}
    BY <1>3, <1>4 DEF OpenPulls
  <1>6. MergedStay
    BY <1>3, <1>4 DEF MergedStay
  <1> QED BY <1>3, <1>4, <1>5, <1>6 DEF PullsKept, OpenAtBranch, OneOpen

\* A pull request is opened at the head of the branch.
LEMMA PullOpens ==
    ASSUME TypeOK, PullsKept, OpenPulls = {}, origin.branch \in Commit, UNCHANGED origin,
           pulls' = Append(pulls, [state |-> "open", head |-> origin.branch])
    PROVE  /\ PullsKept' /\ MergedStay /\ Len(pulls') = Len(pulls) + 1
           /\ Len(pulls) + 1 \in DOMAIN pulls'
           /\ OpenPulls' = {Len(pulls) + 1} /\ pulls'[Len(pulls) + 1].head = origin.branch
  <1> DEFINE new == [state |-> "open", head |-> origin.branch]
  <1>1. new \in Pull /\ pulls \in Seq(Pull) /\ Len(pulls) \in Nat /\ DOMAIN pulls = 1..Len(pulls)
    BY LenProperties DEF TypeOK, Pull
  <1>2. /\ pulls' \in Seq(Pull) /\ Len(pulls') = Len(pulls) + 1
        /\ \A i \in 1..Len(pulls) : pulls'[i] = pulls[i]
        /\ pulls'[Len(pulls) + 1] = new
    BY <1>1, AppendProperties
  <1>3. DOMAIN pulls' = 1..(Len(pulls) + 1)
    BY <1>2, LenProperties
  <1>4. OpenPulls' = {Len(pulls) + 1}
    <2>1. \A i \in DOMAIN pulls' : i \in DOMAIN pulls \/ i = Len(pulls) + 1
      BY <1>1, <1>3
    <2>2. \A i \in DOMAIN pulls : pulls'[i].state # "open"
      BY <1>1, <1>2 DEF OpenPulls
    <2> QED BY <1>1, <1>2, <1>3, <2>1, <2>2 DEF OpenPulls
  <1>5. MergedStay
    BY <1>1, <1>2, <1>3 DEF MergedStay
  <1> QED BY <1>1, <1>2, <1>3, <1>4, <1>5 DEF PullsKept, OpenAtBranch, OneOpen

------------------------------------------------------------------------------
LEMMA InitImpliesInv == Init => IInv
  <1> SUFFICES ASSUME Init PROVE IInv
    OBVIOUS
  <1>1. pulls = <<>> /\ pulls \in Seq(Pull) /\ Len(pulls) = 0 /\ DOMAIN pulls = {}
    BY DEF Init
  <1>2. TypeOK
    <2>1. cmd \in [Job -> Command]
      BY ReleaseAssumption DEF Init, Idle, Command, Steps, Ref
    <2>2. clone \in [Job -> [source : Source, branch : Ref, tag : Ref]]
      BY DEF Init, Ref
    <2>3. origin \in [branch : Ref, tag : Ref]
      BY DEF Init, Ref
    <2>4. /\ made \in 0..MaxCommits /\ others \in 0..MaxOthers /\ faults \in 0..MaxFaults
          /\ Len(pulls) <= MaxPulls
      BY <1>1, ReleaseAssumption DEF Init
    <2> QED BY <1>1, <2>1, <2>2, <2>3, <2>4 DEF Init, TypeOK
  <1>3. RemoteInv
    BY <1>1 DEF Init, RemoteInv, OpenAtBranch, OneOpen, OpenPulls, MergesAreMerged
  <1>4. \A j \in Job : JobInv(j)
    BY DEF Init, JobInv, Idle, AfterRelease, WithPull, MayMerge
  <1> QED BY <1>2, <1>3, <1>4 DEF IInv

LEMMA MergedHeadsGrow == MergedStay => MergedHeads \subseteq MergedHeads'
  BY DEF MergedStay, MergedHeads

\* A job that does not move is not disturbed by the others.
LEMMA OthersKeep ==
    ASSUME MergedStay, made \in Nat, made' \in Nat, made <= made', NEW k \in Job, JobInv(k),
           cmd'[k] = cmd[k], clone'[k] = clone[k]
    PROVE  JobInv(k)'
  BY MergedHeadsGrow DEF JobInv, ReleaseCommit, MergedStay

\* One job moves.
LEMMA OneMoves ==
    ASSUME IInv, TypeOK', RemoteInv', MergedStay, made <= made', NEW j \in Job, JobInv(j)',
           \A k \in Job \ {j} : cmd'[k] = cmd[k] /\ clone'[k] = clone[k]
    PROVE  IInv'
  <1>1. made \in Nat /\ made' \in Nat
    BY ReleaseAssumption DEF IInv, TypeOK
  <1>2. \A k \in Job \ {j} : JobInv(k)'
    BY <1>1, OthersKeep DEF IInv
  <1> QED BY <1>2 DEF IInv

\* What the requests that only read, and the local steps, leave alone.
LEMMA RemoteStays ==
    ASSUME IInv, UNCHANGED <<remote, made, merges>>
    PROVE  RemoteInv' /\ MergedStay /\ made <= made'
  BY DEF IInv, TypeOK, RemoteInv, OpenAtBranch, OneOpen, OpenPulls, MergesAreMerged,
       ReleaseCommit,
         MergedStay, remote

LEMMA RemoteFromPulls ==
    ASSUME IInv, PullsKept', MergedStay, UNCHANGED merges, made' \in Nat, made <= made',
           origin'.tag \in {origin.tag} \cup 1..made'
    PROVE  RemoteInv'
  <1>1. made \in Nat
    BY ReleaseAssumption DEF IInv, TypeOK
  <1> QED BY <1>1 DEF IInv, RemoteInv, PullsKept, MergedStay, MergesAreMerged, ReleaseCommit

LEMMA IdleIsCommand == Idle \in Command
  BY ReleaseAssumption DEF Idle, Command, Steps, Ref

LEMMA EndKeeps ==
    ASSUME IInv, NEW j \in Job, End(j)
    PROVE  /\ cmd' \in [Job -> Command]
           /\ cmd'[j] = Idle /\ \A k \in Job \ {j} : cmd'[k] = cmd[k]
  BY ReleaseAssumption DEF IInv, TypeOK, End, Idle, Command, Steps, Ref

LEMMA GotoKeeps ==
    ASSUME IInv, NEW j \in Job, NEW step \in Steps, Goto(j, step)
    PROVE  /\ cmd' \in [Job -> Command]
           /\ cmd'[j].step = step /\ cmd'[j].released = cmd[j].released
           /\ cmd'[j].must = cmd[j].must /\ cmd'[j].pull = cmd[j].pull
           /\ cmd'[j].observed = cmd[j].observed /\ cmd'[j].reset = cmd[j].reset
           /\ \A k \in Job \ {j} : cmd'[k] = cmd[k]
  BY DEF IInv, TypeOK, Goto, Command

LEMMA IdleJob ==
    ASSUME IInv, NEW j \in Job, cmd'[j] = Idle,
           clone'[j].tag \in 1..made' \cup {Absent}
    PROVE  JobInv(j)'
  BY DEF JobInv, Idle, AfterRelease, WithPull, MayMerge, ReleaseCommit

\* What a running job may do without touching the remote: end, or take a step for
\* which it has what the step needs.
LEMMA LocalStep ==
    ASSUME IInv, NEW j \in Job,
           UNCHANGED <<remote, clone, made, merges, foreign, others>>,
           reported' \subseteq Commit, early' \in BOOLEAN, faults' \in 0..MaxFaults,
           cmd' \in [Job -> Command], \A k \in Job \ {j} : cmd'[k] = cmd[k], JobInv(j)'
    PROVE  IInv'
  <1>1. RemoteInv' /\ MergedStay /\ made <= made'
    BY RemoteStays
  <1>2. TypeOK'
    BY DEF IInv, TypeOK, remote
  <1> QED BY <1>1, <1>2, OneMoves

LEMMA JobEnds ==
    ASSUME IInv, NEW j \in Job, End(j), UNCHANGED <<clone, made>>
    PROVE  JobInv(j)'
  BY EndKeeps, IdleJob DEF IInv, JobInv, ReleaseCommit

LEMMA InspectKeeps ==
    ASSUME IInv, NEW j \in Job,
           \/ \E reset \in BOOLEAN : BeginRelease(j, reset)
           \/ InspectBranch(j) \/ InspectTag(j)
    PROVE  IInv'
  <1>1. ASSUME NEW reset \in BOOLEAN, BeginRelease(j, reset) PROVE IInv'
    <2>1. cmd' \in [Job -> Command] /\ cmd'[j].step = "branch"
          /\ \A k \in Job \ {j} : cmd'[k] = cmd[k]
      <3> DEFINE r == [Idle EXCEPT !.step = "branch", !.reset = reset]
      <3>1. r \in Command /\ r.step = "branch"
        <4>1. "branch" \in Steps
          BY DEF Steps
        <4> QED BY <4>1, IdleIsCommand DEF Command
      <3>2. cmd' = [cmd EXCEPT ![j] = r]
        BY <1>1 DEF BeginRelease
      <3>3. cmd \in [Job -> Command]
        BY DEF IInv, TypeOK
      <3> HIDE DEF r
      <3> QED BY <3>1, <3>2, <3>3
    <2>2. JobInv(j)'
      BY <1>1, <2>1 DEF BeginRelease, IInv, JobInv, AfterRelease, WithPull, MayMerge, history,
                        ReleaseCommit
    <2> QED BY <1>1, <2>1, <2>2, LocalStep DEF BeginRelease, IInv, TypeOK, history
  <1>2. CASE InspectBranch(j)
    <2>1. CASE origin.branch = Absent \/ cmd[j].reset
      <3>1. /\ cmd' \in [Job -> Command] /\ cmd'[j].step = "tag"
            /\ cmd'[j].observed = origin.branch /\ cmd'[j].reset = cmd[j].reset
            /\ \A k \in Job \ {j} : cmd'[k] = cmd[k]
        <4>1. /\ cmd \in [Job -> Command] /\ origin.branch \in Ref
              /\ cmd' = [cmd EXCEPT ![j] = [cmd[j] EXCEPT !.step = "tag", !.observed = origin.branch]]
          BY <1>2, <2>1 DEF IInv, TypeOK, InspectBranch
        <4>2. [cmd[j] EXCEPT !.step = "tag", !.observed = origin.branch] \in Command
          BY <4>1 DEF Command, Steps
        <4> QED BY <4>1, <4>2 DEF Command
      <3>2. JobInv(j)'
        BY <1>2, <2>1, <3>1 DEF InspectBranch, IInv, JobInv, AfterRelease, WithPull, MayMerge,
                                history, ReleaseCommit
      <3> QED BY <1>2, <3>1, <3>2, LocalStep DEF InspectBranch, IInv, TypeOK, history
    <2>2. CASE ~(origin.branch = Absent \/ cmd[j].reset)
      BY <1>2, <2>2, EndKeeps, JobEnds, LocalStep DEF InspectBranch, IInv, TypeOK, history
    <2> QED BY <2>1, <2>2
  <1>3. CASE InspectTag(j)
    <2>1. CASE TagIsFree(j)
      <3>1. Goto(j, "push") /\ "push" \in Steps
        BY <1>3, <2>1 DEF InspectTag, Steps
      <3>2. JobInv(j)'
        BY <1>3, <3>1, GotoKeeps DEF InspectTag, At, IInv, JobInv, AfterRelease, WithPull,
                                     MayMerge, history, ReleaseCommit
      <3> QED BY <1>3, <3>1, <3>2, GotoKeeps, LocalStep DEF InspectTag, IInv, TypeOK, history
    <2>2. CASE ~TagIsFree(j)
      BY <1>3, <2>2, EndKeeps, JobEnds, LocalStep DEF InspectTag, IInv, TypeOK, history
    <2> QED BY <2>1, <2>2
  <1> QED BY <1>1, <1>2, <1>3

\* A step of the pull-request stage that is entered with what it needs.
LEMMA GoesOn ==
    ASSUME IInv, NEW j \in Job, NEW step \in AfterRelease, Goto(j, step),
           UNCHANGED <<clone, made>>, MergedStay, cmd[j].step \in AfterRelease,
           step \in WithPull => cmd[j].pull \in DOMAIN pulls,
           step \in MayMerge => ~cmd[j].must,
           step \in {"look", "delete"} => cmd[j].released \in MergedHeads'
    PROVE  JobInv(j)'
  <1>1. /\ cmd'[j].step = step /\ cmd'[j].released = cmd[j].released
        /\ cmd'[j].must = cmd[j].must /\ cmd'[j].pull = cmd[j].pull
    BY GotoKeeps DEF AfterRelease, Steps
  <1> QED BY <1>1 DEF IInv, JobInv, AfterRelease, MergedStay, ReleaseCommit

LEMMA RecoverKeeps ==
    ASSUME IInv, NEW j \in Job, Recover(j) \/ RecoverOrigin(j)
    PROVE  IInv'
  <1>1. CASE Recover(j)
    <2> DEFINE r == [Idle EXCEPT !.step = "origin", !.released = clone[j].tag]
    <2>1. clone[j].tag \in Ref /\ cmd \in [Job -> Command]
      BY DEF IInv, TypeOK
    <2>2. r \in Command /\ r.step = "origin" /\ r.released = clone[j].tag
      <3>1. "origin" \in Steps
        BY DEF Steps
      <3> QED BY <2>1, <3>1, IdleIsCommand DEF Command
    <2>3. cmd' = [cmd EXCEPT ![j] = r]
      BY <1>1 DEF Recover
    <2> HIDE DEF r
    <2>4. cmd' \in [Job -> Command] /\ cmd'[j] = r /\ \A k \in Job \ {j} : cmd'[k] = cmd[k]
      BY <2>1, <2>2, <2>3
    <2>5. JobInv(j)'
      BY <1>1, <2>2, <2>4 DEF Recover, IInv, JobInv, AfterRelease, WithPull, MayMerge,
                             ReleaseCommit, history
    <2> QED BY <1>1, <2>4, <2>5, LocalStep DEF Recover, IInv, TypeOK, history
  <1>2. CASE RecoverOrigin(j)
    <2>1. CASE MayRecover(j)
      <3>1. /\ cmd \in [Job -> Command]
            /\ cmd' = [cmd EXCEPT ![j] =
                         [cmd[j] EXCEPT !.step = "find", !.must = (origin.branch = Absent)]]
        BY <1>2, <2>1 DEF IInv, TypeOK, RecoverOrigin
      <3>2. [cmd[j] EXCEPT !.step = "find", !.must = (origin.branch = Absent)] \in Command
        BY <3>1 DEF Command, Steps
      <3>3. /\ cmd' \in [Job -> Command] /\ cmd'[j].step = "find"
            /\ cmd'[j].released = cmd[j].released
            /\ \A k \in Job \ {j} : cmd'[k] = cmd[k]
        BY <3>1, <3>2 DEF Command
      <3>4. JobInv(j)'
        BY <1>2, <3>3 DEF RecoverOrigin, At, IInv, JobInv, AfterRelease, WithPull, MayMerge,
                          ReleaseCommit
      <3> QED BY <1>2, <3>3, <3>4, LocalStep DEF RecoverOrigin, Early, IInv, TypeOK
    <2>2. CASE ~MayRecover(j)
      BY <1>2, <2>2, EndKeeps, JobEnds, LocalStep DEF RecoverOrigin, Early, IInv, TypeOK
    <2> QED BY <2>1, <2>2
  <1> QED BY <1>1, <1>2

\* A pull request is found, alone and at the released head.
LEMMA TakesFirst ==
    ASSUME IInv, NEW j \in Job, FoundOne(j), cmd[j].step \in AfterRelease,
           cmd' = [cmd EXCEPT ![j].step = "read", ![j].pull = 1],
           UNCHANGED <<remote, clone, made>>
    PROVE  /\ cmd' \in [Job -> Command] /\ cmd'[j].step = "read" /\ cmd'[j].pull = 1
           /\ cmd'[j].released = cmd[j].released /\ cmd'[j].must = cmd[j].must
           /\ \A k \in Job \ {j} : cmd'[k] = cmd[k]
           /\ JobInv(j)'
  <1>1. pulls \in Seq(Pull) /\ Len(pulls) = 1 /\ DOMAIN pulls = 1..1 /\ 1 \in 0..MaxPulls
    BY ReleaseAssumption, LenProperties DEF IInv, TypeOK, FoundOne
  <1>2. /\ cmd \in [Job -> Command]
        /\ cmd' = [cmd EXCEPT ![j] = [cmd[j] EXCEPT !.step = "read", !.pull = 1]]
    BY DEF IInv, TypeOK
  <1>3. [cmd[j] EXCEPT !.step = "read", !.pull = 1] \in Command
    BY <1>1, <1>2 DEF Command, Steps
  <1>4. /\ cmd' \in [Job -> Command] /\ cmd'[j].step = "read" /\ cmd'[j].pull = 1
        /\ cmd'[j].released = cmd[j].released /\ cmd'[j].must = cmd[j].must
        /\ \A k \in Job \ {j} : cmd'[k] = cmd[k]
    BY <1>2, <1>3 DEF Command
  <1>5. JobInv(j)'
    BY <1>1, <1>4 DEF IInv, JobInv, AfterRelease, WithPull, MayMerge, ReleaseCommit, remote
  <1> QED BY <1>4, <1>5

LEMMA FindKeeps ==
    ASSUME IInv, NEW j \in Job, Find(j) \/ Relookup(j)
    PROVE  IInv'
  <1>1. cmd[j].step \in AfterRelease /\ UNCHANGED <<remote, clone, history, others, faults>>
    BY DEF Find, Relookup, At, AfterRelease
  <1>2. CASE FoundOne(j)
    <2>1. ~FoundNone(j)
      BY <1>2 DEF FoundNone, FoundOne
    <2>2. cmd' = [cmd EXCEPT ![j].step = "read", ![j].pull = 1]
      BY <1>2, <2>1 DEF Find, Relookup
    <2> QED BY <1>1, <1>2, <2>2, TakesFirst, LocalStep DEF IInv, TypeOK, history
  <1>3. CASE Find(j) /\ ~FoundOne(j) /\ FoundNone(j) /\ ~cmd[j].must
    <2>1. Goto(j, "create") /\ "create" \in AfterRelease /\ "create" \in Steps /\ MergedStay
      BY <1>1, <1>3, RemoteStays DEF Find, AfterRelease, Steps, history
    <2>2. JobInv(j)'
      BY <1>1, <1>3, <2>1, GoesOn DEF WithPull, history
    <2> QED BY <1>1, <2>1, <2>2, GotoKeeps, LocalStep DEF IInv, TypeOK, history
  <1>4. CASE ~FoundOne(j) /\ ~(Find(j) /\ FoundNone(j) /\ ~cmd[j].must)
    <2>1. End(j)
      BY <1>4 DEF Find, Relookup
    <2> QED BY <1>1, <2>1, EndKeeps, JobEnds, LocalStep DEF IInv, TypeOK, history
  <1> QED BY <1>2, <1>3, <1>4

\* What the details of a pull request lead to.
LEMMA DetailsKeep ==
    ASSUME IInv, NEW j \in Job, cmd[j].step \in WithPull, NEW next \in {"update", "confirm", "merge"},
           Details(j, cmd[j].pull, next), UNCHANGED <<remote, clone, history, others, faults>>
    PROVE  IInv'
  <1> DEFINE n == cmd[j].pull
  <1>1. n \in DOMAIN pulls /\ MergedStay /\ cmd[j].step \in AfterRelease
    BY RemoteStays DEF IInv, JobInv, WithPull, AfterRelease, history
  <1>2. CASE IsOurs(j, n) /\ pulls[n].state = "merged"
    <2>1. Goto(j, "look")
      BY <1>2 DEF Details
    <2>2. cmd[j].released \in MergedHeads' /\ "look" \in AfterRelease /\ "look" \in Steps
      BY <1>1, <1>2 DEF IsOurs, MergedHeads, remote, AfterRelease, Steps
    <2>3. JobInv(j)'
      BY <1>1, <2>1, <2>2, GoesOn DEF WithPull, MayMerge, history
    <2> QED BY <2>1, <2>2, <2>3, GotoKeeps, LocalStep DEF IInv, TypeOK, history
  <1>3. CASE IsOurs(j, n) /\ pulls[n].state = "open" /\ ~cmd[j].must
    <2>1. Goto(j, next)
      BY <1>3 DEF Details
    <2>2. next \in AfterRelease /\ next \in Steps /\ next \notin {"look", "delete"}
      BY DEF AfterRelease, Steps
    <2>3. JobInv(j)'
      BY <1>1, <1>3, <2>1, <2>2, GoesOn DEF history
    <2> QED BY <2>1, <2>2, <2>3, GotoKeeps, LocalStep DEF IInv, TypeOK, history
  <1>4. CASE ~(IsOurs(j, n) /\ pulls[n].state = "merged")
             /\ ~(IsOurs(j, n) /\ pulls[n].state = "open" /\ ~cmd[j].must)
    <2>1. End(j)
      BY <1>4 DEF Details
    <2> QED BY <2>1, EndKeeps, JobEnds, LocalStep DEF IInv, TypeOK, history
  <1> QED BY <1>2, <1>3, <1>4

LEMMA ReadKeeps ==
    ASSUME IInv, NEW j \in Job, Read(j)
    PROVE  IInv'
  <1>1. UNCHANGED <<remote, clone, history, others, faults>>
    BY DEF Read
  <1>2. cmd[j].step \in WithPull
    BY DEF Read, At, WithPull
  <1>3. \E next \in {"update", "confirm", "merge"} : Details(j, cmd[j].pull, next)
    BY DEF Read
  <1> QED BY <1>1, <1>2, <1>3, DetailsKeep

LEMMA FailKeeps ==
    ASSUME IInv, NEW j \in Job, Fail(j)
    PROVE  IInv'
  <1>1. faults' \in 0..MaxFaults
    BY ReleaseAssumption DEF IInv, TypeOK, Fail
  <1> QED BY <1>1, EndKeeps, JobEnds, LocalStep DEF Fail, IInv, TypeOK, history

\* A released head is a commit.
LEMMA ReleasedIsCommit ==
    ASSUME IInv, NEW j \in Job, cmd[j].step \in AfterRelease
    PROVE  /\ cmd[j].released \in 1..made /\ cmd[j].released \in Commit
           /\ cmd[j].released \notin Source /\ cmd[j].released # Absent
  <1>1. cmd[j].released \in 1..made /\ made \in 0..MaxCommits
    BY DEF IInv, TypeOK, JobInv, ReleaseCommit
  <1> QED BY <1>1, ReleaseAssumption DEF Commit

LEMMA LookKeeps ==
    ASSUME IInv, NEW j \in Job, LookAtBranch(j)
    PROVE  IInv'
  <1>1. cmd[j].step = "look" /\ cmd[j].step \in AfterRelease /\ MergedStay
        /\ UNCHANGED <<remote, clone, made, foreign, merges, early, others, faults>>
    BY RemoteStays DEF LookAtBranch, At, AfterRelease
  <1>2. CASE End(j) /\ (Report(j) \/ UNCHANGED reported)
    <2>1. reported' \subseteq Commit
      BY <1>1, <1>2, ReleasedIsCommit DEF Report, IInv, TypeOK
    <2> QED BY <1>1, <1>2, <2>1, EndKeeps, JobEnds, LocalStep DEF IInv, TypeOK
  <1>3. CASE Goto(j, "delete") /\ UNCHANGED reported
    <2>1. cmd[j].released \in MergedHeads' /\ "delete" \in AfterRelease /\ "delete" \in Steps
      BY <1>1, MergedHeadsGrow DEF IInv, JobInv, AfterRelease, Steps
    <2>2. JobInv(j)'
      BY <1>1, <1>3, <2>1, GoesOn DEF WithPull, MayMerge
    <2> QED BY <1>1, <1>3, <2>1, <2>2, GotoKeeps, LocalStep DEF IInv, TypeOK
  <1> QED BY <1>2, <1>3 DEF LookAtBranch

LEMMA CheckoutKeeps ==
    ASSUME IInv, NEW j \in Job, Checkout(j)
    PROVE  IInv'
  <1>1. PICK s \in Source :
          clone' = [clone EXCEPT ![j] = [source |-> s, branch |-> Absent, tag |-> origin.tag]]
    BY DEF Checkout
  <1>2. UNCHANGED <<remote, cmd, history, others, faults>> /\ cmd[j].step = "idle"
    BY DEF Checkout, At
  <1>3. /\ clone' \in [Job -> [source : Source, branch : Ref, tag : Ref]]
        /\ clone'[j].tag = origin.tag /\ \A k \in Job \ {j} : clone'[k] = clone[k]
    BY <1>1 DEF IInv, TypeOK, Ref
  <1>4. RemoteInv' /\ MergedStay /\ made <= made'
    BY <1>2, RemoteStays DEF history
  <1>5. TypeOK'
    BY <1>2, <1>3 DEF IInv, TypeOK, remote, history
  <1>6. JobInv(j)'
    BY <1>2, <1>3 DEF IInv, RemoteInv, JobInv, ReleaseCommit, AfterRelease, WithPull,
         MayMerge, history
  <1> QED BY <1>2, <1>3, <1>4, <1>5, <1>6, OneMoves

------------------------------------------------------------------------------
\* The types of the remote, and its invariants but for what was merged.
RemoteKept ==
    /\ PullsKept /\ Len(pulls) <= MaxPulls
    /\ origin \in [branch : Ref, tag : Ref]

\* A step of one job that changes the remote.
LEMMA RemoteStep ==
    ASSUME IInv, RemoteKept', MergedStay, NEW j \in Job,
           UNCHANGED <<merges, foreign>>, made' \in 0..MaxCommits, made <= made',
           origin'.tag \in {origin.tag} \cup 1..made',
           clone' \in [Job -> [source : Source, branch : Ref, tag : Ref]],
           cmd' \in [Job -> Command],
           \A k \in Job \ {j} : cmd'[k] = cmd[k] /\ clone'[k] = clone[k],
           reported' \subseteq Commit, early' \in BOOLEAN,
           others' \in 0..MaxOthers, faults' \in 0..MaxFaults, JobInv(j)'
    PROVE  IInv'
  <1>1. RemoteInv'
    BY RemoteFromPulls, ReleaseAssumption DEF RemoteKept
  <1>2. foreign' \subseteq 1..made'
    BY ReleaseAssumption DEF IInv, TypeOK
  <1>3. TypeOK'
    BY <1>2 DEF IInv, TypeOK, RemoteKept, PullsKept
  <1> QED BY <1>1, <1>3, OneMoves

\* A request of the pull-request stage, or the last push.
LEMMA RequestStep ==
    ASSUME IInv, RemoteKept', MergedStay, NEW j \in Job,
           UNCHANGED <<clone, made, foreign, merges, early, others>>,
           origin'.tag = origin.tag, cmd' \in [Job -> Command],
           \A k \in Job \ {j} : cmd'[k] = cmd[k],
           reported' \subseteq Commit, faults' \in 0..MaxFaults, JobInv(j)'
    PROVE  IInv'
  <1>1. /\ made' \in 0..MaxCommits /\ made <= made' /\ early' \in BOOLEAN
        /\ others' \in 0..MaxOthers
        /\ clone' \in [Job -> [source : Source, branch : Ref, tag : Ref]]
    BY ReleaseAssumption DEF IInv, TypeOK
  <1> QED BY <1>1, RemoteStep

LEMMA Kept == IInv => RemoteKept
  BY DEF IInv, TypeOK, RemoteInv, RemoteKept, PullsKept

LEMMA SetBranchKeeps ==
    ASSUME IInv, NEW commit \in Ref, SetBranch(commit)
    PROVE  /\ RemoteKept' /\ MergedStay
           /\ origin'.tag = origin.tag /\ origin'.branch = commit
  <1>1. PICK closes \in BOOLEAN : (closes => commit \in Source) /\ pulls' = PullsAfter(commit, closes)
    BY DEF SetBranch
  <1>2. origin' = [origin EXCEPT !.branch = commit] /\ origin \in [branch : Ref, tag : Ref]
    BY DEF SetBranch, IInv, TypeOK
  <1>3. origin' \in [branch : Ref, tag : Ref] /\ origin'.branch = commit /\ origin'.tag = origin.tag
    BY <1>2
  <1>4. PullsKept' /\ MergedStay /\ Len(pulls') = Len(pulls)
    BY <1>1, <1>3, Kept, BranchMoves DEF IInv, RemoteKept
  <1> QED BY <1>3, <1>4 DEF RemoteKept, IInv, TypeOK

LEMMA LeasedPushKeeps ==
    ASSUME IInv, NEW expected, NEW commit \in Ref, LeasedPush(expected, commit)
    PROVE  RemoteKept' /\ MergedStay /\ origin'.tag = origin.tag
  <1>1. CASE LeaseHolds(expected, commit)
    BY <1>1, SetBranchKeeps DEF LeasedPush
  <1>2. CASE ~LeaseHolds(expected, commit)
    <2>1. UNCHANGED <<origin, pulls>>
      BY <1>2 DEF LeasedPush, remote
    <2> QED BY <2>1, Kept DEF RemoteKept, PullsKept, OpenAtBranch, OneOpen, OpenPulls,
         MergedStay
  <1> QED BY <1>1, <1>2

LEMMA CountLostType ==
    ASSUME IInv, NEW answered \in BOOLEAN, CountLost(answered)
    PROVE  faults' \in 0..MaxFaults
  BY ReleaseAssumption DEF IInv, TypeOK, CountLost

LEMMA PushSourceKeeps ==
    ASSUME IInv, NEW j \in Job, NEW answered \in BOOLEAN, PushSource(j, answered)
    PROVE  IInv'
  <1>1. clone[j].source \in Ref /\ UNCHANGED <<history, others>> /\ faults' \in 0..MaxFaults
    BY CountLostType DEF PushSource, IInv, TypeOK, Ref, Commit
  <1>2. RemoteKept' /\ MergedStay /\ origin'.tag = origin.tag
    BY <1>1, LeasedPushKeeps DEF PushSource
  <1>3. /\ clone' \in [Job -> [source : Source, branch : Ref, tag : Ref]]
        /\ clone'[j].tag = clone[j].tag /\ \A k \in Job \ {j} : clone'[k] = clone[k]
    BY <1>1 DEF PushSource, IInv, TypeOK
  <1>4. CASE Goto(j, "run")
    <2>1. "run" \in Steps
      BY DEF Steps
    <2>2. JobInv(j)'
      BY <1>1, <1>3, <1>4, <2>1, GotoKeeps DEF IInv, JobInv, AfterRelease, WithPull, MayMerge,
                                              ReleaseCommit, history
    <2> QED BY <1>1, <1>2, <1>3, <1>4, <2>1, <2>2, GotoKeeps, RemoteStep, ReleaseAssumption
            DEF IInv, TypeOK, history
  <1>5. CASE End(j)
    <2>1. JobInv(j)'
      BY <1>1, <1>3, <1>5, EndKeeps, IdleJob DEF IInv, JobInv, ReleaseCommit, history
    <2> QED BY <1>1, <1>2, <1>3, <1>5, <2>1, EndKeeps, RemoteStep, ReleaseAssumption
            DEF IInv, TypeOK, history
  <1> QED BY <1>4, <1>5 DEF PushSource

LEMMA PublishKeeps ==
    ASSUME IInv, NEW j \in Job, NEW answered \in BOOLEAN, PublishHead(j, answered)
    PROVE  IInv'
  <1>1. cmd[j].released \in Ref /\ UNCHANGED <<clone, history, others>> /\ faults' \in 0..MaxFaults
    BY CountLostType DEF PublishHead, IInv, TypeOK, Command
  <1>2. RemoteKept' /\ MergedStay /\ origin'.tag = origin.tag
    BY <1>1, LeasedPushKeeps DEF PublishHead
  <1>3. cmd[j].step \in AfterRelease
    BY DEF PublishHead, At, AfterRelease
  <1>4. CASE Goto(j, "find")
    <2>1. "find" \in AfterRelease /\ "find" \in Steps
      BY DEF Steps, AfterRelease
    <2>2. JobInv(j)'
      BY <1>1, <1>2, <1>3, <1>4, <2>1, GoesOn DEF WithPull, MayMerge, history
    <2> QED BY <1>1, <1>2, <1>4, <2>1, <2>2, GotoKeeps, RequestStep DEF IInv, TypeOK, history
  <1>5. CASE End(j)
    BY <1>1, <1>2, <1>5, EndKeeps, JobEnds, RequestStep DEF IInv, TypeOK, history
  <1> QED BY <1>4, <1>5 DEF PublishHead

LEMMA ReleaseKeeps ==
    ASSUME IInv, NEW j \in Job, RunRelease(j)
    PROVE  IInv'
  <1> DEFINE head == made + 1
  <1>1. PICK tagged, tagSent, branchSent, ok \in BOOLEAN :
          LET tag == IF tagged THEN head ELSE clone[j].tag
          IN  /\ tagSent => (tagged /\ origin.tag = Absent)
              /\ clone' = [clone EXCEPT ![j].branch = head, ![j].tag = tag]
              /\ origin' = [branch |-> IF branchSent THEN head ELSE origin.branch,
                            tag |-> IF tagSent THEN head ELSE origin.tag]
              /\ pulls' = IF branchSent THEN PullsAfter(head, FALSE) ELSE pulls
              /\ IF ok /\ VerifyReleasedHead(head, tag)
                 THEN cmd' = [cmd EXCEPT ![j].step = "publish", ![j].released = head]
                 ELSE End(j)
    BY DEF RunRelease
  <1> DEFINE tag == IF tagged THEN head ELSE clone[j].tag
  <1>2. /\ cmd[j].step = "run" /\ made' = head
        /\ UNCHANGED <<foreign, merges, reported, early, others, faults>>
    BY DEF RunRelease, At
  <1>3. made \in Nat /\ head \in 1..MaxCommits /\ made' \in 0..MaxCommits /\ made <= made'
        /\ head \in Ref
    BY <1>2, ReleaseAssumption DEF RunRelease, IInv, TypeOK, Ref, Commit
  <1>4. tag \in 1..made' \cup {Absent} /\ tag \in Ref
    BY <1>2, <1>3 DEF IInv, TypeOK, JobInv, ReleaseCommit
  <1>5. /\ clone' \in [Job -> [source : Source, branch : Ref, tag : Ref]]
        /\ clone'[j].tag = tag /\ \A k \in Job \ {j} : clone'[k] = clone[k]
    <2>1. clone' = [clone EXCEPT ![j] = [clone[j] EXCEPT !.branch = head, !.tag = tag]]
      BY <1>1
    <2>2. clone \in [Job -> [source : Source, branch : Ref, tag : Ref]]
      BY DEF IInv, TypeOK
    <2> HIDE DEF head, tag
    <2> QED BY <1>3, <1>4, <2>1, <2>2
  <1>6. /\ origin' \in [branch : Ref, tag : Ref] /\ origin'.tag \in {origin.tag} \cup 1..made'
        /\ origin'.branch = IF branchSent THEN head ELSE origin.branch
    BY <1>1, <1>2, <1>3 DEF IInv, TypeOK
  <1>7. PullsKept' /\ MergedStay /\ Len(pulls') = Len(pulls)
    <2>1. CASE branchSent
      BY <1>1, <1>3, <1>6, <2>1, Kept, BranchMoves DEF IInv, RemoteKept
    <2>2. CASE ~branchSent
      BY <1>1, <1>6, <2>2, Kept DEF RemoteKept, PullsKept, OpenAtBranch, OneOpen, OpenPulls,
           MergedStay
    <2> QED BY <2>1, <2>2
  <1>8. RemoteKept'
    BY <1>6, <1>7 DEF RemoteKept, IInv, TypeOK
  <1>9. cmd' \in [Job -> Command] /\ (\A k \in Job \ {j} : cmd'[k] = cmd[k]) /\ JobInv(j)'
    <2>1. CASE ok /\ VerifyReleasedHead(head, tag)
      <3>1. /\ cmd' = [cmd EXCEPT ![j] = [cmd[j] EXCEPT !.step = "publish", !.released = head]]
            /\ cmd \in [Job -> Command]
        BY <1>1, <2>1 DEF IInv, TypeOK
      <3>2. tag = head /\ head # Absent
        BY <1>3, <2>1, ReleaseAssumption DEF VerifyReleasedHead
      <3> HIDE DEF head, tag
      <3>3. [cmd[j] EXCEPT !.step = "publish", !.released = head] \in Command
        BY <1>3, <3>1 DEF Command, Steps
      <3>4. /\ cmd' \in [Job -> Command] /\ \A k \in Job \ {j} : cmd'[k] = cmd[k]
            /\ cmd'[j].step = "publish" /\ cmd'[j].released = head
        BY <3>1, <3>3 DEF Command
      <3>5. JobInv(j)'
        BY <1>4, <1>5, <3>2, <3>4 DEF JobInv, ReleaseCommit, WithPull, MayMerge
      <3> QED BY <3>4, <3>5
    <2>2. CASE ~(ok /\ VerifyReleasedHead(head, tag))
      <3>1. End(j)
        BY <1>1, <2>2
      <3> QED BY <1>4, <1>5, <3>1, EndKeeps, IdleJob
    <2> QED BY <2>1, <2>2
  <1>10. /\ reported' \subseteq Commit /\ early' \in BOOLEAN
         /\ others' \in 0..MaxOthers /\ faults' \in 0..MaxFaults
    BY <1>2 DEF IInv, TypeOK
  <1> QED BY <1>2, <1>3, <1>5, <1>6, <1>7, <1>8, <1>9, <1>10, RemoteStep

LEMMA CreateKeeps ==
    ASSUME IInv, NEW j \in Job, NEW answered \in BOOLEAN, Create(j, answered)
    PROVE  IInv'
  <1>1. /\ cmd[j].step = "create" /\ cmd[j].step \in AfterRelease /\ ~cmd[j].must
        /\ UNCHANGED <<origin, clone, history, others>> /\ faults' \in 0..MaxFaults
        /\ reported' \subseteq Commit
    BY CountLostType DEF Create, At, AfterRelease, IInv, JobInv, MayMerge, TypeOK, history
  <1>2. CASE MayOpen
    <2>1. OpenPulls = {} /\ origin.branch \in Commit
      BY <1>2 DEF MayOpen, IInv, TypeOK, Ref
    <2>2. /\ PullsKept' /\ MergedStay /\ Len(pulls') = Len(pulls) + 1
          /\ Len(pulls) + 1 \in DOMAIN pulls'
      BY <1>1, <1>2, <2>1, Kept, PullOpens DEF Create, RemoteKept, IInv
    <2>3. Len(pulls) \in Nat /\ Len(pulls) < MaxPulls
      BY <1>2, LenProperties DEF Create, IInv, TypeOK
    <2>4. RemoteKept'
      BY <1>1, <2>2, <2>3, ReleaseAssumption DEF RemoteKept, IInv, TypeOK
    <2>5. CASE answered /\ origin.branch = cmd[j].released
      <3>0. cmd \in [Job -> Command] /\ Len(pulls) + 1 \in 0..MaxPulls
        BY <2>3, ReleaseAssumption DEF IInv, TypeOK
      <3>1. cmd' = [cmd EXCEPT ![j] = [cmd[j] EXCEPT !.step = "confirm", !.pull = Len(pulls) + 1]]
        BY <1>2, <2>5, <3>0 DEF Create
      <3>2. [cmd[j] EXCEPT !.step = "confirm", !.pull = Len(pulls) + 1] \in Command
        BY <3>0 DEF Command, Steps
      <3>3. /\ cmd' \in [Job -> Command] /\ \A k \in Job \ {j} : cmd'[k] = cmd[k]
            /\ cmd'[j].step = "confirm" /\ cmd'[j].pull = Len(pulls) + 1
            /\ cmd'[j].released = cmd[j].released /\ cmd'[j].must = cmd[j].must
        BY <3>0, <3>1, <3>2 DEF Command
      <3>4. JobInv(j)'
        BY <1>1, <2>2, <3>3 DEF IInv, JobInv, AfterRelease, WithPull, MayMerge, ReleaseCommit,
             history
      <3> QED BY <1>1, <2>2, <2>4, <3>3, <3>4, RequestStep DEF history
    <2>6. CASE ~(answered /\ origin.branch = cmd[j].released)
      <3>1. End(j)
        BY <1>2, <2>6 DEF Create
      <3> QED BY <1>1, <2>2, <2>4, <3>1, EndKeeps, JobEnds, RequestStep DEF history
    <2> QED BY <2>5, <2>6
  <1>3. CASE ~MayOpen
    <2>1. UNCHANGED <<remote, made, merges>>
      BY <1>1, <1>3 DEF Create, remote, history
    <2>2. RemoteKept' /\ MergedStay
      BY <2>1, RemoteStays, Kept DEF RemoteKept, PullsKept, OpenAtBranch, OneOpen, OpenPulls,
           remote
    <2>3. CASE Goto(j, "relookup")
      <3>1. "relookup" \in AfterRelease /\ "relookup" \in Steps
        BY DEF Steps, AfterRelease
      <3>2. JobInv(j)'
        BY <1>1, <2>2, <2>3, <3>1, GoesOn DEF WithPull, history
      <3> QED BY <1>1, <2>2, <2>3, <3>1, <3>2, GotoKeeps, RequestStep DEF history
    <2>4. CASE End(j)
      BY <1>1, <2>2, <2>4, EndKeeps, JobEnds, RequestStep DEF history
    <2> QED BY <1>3, <2>3, <2>4 DEF Create
  <1> QED BY <1>2, <1>3

LEMMA MergePullKeeps ==
    ASSUME IInv, NEW n \in OpenPulls, MergePull(n)
    PROVE  /\ RemoteKept' /\ MergedStay /\ OpenPulls' = {} /\ n \in DOMAIN pulls'
           /\ pulls'[n].state = "merged" /\ pulls'[n].head = pulls[n].head
           /\ origin'.tag = origin.tag /\ origin'.branch \in {origin.branch, Absent}
  <1>1. pulls' = [pulls EXCEPT ![n].state = "merged"] /\ pulls[n] \in Pull
    BY LenProperties DEF MergePull, OpenPulls, IInv, TypeOK
  <1>2. /\ PullsKept' /\ MergedStay /\ Len(pulls') = Len(pulls) /\ OpenPulls' = {}
        /\ n \in DOMAIN pulls' /\ pulls'[n] = [pulls[n] EXCEPT !.state = "merged"]
    BY <1>1, Kept, PullEnds DEF IInv, RemoteKept
  <1>3. /\ origin \in [branch : Ref, tag : Ref] /\ Absent \in Ref
        /\ origin' = origin \/ origin' = [origin EXCEPT !.branch = Absent]
    BY DEF MergePull, IInv, TypeOK, Ref
  <1>4. /\ origin' \in [branch : Ref, tag : Ref]
        /\ origin'.tag = origin.tag /\ origin'.branch \in {origin.branch, Absent}
    BY <1>3
  <1> QED BY <1>1, <1>2, <1>4 DEF RemoteKept, IInv, TypeOK, Pull

\* Pull requests that were merged, and one that is now.
LEMMA MergeIsRecorded ==
    ASSUME IInv, RemoteKept', MergedStay, NEW n \in DOMAIN pulls', pulls'[n].state = "merged",
           merges' = merges \cup {n}, made' = made, origin'.tag = origin.tag
    PROVE  RemoteInv' /\ merges' \subseteq Number
  <1>1. n \in Number
    BY LenProperties, ReleaseAssumption DEF RemoteKept, PullsKept, Number
  <1> QED BY <1>1 DEF IInv, TypeOK, RemoteInv, RemoteKept, PullsKept, MergedStay,
       MergesAreMerged,
                      ReleaseCommit

LEMMA MergeKeeps ==
    ASSUME IInv, NEW j \in Job, NEW answered \in BOOLEAN, Merge(j, answered)
    PROVE  IInv'
  <1> DEFINE n == cmd[j].pull
  <1>1. /\ cmd[j].step = "merge" /\ cmd[j].step \in AfterRelease /\ n \in DOMAIN pulls
        /\ UNCHANGED <<clone, made, foreign, reported, early, others>> /\ faults' \in 0..MaxFaults
        /\ reported' \subseteq Commit
    BY CountLostType DEF Merge, At, AfterRelease, IInv, JobInv, WithPull, TypeOK
  <1>2. CASE pulls[n].state = "open" /\ Pinned(j, n)
    <2>1. n \in OpenPulls /\ MergePull(n) /\ merges' = merges \cup {n}
      BY <1>1, <1>2 DEF Merge, OpenPulls
    <2>2. /\ RemoteKept' /\ MergedStay /\ n \in DOMAIN pulls' /\ pulls'[n].state = "merged"
          /\ pulls'[n].head = pulls[n].head /\ origin'.tag = origin.tag
      BY <2>1, MergePullKeeps
    <2>3. RemoteInv' /\ merges' \subseteq Number
      BY <1>1, <2>1, <2>2, MergeIsRecorded
    <2>4. cmd' \in [Job -> Command] /\ (\A k \in Job \ {j} : cmd'[k] = cmd[k]) /\ JobInv(j)'
      <3>1. CASE Goto(j, "look")
        <4>1. "look" \in AfterRelease /\ "look" \in Steps
          BY DEF Steps, AfterRelease
        <4>2. cmd[j].released \in MergedHeads'
          BY <1>2, <2>2 DEF Pinned, MergedHeads
        <4> QED BY <1>1, <2>2, <3>1, <4>1, <4>2, GotoKeeps, GoesOn DEF WithPull, MayMerge
      <3>2. CASE End(j)
        BY <1>1, <3>2, EndKeeps, JobEnds
      <3> QED BY <1>2, <3>1, <3>2 DEF Merge
    <2>5. TypeOK'
      BY <1>1, <2>2, <2>3, <2>4 DEF IInv, TypeOK, RemoteKept, PullsKept
    <2> QED BY <1>1, <2>2, <2>3, <2>4, <2>5, OneMoves, ReleaseAssumption DEF IInv, TypeOK
  <1>3. CASE ~(pulls[n].state = "open" /\ Pinned(j, n))
    <2>1. UNCHANGED <<remote, made, merges>> /\ End(j)
      BY <1>1, <1>3 DEF Merge, Refused
    <2> QED BY <1>1, <2>1, EndKeeps, JobEnds, LocalStep DEF IInv, TypeOK
  <1> QED BY <1>2, <1>3

LEMMA DeleteKeeps ==
    ASSUME IInv, NEW j \in Job, NEW answered \in BOOLEAN, DeleteBranch(j, answered)
    PROVE  IInv'
  <1>1. /\ cmd[j].step \in AfterRelease /\ SetBranch(Absent) /\ End(j) /\ Absent \in Ref
        /\ UNCHANGED <<clone, made, foreign, merges, early, others>> /\ faults' \in 0..MaxFaults
    BY CountLostType DEF DeleteBranch, At, AfterRelease, Ref
  <1>2. RemoteKept' /\ MergedStay /\ origin'.tag = origin.tag
    BY <1>1, SetBranchKeeps
  <1>3. reported' \subseteq Commit
    BY <1>1, ReleasedIsCommit DEF DeleteBranch, Report, IInv, TypeOK
  <1> QED BY <1>1, <1>2, <1>3, EndKeeps, JobEnds, RequestStep

\* What other people do.
LEMMA OtherKeeps ==
    ASSUME IInv, Other
    PROVE  IInv'
  <1>1. UNCHANGED <<clone, cmd, merges, reported, early, faults>> /\ others' \in 0..MaxOthers
    BY ReleaseAssumption DEF Other, IInv, TypeOK
  <1>2. /\ RemoteKept' /\ MergedStay /\ origin'.tag = origin.tag
        /\ made' \in 0..MaxCommits /\ made <= made' /\ foreign' \subseteq 1..made'
    <2>1. CASE OtherPush
      <3>1. made + 1 \in Ref /\ made' \in 0..MaxCommits /\ made <= made' /\ foreign' \subseteq 1..made'
        BY <2>1, ReleaseAssumption DEF OtherPush, IInv, TypeOK, Ref, Commit
      <3> QED BY <2>1, <3>1, SetBranchKeeps DEF OtherPush
    <2>2. CASE SetBranch(Absent) /\ UNCHANGED <<made, foreign>>
      BY <2>2, SetBranchKeeps, ReleaseAssumption DEF IInv, TypeOK, Ref
    <2>3. ASSUME NEW n \in DOMAIN pulls, OtherPull(n), UNCHANGED <<made, foreign>>
          PROVE  RemoteKept' /\ MergedStay /\ origin'.tag = origin.tag
      <3>1. CASE pulls[n].state = "open" /\ MergePull(n)
        BY <3>1, MergePullKeeps DEF OpenPulls
      <3>2. CASE /\ pulls[n].state = "open" /\ UNCHANGED origin
                 /\ pulls' = [pulls EXCEPT ![n].state = "closed"]
        <4>1. PullsKept' /\ MergedStay /\ Len(pulls') = Len(pulls)
          BY <3>2, Kept, PullEnds DEF OpenPulls, IInv, RemoteKept
        <4> QED BY <3>2, <4>1 DEF RemoteKept, IInv, TypeOK
      <3>3. CASE /\ pulls[n].state = "closed" /\ pulls[n].head = origin.branch /\ MayOpen
                 /\ pulls' = [pulls EXCEPT ![n].state = "open"] /\ UNCHANGED origin
        <4>1. PullsKept' /\ MergedStay /\ Len(pulls') = Len(pulls)
          BY <3>3, Kept, PullReopens DEF MayOpen, IInv, RemoteKept
        <4> QED BY <3>3, <4>1 DEF RemoteKept, IInv, TypeOK
      <3> QED BY <2>3, <3>1, <3>2, <3>3 DEF OtherPull
    <2>4. made \in 0..MaxCommits /\ made <= made /\ foreign \subseteq 1..made
      BY ReleaseAssumption DEF IInv, TypeOK
    <2>5. CASE (\E n \in DOMAIN pulls : OtherPull(n)) /\ UNCHANGED <<made, foreign>>
      BY <2>3, <2>4, <2>5
    <2> QED BY <2>1, <2>2, <2>5 DEF Other
  <1>3. RemoteInv'
    BY <1>1, <1>2, RemoteFromPulls DEF RemoteKept
  <1>4. TypeOK'
    BY <1>1, <1>2 DEF IInv, TypeOK, RemoteKept, PullsKept
  <1>5. \A k \in Job : JobInv(k)'
    BY <1>1, <1>2, OthersKeep DEF IInv, TypeOK
  <1> QED BY <1>3, <1>4, <1>5 DEF IInv

LEMMA NextKeepsInv == IInv /\ [Next]_vars => IInv'
  <1> SUFFICES ASSUME IInv, [Next]_vars PROVE IInv'
    OBVIOUS
  <1>1. ASSUME NEW j \in Job, ReleaseStep(j) PROVE IInv'
    BY <1>1, InspectKeeps, ReleaseKeeps, PushSourceKeeps, PublishKeeps DEF ReleaseStep
  <1>2. ASSUME NEW j \in Job, PullStep(j) PROVE IInv'
    BY <1>2, RecoverKeeps, FindKeeps, ReadKeeps, LookKeeps, CreateKeeps, MergeKeeps, DeleteKeeps
       DEF PullStep
  <1>3. ASSUME NEW j \in Job, NEW reset \in BOOLEAN, BeginRelease(j, reset) PROVE IInv'
    BY <1>3, InspectKeeps
  <1>4. ASSUME NEW j \in Job, Recover(j) \/ Fail(j) \/ Checkout(j) PROVE IInv'
    BY <1>4, RecoverKeeps, FailKeeps, CheckoutKeeps
  <1>5. CASE UNCHANGED vars
    BY <1>5 DEF IInv, TypeOK, RemoteInv, OpenAtBranch, OneOpen, OpenPulls, MergesAreMerged,
                ReleaseCommit, JobInv, MergedHeads, vars, remote, history
  <1> QED BY <1>1, <1>2, <1>3, <1>4, <1>5, OtherKeeps DEF Next

\* Types (the variables of ReleaseTag), for any number of jobs and any bounds.
THEOREM TypeCorrect == Spec => []TypeOK
  <1>1. Init => IInv
    BY InitImpliesInv
  <1>2. IInv /\ [Next]_vars => IInv'
    BY NextKeepsInv
  <1>3. IInv => TypeOK
    BY DEF IInv
  <1> QED BY <1>1, <1>2, <1>3, PTL DEF Spec

\* A job removes the branch, and reports the release, only when a pull request at the
\* released head is merged (cleanupBranch and the result of runPullRequestLifecycle).
THEOREM RemovesOnlyMerged == Spec => []DeletesOnlyMerged
  <1>1. Init => IInv
    BY InitImpliesInv
  <1>2. IInv /\ [Next]_vars => IInv'
    BY NextKeepsInv
  <1>3. IInv => DeletesOnlyMerged
    BY DEF IInv, JobInv, DeletesOnlyMerged, At
  <1> QED BY <1>1, <1>2, <1>3, PTL DEF Spec

LEMMA InvIsInvariant == Spec => []IInv
  BY InitImpliesInv, NextKeepsInv, PTL DEF Spec

\* Only a merge by a job adds to what the package merged.
LEMMA OnlyMergesAdd ==
    ASSUME [Next]_vars, merges' # merges
    PROVE  \E j \in Job, answered \in BOOLEAN : Merge(j, answered)
  BY DEF Next, ReleaseStep, PullStep, BeginRelease, InspectBranch, InspectTag, RunRelease,
         PushSource, PublishHead, Recover, RecoverOrigin, Find, Create, Relookup, Read,
         LookAtBranch, DeleteBranch, Fail, Checkout, Other, vars, history

\* One job moves at a time.
LEMMA MergeIsOfOne ==
    ASSUME IInv, NEW j \in Job, NEW answered \in BOOLEAN, Merge(j, answered)
    PROVE  \A k \in Job \ {j} : cmd'[k] = cmd[k]
  <1>1. End(j) \/ Goto(j, "look")
    BY DEF Merge, Refused
  <1>2. "look" \in Steps
    BY DEF Steps
  <1> QED BY <1>1, <1>2, EndKeeps, GotoKeeps

\* What a merge merges: an open pull request at the released head of the job, which is
\* what the tag in its clone names.
LEMMA MergeOfTagged ==
    ASSUME IInv, NEW j \in Job, NEW answered \in BOOLEAN, Merge(j, answered), merges' # merges
    PROVE  LET n == cmd[j].pull
           IN  /\ merges' = merges \cup {n} /\ n \in OpenPulls /\ MergePull(n)
               /\ pulls[n].head = cmd[j].released /\ pulls'[n].head = clone[j].tag
  <1> DEFINE n == cmd[j].pull
  <1>1. cmd[j].step = "merge" /\ n \in DOMAIN pulls /\ cmd[j].released = clone[j].tag
    BY DEF Merge, At, IInv, JobInv, WithPull, AfterRelease
  <1>2. pulls[n].state = "open" /\ Pinned(j, n) /\ MergePull(n) /\ merges' = merges \cup {n}
    BY DEF Merge
  <1>3. pulls'[n].head = pulls[n].head
    BY <1>1, <1>2, MergePullKeeps DEF OpenPulls
  <1> QED BY <1>1, <1>2, <1>3 DEF Pinned, OpenPulls

\* What is merged is the tagged commit (readPullRequest, the sha of PUT merge and
\* verifyReleasedHead), whatever others do to the branch in between.
THEOREM MergesTagged == Spec => MergedIsTagged
  <1>1. IInv /\ [Next]_vars =>
          [\A j \in Job, n \in Number : n \in merges' \ merges /\ cmd'[j] # cmd[j]
             => pulls'[n].head = clone[j].tag]_vars
    <2> SUFFICES ASSUME IInv, [Next]_vars, NEW j \in Job, NEW n \in Number,
                        n \in merges' \ merges, cmd'[j] # cmd[j]
                 PROVE  pulls'[n].head = clone[j].tag
      OBVIOUS
    <2>1. PICK k \in Job, answered \in BOOLEAN : Merge(k, answered)
      BY OnlyMergesAdd
    <2>2. k = j
      BY <2>1, MergeIsOfOne
    <2> QED BY <2>1, <2>2, MergeOfTagged
  <1> QED BY <1>1, InvIsInvariant, PTL DEF Spec, MergedIsTagged

\* A job at one of its pushes goes on by that push, or fails.
LEMMA OnlyJobMoves ==
    ASSUME IInv, [Next]_vars, NEW j \in Job, At(j, "push") \/ At(j, "publish"), cmd'[j] # cmd[j]
    PROVE  \/ \E answered \in BOOLEAN : PushSource(j, answered) \/ PublishHead(j, answered)
           \/ Fail(j)
  <1>1. cmd \in [Job -> Command]
    BY DEF IInv, TypeOK
  <1>2. ASSUME NEW k \in Job, k # j, ReleaseStep(k) PROVE FALSE
    BY <1>1, <1>2 DEF ReleaseStep, InspectBranch, InspectTag, PushSource, RunRelease,
         PublishHead,
                      End, Goto
  <1>3. ASSUME NEW k \in Job, k # j, RecoverOrigin(k) \/ Find(k) \/ Relookup(k) \/ LookAtBranch(k)
        PROVE FALSE
    BY <1>1, <1>3 DEF RecoverOrigin, Find, Relookup, LookAtBranch, End, Goto
  <1>4. ASSUME NEW k \in Job, k # j, Read(k) PROVE FALSE
    BY <1>1, <1>4 DEF Read, Details, End, Goto
  <1>5. ASSUME NEW k \in Job, k # j, NEW answered \in BOOLEAN,
               Create(k, answered) \/ Merge(k, answered) \/ DeleteBranch(k, answered)
        PROVE FALSE
    BY <1>1, <1>5 DEF Create, Merge, Refused, DeleteBranch, End, Goto
  <1>6. ASSUME NEW k \in Job, k # j,
               Recover(k) \/ Fail(k) \/ \E reset \in BOOLEAN : BeginRelease(k, reset)
        PROVE FALSE
    BY <1>1, <1>6 DEF Recover, Fail, BeginRelease, End
  <1>7. ASSUME ReleaseStep(j)
        PROVE  \E answered \in BOOLEAN : PushSource(j, answered) \/ PublishHead(j, answered)
    BY <1>7 DEF ReleaseStep, InspectBranch, InspectTag, RunRelease, At
  <1>8. ~PullStep(j) /\ ~Recover(j) /\ ~\E reset \in BOOLEAN : BeginRelease(j, reset)
    BY DEF PullStep, RecoverOrigin, Find, Create, Relookup, Read, Merge, LookAtBranch,
         DeleteBranch,
           Recover, BeginRelease, At
  <1>9. ~Other /\ ~UNCHANGED vars /\ \A k \in Job : ~Checkout(k)
    BY DEF Other, vars, Checkout
  <1> QED BY <1>2, <1>3, <1>4, <1>5, <1>6, <1>7, <1>8, <1>9 DEF Next, PullStep

\* A push replaces only a commit of the base, or what a reset has seen
\* (--force-with-lease of pushReleaseBranch).
THEOREM OverwritesSeen == Spec => OverwritesOnlyObserved
  <1>1. IInv /\ [Next]_vars =>
          [\A j \in Job :
             /\ At(j, "push") \/ At(j, "publish")
             /\ cmd'[j] # cmd[j] /\ origin'.branch # origin.branch
             => origin.branch \in Source \cup {Absent}
                \/ (cmd[j].reset /\ cmd[j].observed = origin.branch)]_vars
    <2> SUFFICES ASSUME IInv, [Next]_vars, NEW j \in Job, At(j, "push") \/ At(j, "publish"),
                        cmd'[j] # cmd[j], origin'.branch # origin.branch
                 PROVE  \/ origin.branch \in Source \cup {Absent}
                        \/ cmd[j].reset /\ cmd[j].observed = origin.branch
      OBVIOUS
    <2>1. CASE \E answered \in BOOLEAN : PushSource(j, answered)
      <3>1. LeaseHolds(cmd[j].observed, clone[j].source) /\ cmd[j].step = "push"
        BY <2>1 DEF PushSource, LeasedPush, remote, At
      <3>2. clone[j].source \in Source
        BY DEF IInv, TypeOK
      <3> QED BY <3>1, <3>2 DEF LeaseHolds, IInv, JobInv
    <2>2. CASE \E answered \in BOOLEAN : PublishHead(j, answered)
      <3>1. /\ LeaseHolds(clone[j].source, cmd[j].released) /\ SetBranch(cmd[j].released)
            /\ cmd[j].released \in Ref
        BY <2>2 DEF PublishHead, LeasedPush, remote, IInv, TypeOK, Command
      <3>2. origin'.branch = cmd[j].released
        BY <3>1, SetBranchKeeps
      <3>3. clone[j].source \in Source
        BY DEF IInv, TypeOK
      <3> QED BY <3>1, <3>2, <3>3 DEF LeaseHolds
    <2>3. CASE Fail(j)
      BY <2>3 DEF Fail, remote
    <2>4. CASE UNCHANGED cmd
      BY <2>4
    <2> QED BY <2>1, <2>2, <2>3, <2>4, OnlyJobMoves
  <1> QED BY <1>1, InvIsInvariant, PTL DEF Spec, OverwritesOnlyObserved

------------------------------------------------------------------------------
\* Jobs that are looking for a pull request or have one, on behalf of a branch that is
\* on origin.
Found == {"create", "relookup", "read", "update", "confirm", "merge"}
Seeking(j) == cmd[j].step \in Found \cup {"find"} /\ ~cmd[j].must
Holding(j) == cmd[j].step \in Found /\ ~cmd[j].must

\* No two jobs are about to publish the same head, and nobody is about to publish what
\* another seeks to merge.
Rivals ==
    \A j, k \in Job : j # k /\ At(j, "publish") /\ At(k, "publish")
                        => cmd[j].released # cmd[k].released

Awaited ==
    \A j, k \in Job : Seeking(j) /\ At(k, "publish") => cmd[j].released # cmd[k].released

\* A head cannot be merged any more: it was, and no pull request is open for it, or
\* the branch has left it.
Over(head) ==
    \/ head \in MergedHeads /\ \A n \in OpenPulls : pulls[n].head # head
    \/ origin.branch # head

NothingLeft == merges # {} => \A j \in Job : Holding(j) => Over(cmd[j].released)

OneMerge == \A m, n \in merges : m = n

NInv ==
    /\ Rivals
    /\ early \/ (Awaited /\ NothingLeft /\ OneMerge)

\* One job moves, not to its publication, and seeks only what it sought.
Proceeds(j) ==
    /\ \A k \in Job \ {j} : cmd'[k] = cmd[k]
    /\ cmd'[j].step # "publish"
    /\ Seeking(j)' => Seeking(j) /\ cmd'[j].released = cmd[j].released

LEMMA ProceedsKeeps ==
    ASSUME NInv, NEW j \in Job, Proceeds(j)
    PROVE  Rivals' /\ (early \/ Awaited')
  BY DEF NInv, Rivals, Awaited, Proceeds, At, Seeking

\* Such a step, when nothing is merged by the package and what is over stays over.
LEMMA ProceedsOn ==
    ASSUME IInv, NInv, NEW j \in Job, Proceeds(j), UNCHANGED <<merges, early>>,
           merges # {} /\ Holding(j)' => Holding(j) \/ Over(cmd[j].released),
           \A head \in 1..made : Over(head) => Over(head)'
    PROVE  NInv'
  <1>1. Rivals' /\ (early' \/ Awaited') /\ (early' \/ OneMerge')
    BY ProceedsKeeps DEF NInv, OneMerge
  <1>2. ASSUME ~early, merges # {}, NEW k \in Job, Holding(k)'
        PROVE  Over(cmd[k].released)'
    <2> DEFINE head == cmd[k].released
    <2>1. Over(head) /\ cmd'[k].released = head /\ cmd[k].step \in AfterRelease
      <3>1. CASE k = j
        <4>1. Holding(j)' /\ Seeking(j)'
          BY <1>2, <3>1 DEF Holding, Seeking
        <4>2. Seeking(j) /\ cmd'[j].released = cmd[j].released
          BY <4>1 DEF Proceeds
        <4>3. Over(cmd[j].released)
          BY <1>2, <4>1 DEF NInv, NothingLeft
        <4> QED BY <3>1, <4>2, <4>3 DEF Seeking, Found, AfterRelease
      <3>2. CASE k # j
        BY <1>2, <3>2 DEF NInv, NothingLeft, Proceeds, Holding, Found, AfterRelease
      <3> QED BY <3>1, <3>2
    <2>2. head \in 1..made
      BY <2>1, ReleasedIsCommit
    <2>3. (head \in MergedHeads /\ \A n \in OpenPulls : pulls[n].head # head)'
          \/ origin'.branch # cmd'[k].released
      BY <2>1, <2>2 DEF Over
    <2> QED BY <2>1, <2>3 DEF Over
  <1>3. early' \/ NothingLeft'
    <2>1. early' = early /\ merges' = merges
      OBVIOUS
    <2> QED BY <1>2, <2>1 DEF NothingLeft, Over, Holding
  <1> QED BY <1>1, <1>3 DEF NInv

LEMMA EndProceeds ==
    ASSUME IInv, NEW j \in Job, End(j)
    PROVE  Proceeds(j) /\ ~Holding(j)'
  BY EndKeeps DEF Proceeds, Holding, Seeking, Found, Idle

LEMMA GotoProceeds ==
    ASSUME IInv, NEW j \in Job, NEW step \in Steps, Goto(j, step), step # "publish",
           step \in Found \cup {"find"} => cmd[j].step \in Found
    PROVE  Proceeds(j) /\ (Holding(j)' => Holding(j))
  BY GotoKeeps DEF Proceeds, Holding, Seeking, Found

\* What is over stays over, whatever happens to the remote but a return of the head.
LEMMA OverWithoutChange ==
    ASSUME UNCHANGED remote, NEW head, Over(head)
    PROVE  Over(head)'
  BY DEF Over, MergedHeads, OpenPulls, remote

LEMMA OverAfterMove ==
    ASSUME IInv, NEW commit \in Ref, SetBranch(commit), NEW head, head # commit
    PROVE  Over(head)'
  BY SetBranchKeeps DEF Over

LEMMA OverWithoutOpen ==
    ASSUME MergedStay, OpenPulls' = {}, NEW head \in 1..made, Over(head), IInv,
           origin'.branch \in {origin.branch, Absent}
    PROVE  Over(head)'
  <1>1. head # Absent
    BY ReleaseAssumption DEF IInv, TypeOK
  <1> QED BY <1>1, MergedHeadsGrow DEF Over

LEMMA OverWithNewOpen ==
    ASSUME MergedStay, NEW n, OpenPulls' = {n}, pulls'[n].head = origin.branch, UNCHANGED origin,
           origin.branch \notin MergedHeads, NEW head, Over(head)
    PROVE  Over(head)'
  BY MergedHeadsGrow DEF Over

\* The steps of a job that leave the remote alone.
LEMMA QuietStep ==
    ASSUME IInv, NInv, NEW j \in Job, Proceeds(j), UNCHANGED <<remote, merges, early>>,
           merges # {} /\ Holding(j)' => Holding(j) \/ Over(cmd[j].released)
    PROVE  NInv'
  BY OverWithoutChange, ProceedsOn

LEMMA InspectKeepsOne ==
    ASSUME IInv, NInv, NEW j \in Job,
           \/ \E reset \in BOOLEAN : BeginRelease(j, reset)
           \/ InspectBranch(j) \/ InspectTag(j) \/ Recover(j) \/ Fail(j) \/ Checkout(j)
    PROVE  NInv'
  <1>1. UNCHANGED <<remote, merges, early>>
    BY DEF BeginRelease, InspectBranch, InspectTag, Recover, Fail, Checkout, history
  <1>2. cmd \in [Job -> Command]
    BY DEF IInv, TypeOK
  <1>3. CASE Checkout(j)
    <2>1. Proceeds(j) /\ ~Holding(j)'
      BY <1>3 DEF Checkout, At, Proceeds, Holding, Seeking, Found
    <2> QED BY <1>1, <2>1, QuietStep
  <1>4. CASE End(j)
    BY <1>1, <1>4, EndProceeds, QuietStep
  <1>5. CASE /\ \A k \in Job \ {j} : cmd'[k] = cmd[k]
             /\ cmd'[j].step \in {"branch", "tag", "push", "origin"}
    <2>1. Proceeds(j) /\ ~Holding(j)'
      BY <1>5 DEF Proceeds, Holding, Seeking, Found
    <2> QED BY <1>1, <2>1, QuietStep
  <1>6. ASSUME NEW reset \in BOOLEAN, BeginRelease(j, reset)
        PROVE  cmd'[j].step = "branch" /\ \A k \in Job \ {j} : cmd'[k] = cmd[k]
    BY <1>2, <1>6 DEF BeginRelease, Idle
  <1>7. CASE InspectBranch(j) /\ ~End(j)
    <2>1. cmd' = [cmd EXCEPT ![j] = [cmd[j] EXCEPT !.step = "tag", !.observed = origin.branch]]
      BY <1>2, <1>7 DEF InspectBranch
    <2> QED BY <1>2, <1>5, <2>1 DEF Command
  <1>8. CASE InspectTag(j) /\ ~End(j)
    <2>1. Goto(j, "push") /\ "push" \in Steps
      BY <1>8 DEF InspectTag, Steps
    <2> QED BY <1>5, <2>1, GotoKeeps
  <1>9. CASE Recover(j)
    <2>1. cmd'[j].step = "origin" /\ \A k \in Job \ {j} : cmd'[k] = cmd[k]
      BY <1>2, <1>9 DEF Recover, Idle
    <2> QED BY <1>5, <2>1
  <1> QED BY <1>3, <1>4, <1>5, <1>6, <1>7, <1>8, <1>9 DEF Fail

LEMMA RecoverOriginKeepsOne ==
    ASSUME IInv, NInv, NEW j \in Job, RecoverOrigin(j)
    PROVE  NInv'
  <1>1. /\ UNCHANGED <<remote, merges>> /\ early' = (early \/ Early(j))
        /\ cmd[j].step = "origin" /\ cmd \in [Job -> Command]
    BY DEF RecoverOrigin, At, IInv, TypeOK
  <1>2. CASE ~MayRecover(j)
    <2>1. Proceeds(j) /\ ~Holding(j)'
      BY <1>2, EndProceeds DEF RecoverOrigin
    <2>2. Rivals' /\ (early \/ Awaited')
      BY <2>1, ProceedsKeeps
    <2>3. CASE early'
      BY <2>2, <2>3, Zenon DEF NInv
    <2>4. CASE ~early'
      <3>1. early \in BOOLEAN
        BY DEF IInv, TypeOK
      <3>2. UNCHANGED early
        BY <1>1, <2>4, <3>1
      <3> QED BY <1>1, <2>1, <3>2, QuietStep
    <2> QED BY <2>3, <2>4
  <1>3. CASE MayRecover(j)
    <2>1. cmd' = [cmd EXCEPT ![j] =
                    [cmd[j] EXCEPT !.step = "find", !.must = (origin.branch = Absent)]]
      BY <1>1, <1>3 DEF RecoverOrigin
    <2>2. /\ cmd'[j].step = "find" /\ cmd'[j].released = cmd[j].released
          /\ cmd'[j].must = (origin.branch = Absent)
          /\ \A k \in Job \ {j} : cmd'[k] = cmd[k]
      BY <1>1, <2>1 DEF Command
    <2>3. Rivals'
      BY <2>2 DEF NInv, Rivals, At
    <2>4. early' \/ Awaited'
      <3> SUFFICES ASSUME ~early' PROVE Awaited'
        OBVIOUS
      <3>1. Awaited /\ ~Early(j)
        BY <1>1 DEF NInv
      <3>2. ASSUME NEW k \in Job, At(k, "publish")', Seeking(j)'
            PROVE  cmd'[j].released # cmd'[k].released
        <4>1. origin.branch = cmd[j].released
          BY <1>3, <2>2, <3>2 DEF MayRecover, Seeking
        <4>2. k # j /\ At(k, "publish") /\ cmd'[k].released = cmd[k].released
          BY <2>2, <3>2 DEF At
        <4> QED BY <2>2, <3>1, <4>1, <4>2 DEF Early
      <3> QED BY <2>2, <3>1, <3>2 DEF Awaited, Seeking, At
    <2>5. early' \/ (NothingLeft' /\ OneMerge')
      <3>1. OneMerge => OneMerge'
        BY <1>1 DEF OneMerge
      <3>2. NothingLeft => NothingLeft'
        BY <1>1, <2>2 DEF NothingLeft, Holding, Found, Over, MergedHeads, OpenPulls, remote
      <3> QED BY <1>1, <3>1, <3>2 DEF NInv
    <2> QED BY <2>3, <2>4, <2>5 DEF NInv
  <1> QED BY <1>2, <1>3

LEMMA FindKeepsOne ==
    ASSUME IInv, NInv, NEW j \in Job, Find(j) \/ Relookup(j)
    PROVE  NInv'
  <1>1. /\ UNCHANGED <<remote, merges, early>> /\ cmd[j].step \in {"find", "relookup"}
        /\ cmd \in [Job -> Command]
    BY DEF Find, Relookup, At, history, IInv, TypeOK
  <1>2. CASE End(j)
    BY <1>1, <1>2, EndProceeds, QuietStep
  <1>3. CASE FoundOne(j) /\ cmd' = [cmd EXCEPT ![j].step = "read", ![j].pull = 1]
    <2>1. /\ cmd'[j].step = "read" /\ cmd'[j].released = cmd[j].released
          /\ cmd'[j].must = cmd[j].must /\ \A k \in Job \ {j} : cmd'[k] = cmd[k]
      BY <1>1, <1>3 DEF Command
    <2>2. Proceeds(j)
      BY <1>1, <2>1 DEF Proceeds, Seeking, Found
    <2>3. merges # {} => Over(cmd[j].released)
      <3>1. DOMAIN pulls = {1} /\ pulls[1].head = cmd[j].released
        BY <1>3, LenProperties DEF FoundOne, IsOurs, IInv, TypeOK
      <3> QED BY <3>1 DEF IInv, RemoteInv, MergesAreMerged, Over, MergedHeads, OpenPulls
    <2> QED BY <1>1, <2>2, <2>3, QuietStep
  <1>4. CASE FoundNone(j) /\ Goto(j, "create")
    <2>1. merges = {}
      BY <1>4 DEF FoundNone, IInv, RemoteInv, MergesAreMerged
    <2>2. "create" \in Steps
      BY DEF Steps
    <2>3. Proceeds(j)
      BY <1>1, <1>4, <2>2, GotoKeeps DEF Proceeds, Seeking, Found
    <2> QED BY <1>1, <2>1, <2>3, QuietStep
  <1> QED BY <1>2, <1>3, <1>4 DEF Find, Relookup

LEMMA ReadKeepsOne ==
    ASSUME IInv, NInv, NEW j \in Job, Read(j) \/ LookAtBranch(j)
    PROVE  NInv'
  <1>1. /\ UNCHANGED <<remote, merges, early>>
        /\ End(j) \/ \E step \in {"look", "update", "confirm", "merge", "delete"} :
                       /\ Goto(j, step)
                       /\ step \notin {"look", "delete"} => cmd[j].step \in Found
    BY DEF Read, Details, LookAtBranch, At, history, Found
  <1>2. CASE End(j)
    BY <1>1, <1>2, EndProceeds, QuietStep
  <1>3. ASSUME NEW step \in {"look", "update", "confirm", "merge", "delete"}, Goto(j, step),
               step \notin {"look", "delete"} => cmd[j].step \in Found
        PROVE  NInv'
    <2>1. step \in Steps /\ step # "publish" /\ (step \in Found \cup {"find"} => cmd[j].step \in Found)
      BY <1>3 DEF Steps, Found
    <2>2. Proceeds(j) /\ (Holding(j)' => Holding(j))
      BY <1>3, <2>1, GotoProceeds
    <2> QED BY <1>1, <2>2, QuietStep
  <1> QED BY <1>1, <1>2, <1>3

\* The steps of a job that do not publish a head and do not merge.
LEMMA PushSourceKeepsOne ==
    ASSUME IInv, NInv, NEW j \in Job, NEW answered \in BOOLEAN, PushSource(j, answered)
    PROVE  NInv'
  <1>1. /\ UNCHANGED <<merges, early>> /\ clone[j].source \in Source \cap Ref
        /\ Goto(j, "run") \/ End(j)
    BY DEF PushSource, history, IInv, TypeOK, Ref, Commit
  <1>2. Proceeds(j) /\ ~Holding(j)'
    <2>1. "run" \in Steps /\ "run" \notin Found \cup {"find", "publish"}
      BY DEF Steps, Found
    <2> QED BY <1>1, <2>1, EndProceeds, GotoKeeps DEF Proceeds, Holding, Seeking
  <1>3. \A head \in 1..made : Over(head) => Over(head)'
    <2> SUFFICES ASSUME NEW head \in 1..made, Over(head) PROVE Over(head)'
      OBVIOUS
    <2>1. head # clone[j].source
      BY <1>1, ReleaseAssumption DEF IInv, TypeOK
    <2>2. SetBranch(clone[j].source) \/ UNCHANGED remote
      BY DEF PushSource, LeasedPush
    <2> QED BY <1>1, <2>1, <2>2, OverAfterMove, OverWithoutChange
  <1> QED BY <1>1, <1>2, <1>3, ProceedsOn

LEMMA DeleteKeepsOne ==
    ASSUME IInv, NInv, NEW j \in Job, NEW answered \in BOOLEAN, DeleteBranch(j, answered)
    PROVE  NInv'
  <1>1. UNCHANGED <<merges, early>> /\ SetBranch(Absent) /\ End(j) /\ Absent \in Ref
    BY DEF DeleteBranch, Ref
  <1>2. \A head \in 1..made : head # Absent
    BY ReleaseAssumption DEF IInv, TypeOK
  <1> QED BY <1>1, <1>2, EndProceeds, OverAfterMove, ProceedsOn

LEMMA CreateKeepsOne ==
    ASSUME IInv, NInv, NEW j \in Job, NEW answered \in BOOLEAN, Create(j, answered)
    PROVE  NInv'
  <1>1. /\ UNCHANGED <<origin, merges, early>> /\ cmd[j].step = "create"
        /\ cmd \in [Job -> Command]
    BY DEF Create, At, history, IInv, TypeOK
  <1>2. Proceeds(j) /\ (Holding(j)' => Holding(j))
    <2>1. CASE End(j)
      BY <2>1, EndProceeds
    <2>2. CASE Goto(j, "relookup")
      <3>1. "relookup" \in Steps /\ cmd[j].step \in Found
        BY <1>1 DEF Steps, Found
      <3> QED BY <2>2, <3>1, GotoProceeds
    <2>3. CASE cmd' = [cmd EXCEPT ![j].step = "confirm", ![j].pull = Len(pulls) + 1]
      <3>1. /\ cmd'[j].step = "confirm" /\ cmd'[j].released = cmd[j].released
            /\ cmd'[j].must = cmd[j].must /\ \A k \in Job \ {j} : cmd'[k] = cmd[k]
        BY <1>1, <2>3 DEF Command
      <3> QED BY <1>1, <3>1 DEF Proceeds, Holding, Seeking, Found
    <2> QED BY <2>1, <2>2, <2>3 DEF Create
  <1>3. \A head \in 1..made : Over(head) => Over(head)'
    <2>1. CASE MayOpen
      <3>1. OpenPulls = {} /\ origin.branch \in Commit /\ origin.branch \notin MergedHeads
        BY <2>1 DEF MayOpen, IInv, TypeOK, Ref
      <3>2. /\ MergedStay /\ OpenPulls' = {Len(pulls) + 1}
            /\ pulls'[Len(pulls) + 1].head = origin.branch
        BY <1>1, <2>1, <3>1, Kept, PullOpens DEF Create, RemoteKept, IInv
      <3> QED BY <1>1, <3>1, <3>2, OverWithNewOpen
    <2>2. CASE ~MayOpen
      BY <1>1, <2>2, OverWithoutChange DEF Create, remote
    <2> QED BY <2>1, <2>2
  <1> QED BY <1>1, <1>2, <1>3, ProceedsOn

\* A new head is nobody's, and a job about to publish it seeks nothing yet.
LEMMA ReleaseKeepsOne ==
    ASSUME IInv, NInv, NEW j \in Job, RunRelease(j)
    PROVE  NInv'
  <1> DEFINE head == made + 1
  <1>1. /\ UNCHANGED <<merges, early>> /\ made \in Nat /\ cmd \in [Job -> Command]
        /\ \/ End(j)
           \/ cmd' = [cmd EXCEPT ![j].step = "publish", ![j].released = head]
        /\ \/ UNCHANGED <<origin.branch, pulls>>
           \/ origin'.branch = head
    <2>1. PICK tagSent, branchSent \in BOOLEAN :
            /\ origin' = [branch |-> IF branchSent THEN head ELSE origin.branch,
                          tag |-> IF tagSent THEN head ELSE origin.tag]
            /\ pulls' = IF branchSent THEN PullsAfter(head, FALSE) ELSE pulls
            /\ \/ End(j)
               \/ cmd' = [cmd EXCEPT ![j].step = "publish", ![j].released = head]
      BY DEF RunRelease
    <2>2. UNCHANGED <<origin.branch, pulls>> \/ origin'.branch = head
      BY <2>1
    <2>3. UNCHANGED <<merges, early>>
      BY DEF RunRelease
    <2>4. made \in Nat /\ cmd \in [Job -> Command]
      BY DEF IInv, TypeOK
    <2> QED BY <2>1, <2>2, <2>3, <2>4
  <1>2. /\ \A k \in Job \ {j} : cmd'[k] = cmd[k]
        /\ cmd'[j].step = "idle" \/ (cmd'[j].step = "publish" /\ cmd'[j].released = head)
    <2>1. head \in Ref
      BY <1>1, ReleaseAssumption DEF RunRelease, IInv, TypeOK, Ref, Commit
    <2>2. CASE End(j)
      BY <2>2, EndKeeps DEF Idle
    <2>3. CASE cmd' = [cmd EXCEPT ![j].step = "publish", ![j].released = head]
      BY <1>1, <2>3 DEF Command
    <2> QED BY <1>1, <2>2, <2>3
  <1>3. \A k \in Job : cmd[k].step \in AfterRelease => cmd[k].released \in 1..made
    BY ReleasedIsCommit
  <1>4. Rivals'
    BY <1>1, <1>2, <1>3 DEF NInv, Rivals, At, AfterRelease
  <1>5. early \/ Awaited'
    BY <1>1, <1>2, <1>3 DEF NInv, Awaited, Seeking, Found, At, AfterRelease
  <1>6. early \/ NothingLeft'
    <2> SUFFICES ASSUME ~early, merges # {}, NEW k \in Job, Holding(k)'
                 PROVE  Over(cmd[k].released)'
      BY <1>1 DEF NothingLeft, Over, Holding
    <2>1. k # j /\ cmd'[k] = cmd[k] /\ Holding(k)
      BY <1>2 DEF Holding, Found
    <2>2. Over(cmd[k].released) /\ cmd[k].released \in 1..made
      BY <1>3, <2>1 DEF NInv, NothingLeft, Holding, Found, AfterRelease
    <2>3. cmd[k].released # head
      BY <1>1, <2>2
    <2> QED BY <1>1, <2>1, <2>2, <2>3 DEF Over, MergedHeads, OpenPulls
  <1> QED BY <1>1, <1>4, <1>5, <1>6 DEF NInv, OneMerge

\* The head that is published differs from all that others seek or publish.
LEMMA PublishKeepsOne ==
    ASSUME IInv, NInv, NEW j \in Job, NEW answered \in BOOLEAN, PublishHead(j, answered)
    PROVE  NInv'
  <1>1. /\ UNCHANGED <<merges, early>> /\ At(j, "publish") /\ cmd[j].released \in Ref
        /\ Goto(j, "find") \/ End(j)
        /\ SetBranch(cmd[j].released) \/ UNCHANGED remote
    BY DEF PublishHead, LeasedPush, history, IInv, TypeOK, Command
  <1>2. /\ \A k \in Job \ {j} : cmd'[k] = cmd[k]
        /\ \/ cmd'[j].step = "find" /\ cmd'[j].released = cmd[j].released
           \/ cmd'[j].step = "idle"
    <2>1. "find" \in Steps
      BY DEF Steps
    <2> QED BY <1>1, <2>1, EndKeeps, GotoKeeps DEF Idle
  <1>3. Rivals'
    BY <1>2 DEF NInv, Rivals, At
  <1>4. early \/ Awaited'
    BY <1>1, <1>2 DEF NInv, Rivals, Awaited, Seeking, Found, At
  <1>5. early \/ NothingLeft'
    <2> SUFFICES ASSUME ~early, merges # {}, NEW k \in Job, Holding(k)'
                 PROVE  Over(cmd[k].released)'
      BY <1>1 DEF NothingLeft, Over, Holding
    <2>1. k # j /\ cmd'[k] = cmd[k] /\ Holding(k) /\ Seeking(k)
      BY <1>2 DEF Holding, Seeking, Found
    <2>2. Over(cmd[k].released) /\ cmd[k].released # cmd[j].released
      BY <1>1, <2>1 DEF NInv, NothingLeft, Awaited
    <2>3. ASSUME NEW head, head = cmd[k].released, Over(head)
          PROVE  Over(head)'
      BY <1>1, <2>2, <2>3, OverAfterMove, OverWithoutChange
    <2> QED BY <2>1, <2>2, <2>3 DEF Over
  <1> QED BY <1>1, <1>3, <1>4, <1>5 DEF NInv, OneMerge

\* The first merge leaves nothing to merge, and there is no second.
LEMMA MergeKeepsOne ==
    ASSUME IInv, NInv, NEW j \in Job, NEW answered \in BOOLEAN, Merge(j, answered)
    PROVE  NInv'
  <1> DEFINE n == cmd[j].pull
  <1>1. /\ UNCHANGED <<made, early>> /\ cmd[j].step = "merge" /\ n \in DOMAIN pulls /\ ~cmd[j].must
        /\ Goto(j, "look") \/ End(j)
    BY DEF Merge, Refused, At, IInv, JobInv, WithPull, MayMerge
  <1>2. Proceeds(j) /\ ~Holding(j)'
    <2>1. "look" \in Steps /\ "look" \notin Found \cup {"find", "publish"}
      BY DEF Steps, Found
    <2> QED BY <1>1, <2>1, EndProceeds, GotoKeeps DEF Proceeds, Holding, Seeking
  <1>3. CASE pulls[n].state = "open" /\ Pinned(j, n)
    <2>1. /\ MergePull(n) /\ merges' = merges \cup {n} /\ n \in OpenPulls
          /\ pulls[n].head = cmd[j].released /\ origin.branch = cmd[j].released
      BY <1>1, <1>3 DEF Merge, Pinned, OpenPulls, IInv, RemoteInv, OpenAtBranch
    <2>2. /\ OpenPulls' = {} /\ n \in DOMAIN pulls' /\ pulls'[n].state = "merged"
          /\ pulls'[n].head = cmd[j].released /\ origin'.branch \in {cmd[j].released, Absent}
      BY <2>1, MergePullKeeps
    <2>3. ASSUME NEW head \in 1..made PROVE Over(head)'
      <3>1. head # Absent
        BY ReleaseAssumption DEF IInv, TypeOK
      <3> QED BY <2>2, <3>1 DEF Over, MergedHeads
    <2>4. early \/ merges = {}
      BY <1>1, <2>1 DEF NInv, NothingLeft, Holding, Found, Over
    <2>5. early \/ NothingLeft'
      <3> SUFFICES ASSUME NEW k \in Job, Holding(k)' PROVE Over(cmd[k].released)'
        BY DEF NothingLeft, Over, Holding
      <3>1. k # j /\ cmd'[k] = cmd[k]
        BY <1>2 DEF Proceeds
      <3>2. cmd[k].released \in 1..made
        BY <3>1, ReleasedIsCommit DEF Holding, Found, AfterRelease
      <3> QED BY <2>3, <3>1, <3>2 DEF Over
    <2> QED BY <1>1, <1>2, <2>1, <2>4, <2>5, ProceedsKeeps DEF NInv, OneMerge
  <1>4. CASE ~(pulls[n].state = "open" /\ Pinned(j, n))
    BY <1>1, <1>2, <1>4, QuietStep DEF Merge
  <1> QED BY <1>3, <1>4

LEMMA OtherKeepsOne ==
    ASSUME IInv, NInv, Other
    PROVE  NInv'
  <1>1. UNCHANGED <<cmd, merges, early>>
    BY DEF Other
  <1>2. ASSUME NEW head \in 1..made, Over(head) PROVE Over(head)'
    <2>1. head # Absent /\ head # made + 1 /\ Absent \in Ref
      BY ReleaseAssumption DEF IInv, TypeOK, Ref
    <2>2. CASE OtherPush
      <3>1. made + 1 \in Ref
        BY <2>2, ReleaseAssumption DEF OtherPush, IInv, TypeOK, Ref, Commit
      <3> QED BY <1>2, <2>1, <2>2, <3>1, OverAfterMove DEF OtherPush
    <2>3. CASE SetBranch(Absent)
      BY <1>2, <2>1, <2>3, OverAfterMove
    <2>4. ASSUME NEW n \in DOMAIN pulls, OtherPull(n) PROVE Over(head)'
      <3>1. CASE pulls[n].state = "open" /\ MergePull(n)
        BY <1>2, <3>1, MergePullKeeps, OverWithoutOpen DEF OpenPulls
      <3>2. CASE /\ pulls[n].state = "open" /\ UNCHANGED origin
                 /\ pulls' = [pulls EXCEPT ![n].state = "closed"]
        <4>1. MergedStay /\ OpenPulls' = {}
          BY <3>2, Kept, PullEnds DEF OpenPulls, IInv, RemoteKept
        <4> QED BY <1>2, <3>2, <4>1, OverWithoutOpen
      <3>3. CASE /\ pulls[n].state = "closed" /\ pulls[n].head = origin.branch /\ MayOpen
                 /\ pulls' = [pulls EXCEPT ![n].state = "open"] /\ UNCHANGED origin
        <4>1. /\ MergedStay /\ OpenPulls' = {n} /\ pulls'[n].head = origin.branch
              /\ origin.branch \notin MergedHeads
          BY <3>3, Kept, PullReopens DEF MayOpen, IInv, RemoteKept
        <4> QED BY <1>2, <3>3, <4>1, OverWithNewOpen
      <3> QED BY <2>4, <3>1, <3>2, <3>3 DEF OtherPull
    <2> QED BY <2>2, <2>3, <2>4 DEF Other
  <1>3. Rivals' /\ (early' \/ Awaited') /\ (early' \/ OneMerge')
    BY <1>1 DEF NInv, Rivals, Awaited, Seeking, At, OneMerge
  <1>4. early' \/ NothingLeft'
    <2> SUFFICES ASSUME ~early, merges # {}, NEW k \in Job, Holding(k)
                 PROVE  Over(cmd[k].released)'
      BY <1>1 DEF NothingLeft, Holding, Over
    <2>1. Over(cmd[k].released) /\ cmd[k].released \in 1..made
      BY ReleasedIsCommit DEF NInv, NothingLeft, Holding, Found, AfterRelease
    <2>2. ASSUME NEW head, head = cmd[k].released PROVE Over(head)'
      BY <1>2, <2>1, <2>2
    <2> QED BY <1>1, <2>2 DEF Over
  <1> QED BY <1>3, <1>4 DEF NInv

LEMMA NextKeepsOne == IInv /\ NInv /\ [Next]_vars => NInv'
  <1> SUFFICES ASSUME IInv, NInv, [Next]_vars PROVE NInv'
    OBVIOUS
  <1>1. ASSUME NEW j \in Job, ReleaseStep(j) PROVE NInv'
    BY <1>1, InspectKeepsOne, ReleaseKeepsOne, PushSourceKeepsOne,
         PublishKeepsOne DEF ReleaseStep
  <1>2. ASSUME NEW j \in Job, PullStep(j) PROVE NInv'
    BY <1>2, RecoverOriginKeepsOne, FindKeepsOne, ReadKeepsOne, CreateKeepsOne, MergeKeepsOne,
       DeleteKeepsOne DEF PullStep
  <1>3. ASSUME NEW j \in Job,
               \/ \E reset \in BOOLEAN : BeginRelease(j, reset)
               \/ Recover(j) \/ Fail(j) \/ Checkout(j)
        PROVE  NInv'
    BY <1>3, InspectKeepsOne
  <1>4. CASE UNCHANGED vars
    BY <1>4 DEF NInv, Rivals, Awaited, NothingLeft, OneMerge, Seeking, Holding, Over, At,
         OpenPulls,
                MergedHeads, vars, remote, history
  <1> QED BY <1>1, <1>2, <1>3, <1>4, OtherKeepsOne DEF Next

\* One pull request is merged at most, for any number of jobs, unless a recovery overtook
\* the release it recovers.
THEOREM MergedOnce == Spec => []VersionMergedOnce
  <1>1. Init => NInv
    BY DEF Init, NInv, Rivals, Awaited, NothingLeft, OneMerge, At, Idle
  <1>2. NInv => VersionMergedOnce
    BY DEF NInv, OneMerge, VersionMergedOnce
  <1> QED BY <1>1, <1>2, InvIsInvariant, NextKeepsOne, PTL DEF Spec

------------------------------------------------------------------------------
\* The store

\* What is known of a record: it is told when it has ended, and what was refused is
\* neither stored nor on its way.
RecordOK(r) ==
    /\ told[r] = "none" <=> stage[r] \in {"idle", "init", "sent", "body"}
    /\ stage[r] \in {"idle", "init"} => r \notin posted \cup accepted
    /\ told[r] = "refused" => r \notin posted \cup accepted /\ stage[r] \in {"failed", "expired"}
    /\ r \in posted => r \notin accepted
    /\ stage[r] = "body" => r \in accepted
    /\ stage[r] = "done" => r \in accepted \cup twins

\* The commit is begun after all uploads have ended well.
CommitOK == stage[CommitRecord] # "idle" => phase # "uploading" /\ Store!AllUploaded

StoreInv == Store!TypeOK /\ (\A r \in Store!Record : RecordOK(r)) /\ CommitOK

LEMMA StoreInitially == ASSUME Store!StoreAssumption PROVE Store!Init => StoreInv
BY DEF Store!StoreAssumption, Store!Init, StoreInv, Store!TypeOK, RecordOK, CommitOK,
     Store!Stage, Store!Verdict, Store!Record

\* The commit waits for its blobs, which have ended, so that nothing becomes of them.
LEMMA CommitWaits ==
  ASSUME Store!StoreAssumption, StoreInv, Store!Next, Store!TypeOK'
  PROVE CommitOK'
<1> USE DEF Store!StoreAssumption, StoreInv, Store!TypeOK, CommitOK, Store!AllUploaded,
     Store!Record, Store!command
<1>1. CASE \E r \in Store!Record : Store!Provider(r)
  BY <1>1 DEF Store!Provider, Store!ProviderAccepts, Store!ProviderLoses, Store!Refuse,
       Store!Ambiguous, Store!GuessRefusal, Store!Headers, Store!Item, Store!Settle, Store!After
<1>2. CASE \E r \in Store!Record : Store!Settles(r)
  BY <1>2 DEF Store!Settles, Store!Body, Store!Deadline, Store!Bounded, Store!ReadFails,
       Store!Find, Store!Adopt, Store!Proceed, Store!Settle, Store!After
<1>3. CASE \E b \in Blob : Store!Take(b)
  BY <1>3 DEF Store!Take, Store!Begin, Store!BeginConnect, Store!BeginSdk,
       Store!RejectedEarly, Store!Send, Store!Settle, Store!After
<1>4. CASE Store!ClientArrives \/ Store!ClientFails
  BY <1>4 DEF Store!ClientArrives, Store!ClientFails, Store!Served
<1>5. CASE Store!PoolRejects \/ Store!CommandReturns
  BY <1>5 DEF Store!PoolRejects, Store!CommandReturns
<1>6. CASE Store!PublishCommit
  BY <1>6 DEF Store!PublishCommit, Store!Begin, Store!BeginConnect, Store!BeginSdk,
       Store!RejectedEarly, Store!Send, Store!Settle, Store!After
<1> QED BY <1>1, <1>2, <1>3, <1>4, <1>5, <1>6 DEF Store!Next

LEMMA StoreTypeStep == ASSUME Store!StoreAssumption, StoreInv, Store!Next PROVE Store!TypeOK'
<1> USE DEF Store!StoreAssumption, StoreInv, Store!TypeOK, Store!Record, Store!command,
     Store!Stage, Store!Verdict
<1>1. CASE \E r \in Store!Record : Store!Provider(r)
  BY <1>1 DEF Store!Provider, Store!ProviderAccepts, Store!ProviderLoses, Store!Refuse,
       Store!Ambiguous, Store!GuessRefusal, Store!Headers, Store!Item, Store!Settle, Store!After
<1>2. CASE \E r \in Store!Record : Store!Settles(r)
  BY <1>2 DEF Store!Settles, Store!Body, Store!Deadline, Store!Bounded, Store!ReadFails,
       Store!Retried, Store!Find, Store!Adopt, Store!Proceed, Store!Settle, Store!After
<1>3. CASE \E b \in Blob : Store!Take(b)
  BY <1>3 DEF Store!Take, Store!Begin, Store!BeginConnect, Store!BeginSdk,
       Store!RejectedEarly, Store!Send, Store!Settle, Store!After
<1>4. CASE Store!ClientArrives \/ Store!ClientFails
  BY <1>4 DEF Store!ClientArrives, Store!ClientFails, Store!Served
<1>5. CASE Store!PoolRejects \/ Store!CommandReturns
  BY <1>5 DEF Store!PoolRejects, Store!CommandReturns
<1>6. CASE Store!PublishCommit
  BY <1>6 DEF Store!PublishCommit, Store!Begin, Store!BeginConnect, Store!BeginSdk,
       Store!RejectedEarly, Store!Send, Store!Settle, Store!After
<1> QED BY <1>1, <1>2, <1>3, <1>4, <1>5, <1>6 DEF Store!Next

\* A step keeps what is known of each record, whichever record it is about.
LEMMA RecordStep ==
  ASSUME Store!StoreAssumption, StoreInv, Store!Next, NEW s \in Store!Record
  PROVE RecordOK(s)'
<1> USE DEF Store!StoreAssumption, StoreInv, Store!TypeOK, RecordOK, Store!Record,
     Store!command, Store!Stage, Store!Verdict
<1>1. CASE \E r \in Store!Record : Store!Provider(r)
  BY <1>1 DEF Store!Provider, Store!ProviderAccepts, Store!ProviderLoses, Store!Refuse,
       Store!Ambiguous, Store!GuessRefusal, Store!Headers, Store!Item, Store!Settle, Store!After
<1>2. CASE \E r \in Store!Record : Store!Settles(r)
  BY <1>2 DEF Store!Settles, Store!Body, Store!Deadline, Store!Bounded, Store!ReadFails,
       Store!Find, Store!Adopt, Store!Proceed, Store!Settle, Store!After
<1>3. CASE \E b \in Blob : Store!Take(b)
  BY <1>3 DEF Store!Take, Store!Begin, Store!BeginConnect, Store!BeginSdk,
       Store!RejectedEarly, Store!Send, Store!Settle, Store!After
<1>4. CASE Store!ClientArrives \/ Store!ClientFails
  BY <1>4 DEF Store!ClientArrives, Store!ClientFails, Store!Served
<1>5. CASE Store!PoolRejects \/ Store!CommandReturns
  BY <1>5 DEF Store!PoolRejects, Store!CommandReturns
<1>6. CASE Store!PublishCommit
  <2>1. stage[CommitRecord] = "idle"
    BY <1>6 DEF Store!PublishCommit, CommitOK
  <2> QED BY <1>6, <2>1 DEF Store!PublishCommit, Store!Begin, Store!BeginConnect,
       Store!BeginSdk, Store!RejectedEarly, Store!Send, Store!Settle, Store!After
<1> QED BY <1>1, <1>2, <1>3, <1>4, <1>5, <1>6 DEF Store!Next

LEMMA StoreStep ==
  ASSUME Store!StoreAssumption
  PROVE  StoreInv /\ [Store!Next]_(Store!vars) => StoreInv'
<1>1. ASSUME StoreInv, Store!Next PROVE StoreInv'
  <2>1. Store!TypeOK'
    BY <1>1, StoreTypeStep
  <2>2. CommitOK'
    BY <1>1, <2>1, CommitWaits
  <2>3. \A r \in Store!Record : RecordOK(r)'
    BY <1>1, RecordStep
  <2> QED BY <2>1, <2>2, <2>3 DEF StoreInv
<1>2. ASSUME StoreInv, UNCHANGED Store!vars PROVE StoreInv'
  BY <1>2 DEF StoreInv, Store!TypeOK, RecordOK, CommitOK, Store!AllUploaded, Store!vars
<1> QED BY <1>1, <1>2

LEMMA StoreInvariance == ASSUME Store!StoreAssumption PROVE Store!Spec => []StoreInv
BY StoreInitially, StoreStep, PTL DEF Store!Spec

\* The types of the variables of the store, for any blobs and bounds (concurrency.ts, operations.ts).
THEOREM StoreTypeCorrect == ASSUME Store!StoreAssumption PROVE Store!Spec => []Store!TypeOK
<1>1. StoreInv => Store!TypeOK
  BY DEF StoreInv
<1> QED BY StoreInvariance, <1>1, PTL

\* No commit leaves before every blob it refers to is stored, nor after the command failed.
LEMMA StoreCommitLast == ASSUME Store!StoreAssumption PROVE Store!Spec => []Store!CommitLast
<1>1. StoreInv => Store!CommitLast
  <2> SUFFICES ASSUME StoreInv, CommitRecord \in posted \cup accepted PROVE Store!CommitLast
    BY DEF Store!CommitLast
  <2>1. stage[CommitRecord] # "idle"
    BY DEF StoreInv, RecordOK, Store!Record
  <2>2. phase # "uploading" /\ Store!AllUploaded
    BY <2>1 DEF StoreInv, CommitOK
  <2> QED BY <2>2 DEF Store!CommitLast, Store!AllUploaded, StoreInv, RecordOK, Store!Record,
       Store!Failures
<1> QED BY StoreInvariance, <1>1, PTL

\* The refinement

\* Every step of createItem accepts a record, tells something, or shows nothing outside.
LEMMA StoreRefines ==
  StoreInv /\ [Store!Next]_(Store!vars) => [Store!Promise!Next]_(Store!Promise!vars)
<1> SUFFICES ASSUME StoreInv, [Store!Next]_(Store!vars)
             PROVE  Store!Promise!Next \/ UNCHANGED Store!Promise!vars
  OBVIOUS
<1> USE DEF Store!Promise!vars, Store!ToldForSure
<1>1. CASE UNCHANGED <<accepted, told>>
  BY <1>1
<1>2. CASE \E r \in Store!Record : Store!ProviderAccepts(r)
  <2> PICK r \in Store!Record : Store!ProviderAccepts(r)
    BY <1>2
  <2>1. r \notin accepted /\ told[r] # "refused"
    BY DEF Store!ProviderAccepts, StoreInv, RecordOK
  <2>2. Store!ToldForSure[r] # "refused"
    BY <2>1
  <2>3. Store!Promise!Accept(r)
    BY <2>1, <2>2 DEF Store!Promise!Accept, Store!ProviderAccepts
  <2> QED BY <2>3 DEF Store!Promise!Next
<1>3. ASSUME NEW rs \in SUBSET Store!Record, NEW v \in Store!Verdict,
             accepted' = accepted, told' = [r \in Store!Record |-> IF r \in rs THEN v ELSE told[r]],
             \A r \in rs : told[r] = "none",
             v = "created" => rs \subseteq accepted,
             v = "refused" => rs \cap accepted = {}
      PROVE Store!Promise!Next
  <2> DEFINE w == IF v = "guessed" THEN "uncertain" ELSE v
  <2>1. w \in Store!Promise!Verdict
    BY DEF Store!Verdict, Store!Promise!Verdict
  <2>2. \A r \in rs : Store!ToldForSure[r] = "none"
    BY <1>3
  <2>3. Store!ToldForSure' = [r \in Store!Record |-> IF r \in rs THEN w ELSE Store!ToldForSure[r]]
    BY <1>3
  <2>4. Store!Promise!Tell(rs, w)
    BY <1>3, <2>2, <2>3 DEF Store!Promise!Tell
  <2> QED BY <2>1, <2>4 DEF Store!Promise!Next
<1>4. ASSUME NEW r \in Store!Record, NEW v \in Store!Verdict, Store!Settle(r, v), accepted' = accepted,
             stage[r] \in {"idle", "init", "sent", "body"},
             v = "created" => r \in accepted, v = "refused" => r \notin accepted
      PROVE Store!Promise!Next
  <2>1. told[r] = "none"
    BY <1>4 DEF StoreInv, RecordOK
  <2> DEFINE rs == {r}
  <2>2. told' = [s \in Store!Record |-> IF s \in rs THEN v ELSE told[s]]
    BY <1>4 DEF Store!Settle, StoreInv, Store!TypeOK
  <2>3. /\ rs \in SUBSET Store!Record /\ \A s \in rs : told[s] = "none"
        /\ v = "created" => rs \subseteq accepted
        /\ v = "refused" => rs \cap accepted = {}
    BY <1>4, <2>1
  <2> HIDE DEF rs
  <2> QED BY <1>3, <1>4, <2>2, <2>3
<1>5. CASE \E r \in Store!Record : Store!Provider(r)
  <2> PICK r \in Store!Record : Store!Provider(r)
    BY <1>5
  <2>1. CASE Store!ProviderLoses(r) \/ Store!Headers(r)
    BY <2>1, <1>1 DEF Store!ProviderLoses, Store!Headers
  <2>2. CASE Store!Refuse(r)
    BY <2>2, <1>4 DEF Store!Refuse, Store!Verdict, StoreInv, RecordOK
  <2>3. CASE Store!Ambiguous(r) \/ Store!GuessRefusal(r)
    BY <2>3, <1>4 DEF Store!Ambiguous, Store!GuessRefusal, Store!Verdict
  <2>4. CASE Store!Item(r)
    BY <2>4, <1>4 DEF Store!Item, Store!Verdict
  <2> QED BY <1>2, <2>1, <2>2, <2>3, <2>4 DEF Store!Provider
<1>6. CASE \E r \in Store!Record : Store!Settles(r)
  <2> PICK r \in Store!Record : Store!Settles(r)
    BY <1>6
  <2>1. CASE Store!Body(r)
    BY <2>1, <1>4 DEF Store!Body, Store!Verdict, StoreInv, RecordOK
  <2>2. CASE Store!Deadline(r)
    <3>1. CASE stage[r] = "init"
      <4> DEFINE rs == {r}
      <4>1. told' = [s \in Store!Record |-> IF s \in rs THEN "refused" ELSE told[s]]
        BY <2>2, <3>1 DEF Store!Deadline, StoreInv, Store!TypeOK
      <4>2. accepted' = accepted /\ told[r] = "none" /\ r \notin accepted
        BY <2>2, <3>1 DEF Store!Deadline, StoreInv, RecordOK
      <4>3. rs \in SUBSET Store!Record /\ (\A s \in rs : told[s] = "none") /\ rs \cap accepted = {}
        BY <4>2
      <4>4. "refused" \in Store!Verdict
        BY DEF Store!Verdict
      <4> HIDE DEF rs
      <4> QED BY <1>3, <4>1, <4>2, <4>3, <4>4
    <3>2. CASE stage[r] # "init"
      BY <2>2, <3>2, <1>4 DEF Store!Deadline, Store!Bounded, Store!Verdict
    <3> QED BY <3>1, <3>2
  <2>3. CASE Store!ReadFails(r) \/ Store!Find(r) \/ Store!Adopt(r)
    BY <2>3, <1>1 DEF Store!ReadFails, Store!Find, Store!Adopt, Store!Proceed
  <2> QED BY <2>1, <2>2, <2>3 DEF Store!Settles
<1>7. ASSUME NEW r \in Store!Record, stage[r] = "idle", Store!Begin(r), accepted' = accepted
      PROVE Store!Promise!Next \/ UNCHANGED Store!Promise!vars
  <2>1. CASE Store!RejectedEarly(r)
    BY <2>1, <1>4, <1>7 DEF Store!RejectedEarly, Store!Verdict, StoreInv, RecordOK
  <2>2. CASE Store!BeginConnect(r) \/ Store!BeginSdk(r)
    BY <2>2, <1>1, <1>7 DEF Store!BeginConnect, Store!BeginSdk, Store!Send
  <2> QED BY <1>7, <2>1, <2>2 DEF Store!Begin
<1>8. CASE \E b \in Blob : Store!Take(b)
  BY <1>7, <1>8 DEF Store!Take, Store!Record
<1>9. CASE Store!PublishCommit
  <2>1. stage[CommitRecord] = "idle" /\ accepted' = accepted
    BY <1>9 DEF Store!PublishCommit, StoreInv, CommitOK
  <2>2. CASE Store!Begin(CommitRecord)
    BY <1>7, <2>1, <2>2 DEF Store!Record
  <2>3. CASE UNCHANGED told
    BY <1>1, <2>1, <2>3
  <2> QED BY <1>9, <2>2, <2>3 DEF Store!PublishCommit
<1>10. CASE Store!ClientFails
  <2> DEFINE rs == {r \in Store!Record : stage[r] = "init"}
  <2>1. told' = [r \in Store!Record |-> IF r \in rs THEN "refused" ELSE told[r]] /\ accepted' = accepted
    BY <1>10 DEF Store!ClientFails
  <2>2. \A r \in rs : told[r] = "none" /\ r \notin accepted
    BY DEF StoreInv, RecordOK
  <2> QED BY <1>3, <2>1, <2>2 DEF Store!Verdict
<1>11. CASE Store!ClientArrives \/ Store!PoolRejects \/ Store!CommandReturns
  BY <1>1, <1>11 DEF Store!ClientArrives, Store!PoolRejects, Store!CommandReturns
<1>12. CASE UNCHANGED Store!vars
  BY <1>1, <1>12 DEF Store!vars
<1> QED BY <1>5, <1>6, <1>8, <1>9, <1>10, <1>11, <1>12 DEF Store!Next

\* The store implements the promise of createItem.
LEMMA StoreCreatesOnce == ASSUME Store!StoreAssumption PROVE Store!Spec => Store!CreatesOnce
<1>1. Store!Init => Store!Promise!Init
  BY DEF Store!Init, Store!Promise!Init, Store!ToldForSure
<1> QED BY <1>1, StoreInvariance, StoreRefines, PTL DEF Store!Spec, Store!CreatesOnce,
     Store!Promise!Spec

\* A behaviour of the two parts is one of the store.
LEMMA IsStore == PartsSpec => Store!Spec
<1>1. PartsInit => Store!Init
  BY DEF PartsInit
<1>2. [PartsNext]_allVars => [Store!Next]_(Store!vars)
  BY DEF PartsNext, InRelease, InStore, allVars, storeVars, Store!vars
<1> QED BY <1>1, <1>2, PTL DEF PartsSpec, Store!Spec

\* No commit leaves before every blob it refers to is stored, nor after the command
\* failed, although uploads go on then (concurrency.ts, operations.ts).
THEOREM CommitIsLast == PartsSpec => []CommitLast
BY AssumptionOfTheStore, IsStore, StoreCommitLast, PTL DEF CommitLast

\* The store implements the promise of createItem: no create is repeated, and what
\* failed for sure is not stored later (stores/connect.ts, stores/sdk.ts).
THEOREM ImplementsCreateOnce == PartsSpec => CreatesOnce
BY AssumptionOfTheStore, IsStore, StoreCreatesOnce, PTL DEF CreatesOnce
==============================================================================
