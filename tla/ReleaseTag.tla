------------------------------ MODULE ReleaseTag ------------------------------
(* The release and pull-request stages of release-tag for one version, run by  *)
(* several jobs, each with a clone of its own, against one origin and one       *)
(* GitHub repository that other people use too: inspection, leased pushes, the  *)
(* release command, pull request, merge, removal of the branch, and recovery    *)
(* from the tag (--only pr).  A job may end between any two steps, and the      *)
(* answer to any request may be lost.  autoMergePr and deleteMergedBranch are   *)
(* on, the merge method is "merge"; skipRelease is not modelled.                *)
EXTENDS Naturals, Sequences

CONSTANTS
    Job,         \* runners, each with its clone
    Source,      \* commits of the base branch that a checkout may find
    Absent,      \* no such ref
    MaxCommits,  \* bound on release commits and commits of others
    MaxPulls,    \* bound on pull requests
    MaxOthers,   \* bound on what other people do
    MaxFaults    \* bound on jobs that end early and on lost answers

ASSUME ReleaseAssumption ==
    /\ Source # {} /\ Absent \notin Source \cup Nat /\ Source \cap Nat = {}
    /\ MaxCommits \in Nat /\ MaxPulls \in Nat /\ MaxOthers \in Nat /\ MaxFaults \in Nat

VARIABLES
    origin,    \* the release branch and the tag on the remote
    pulls,     \* pull requests from the release branch to the base, by number
    clone,     \* per job: checked-out base commit, local release branch and tag
    cmd,       \* per job: the running command
    made,      \* commits made so far; the k-th is named k
    foreign,   \* history: the commits of other people
    merges,    \* history: pull requests merged by this package
    reported,  \* history: released heads reported as merged
    early,     \* history: a recovery of a release that had not yet been pushed by its job
    others, faults

remote == <<origin, pulls>>
history == <<made, foreign, merges, reported, early>>
vars == <<remote, clone, cmd, history, others, faults>>

Commit == Source \cup 1..MaxCommits
Ref == Commit \cup {Absent}
Number == 1..MaxPulls

Steps == {"idle", "branch", "tag", "push", "run", "publish", "origin", "find", "create",
          "relookup", "read", "update", "confirm", "merge", "look", "delete"}

Idle == [step |-> "idle", reset |-> FALSE, observed |-> Absent, released |-> Absent,
         must |-> FALSE, pull |-> 0]

Command == [step : Steps, reset : BOOLEAN, observed : Ref, released : Ref,
            must : BOOLEAN, pull : 0..MaxPulls]

Pull == [state : {"open", "closed", "merged"}, head : Commit]

TypeOK ==
    /\ origin \in [branch : Ref, tag : Ref]
    /\ pulls \in Seq(Pull) /\ Len(pulls) <= MaxPulls
    /\ clone \in [Job -> [source : Source, branch : Ref, tag : Ref]]
    /\ cmd \in [Job -> Command]
    /\ made \in 0..MaxCommits /\ foreign \subseteq 1..made
    /\ merges \subseteq Number /\ reported \subseteq Commit /\ early \in BOOLEAN
    /\ others \in 0..MaxOthers /\ faults \in 0..MaxFaults

Init ==
    /\ origin = [branch |-> Absent, tag |-> Absent]
    /\ pulls = <<>>
    /\ clone \in [Job -> [source : Source, branch : {Absent}, tag : {Absent}]]
    /\ cmd = [j \in Job |-> Idle]
    /\ made = 0 /\ foreign = {} /\ merges = {} /\ reported = {} /\ early = FALSE
    /\ others = 0 /\ faults = 0

At(j, step) == cmd[j].step = step
Goto(j, step) == cmd' = [cmd EXCEPT ![j].step = step]
End(j) == cmd' = [cmd EXCEPT ![j] = Idle]

\* A request that was served may go unanswered; the job then ends.
CountLost(answered) ==
    /\ answered \/ faults < MaxFaults
    /\ faults' = IF answered THEN faults ELSE faults + 1

------------------------------------------------------------------------------
\* GitHub.  An open pull request follows its branch.  It closes with the branch,
\* and may close when the branch is set back to a commit of the base.
PullsAfter(commit, closes) ==
    [n \in DOMAIN pulls |->
        IF pulls[n].state # "open" THEN pulls[n]
        ELSE IF commit = Absent THEN [pulls[n] EXCEPT !.state = "closed"]
        ELSE [state |-> IF closes THEN "closed" ELSE "open", head |-> commit]]

SetBranch(commit) ==
    /\ origin' = [origin EXCEPT !.branch = commit]
    /\ \E closes \in BOOLEAN : /\ closes => commit \in Source
                               /\ pulls' = PullsAfter(commit, closes)

OpenPulls == {n \in DOMAIN pulls : pulls[n].state = "open"}
MergedHeads == {pulls[n].head : n \in {k \in DOMAIN pulls : pulls[k].state = "merged"}}

\* There is something to merge, and nothing open yet.
MayOpen == /\ origin.branch \notin {Absent} \cup Source \cup MergedHeads
           /\ OpenPulls = {}

\* The merge, and the repository's setting to delete merged branches.
MergePull(n) ==
    /\ pulls' = [pulls EXCEPT ![n].state = "merged"]
    /\ origin' \in {origin, [origin EXCEPT !.branch = Absent]}

------------------------------------------------------------------------------
\* verifyReleaseSource, and the local branch, which only a reset may replace.
BeginRelease(j, reset) ==
    /\ At(j, "idle")
    /\ reset \/ clone[j].branch = Absent
    /\ cmd' = [cmd EXCEPT ![j] = [Idle EXCEPT !.step = "branch", !.reset = reset]]
    /\ UNCHANGED <<remote, clone, history, others, faults>>

\* ls-remote of the release branch
InspectBranch(j) ==
    /\ At(j, "branch")
    /\ IF origin.branch = Absent \/ cmd[j].reset
       THEN cmd' = [cmd EXCEPT ![j].step = "tag", ![j].observed = origin.branch]
       ELSE End(j)
    /\ UNCHANGED <<remote, clone, history, others, faults>>

TagIsFree(j) == clone[j].tag = Absent /\ origin.tag = Absent

\* the tag, locally and on origin
InspectTag(j) ==
    /\ At(j, "tag")
    /\ IF TagIsFree(j) THEN Goto(j, "push") ELSE End(j)
    /\ UNCHANGED <<remote, clone, history, others, faults>>

\* Fault for OverwritesOnlyObserved: the push is forced.
LeaseHolds_Forced(expected, commit) == TRUE

\* --force-with-lease=ref:expected; git takes a ref at its target for up to date.
LeaseHolds(expected, commit) == origin.branch \in {expected, commit}

LeasedPush(expected, commit) ==
    IF LeaseHolds(expected, commit) THEN SetBranch(commit) ELSE UNCHANGED remote

\* checkout -b or -B from the verified source, and the first push
PushSource(j, answered) ==
    /\ At(j, "push") /\ CountLost(answered)
    /\ clone' = [clone EXCEPT ![j].branch = clone[j].source]
    /\ LeasedPush(cmd[j].observed, clone[j].source)
    /\ IF answered /\ LeaseHolds(cmd[j].observed, clone[j].source)
       THEN Goto(j, "run") ELSE End(j)
    /\ UNCHANGED <<history, others>>

\* The clean branch is checked out (else the command failed) and the tag is there.
VerifyReleasedHead(head, tag) == tag = head

\* The release command commits, then may tag, publish the tag and push the
\* branch, and may fail after each of them.  It is whatever the user configured.
RunRelease(j) ==
    /\ At(j, "run") /\ made < MaxCommits
    /\ \E tagged, tagSent, branchSent, ok \in BOOLEAN :
         LET head == made + 1
             tag  == IF tagged THEN head ELSE clone[j].tag
         IN  /\ tagSent => (tagged /\ origin.tag = Absent)
             /\ branchSent => origin.branch = clone[j].source
             /\ clone' = [clone EXCEPT ![j].branch = head, ![j].tag = tag]
             /\ origin' = [branch |-> IF branchSent THEN head ELSE origin.branch,
                           tag |-> IF tagSent THEN head ELSE origin.tag]
             /\ pulls' = IF branchSent THEN PullsAfter(head, FALSE) ELSE pulls
             /\ IF ok /\ VerifyReleasedHead(head, tag)
                THEN cmd' = [cmd EXCEPT ![j].step = "publish", ![j].released = head]
                ELSE End(j)
    /\ made' = made + 1
    /\ UNCHANGED <<foreign, merges, reported, early, others, faults>>

\* The push of the verified head, with a lease on the prepared source.
PublishHead(j, answered) ==
    /\ At(j, "publish") /\ CountLost(answered)
    /\ LeasedPush(clone[j].source, cmd[j].released)
    /\ IF answered /\ LeaseHolds(clone[j].source, cmd[j].released)
       THEN Goto(j, "find") ELSE End(j)
    /\ UNCHANGED <<clone, history, others>>

------------------------------------------------------------------------------
\* readReleaseRecovery: the local tag names the released head; a local branch must
\* agree with it.  The branch is looked up on origin next.
Recover(j) ==
    /\ At(j, "idle")
    /\ clone[j].tag # Absent /\ clone[j].branch \in {Absent, clone[j].tag}
    /\ cmd' = [cmd EXCEPT ![j] = [Idle EXCEPT !.step = "origin", !.released = clone[j].tag]]
    /\ UNCHANGED <<remote, clone, history, others, faults>>

\* Fault for RecoveryEnds: a removed branch cannot be recovered from.
MayRecover_BranchOnly(j) == origin.branch = cmd[j].released

MayRecover(j) == origin.branch \in {Absent, cmd[j].released}

\* The release command of another job has pushed tag and branch, and that job has
\* not come to its own push of the branch.
Early(j) ==
    /\ origin.branch = cmd[j].released
    /\ \E k \in Job : At(k, "publish") /\ cmd[k].released = cmd[j].released

\* Without the branch on origin only a merged pull request will do.
RecoverOrigin(j) ==
    /\ At(j, "origin")
    /\ IF MayRecover(j)
       THEN cmd' = [cmd EXCEPT ![j].step = "find", ![j].must = (origin.branch = Absent)]
       ELSE End(j)
    /\ early' = (early \/ Early(j))
    /\ UNCHANGED <<remote, clone, made, foreign, merges, reported, others, faults>>

\* parsePullRequestRecord: every record that is read must be at the released head.
IsOurs(j, n) == pulls[n].head = cmd[j].released

\* findPullRequest: one record at most, and at the released head.
FoundOne(j) == Len(pulls) = 1 /\ IsOurs(j, 1)

\* Fault for VersionMergedOnce: pull requests at other heads are passed over.
FoundNone_AtHead(j) == \A n \in DOMAIN pulls : ~IsOurs(j, n)

FoundNone(j) == pulls = <<>>

Find(j) ==
    /\ At(j, "find")
    /\ CASE FoundOne(j) -> cmd' = [cmd EXCEPT ![j].step = "read", ![j].pull = 1]
         [] FoundNone(j) /\ ~cmd[j].must -> Goto(j, "create")
         [] OTHER -> End(j)
    /\ UNCHANGED <<remote, clone, history, others, faults>>

\* POST pulls: 422 where nothing can be opened, else a request at whatever the
\* branch is by now; the answer must show the released head.
Create(j, answered) ==
    /\ At(j, "create") /\ CountLost(answered)
    /\ IF MayOpen
       THEN /\ Len(pulls) < MaxPulls
            /\ pulls' = Append(pulls, [state |-> "open", head |-> origin.branch])
            /\ IF answered /\ origin.branch = cmd[j].released
               THEN cmd' = [cmd EXCEPT ![j].step = "confirm", ![j].pull = Len(pulls) + 1]
               ELSE End(j)
       ELSE /\ UNCHANGED pulls
            /\ IF answered THEN Goto(j, "relookup") ELSE End(j)
    /\ UNCHANGED <<origin, clone, history, others>>

\* the one lookup after a conflict
Relookup(j) ==
    /\ At(j, "relookup")
    /\ IF FoundOne(j)
       THEN cmd' = [cmd EXCEPT ![j].step = "read", ![j].pull = 1]
       ELSE End(j)
    /\ UNCHANGED <<remote, clone, history, others, faults>>

\* What the details of the job's pull request lead to: removal of the branch once
\* it is merged, the next step while it is open.
Details(j, n, next) ==
    CASE IsOurs(j, n) /\ pulls[n].state = "merged" -> Goto(j, "look")
      [] IsOurs(j, n) /\ pulls[n].state = "open" /\ ~cmd[j].must -> Goto(j, next)
      [] OTHER -> End(j)

\* GET pull; PATCH of title and body, whose answer is read the same way; labels,
\* which only can fail; and the fresh read before a merge.
Read(j) ==
    /\ \/ At(j, "read") /\ Details(j, cmd[j].pull, "update")
       \/ At(j, "update") /\ Details(j, cmd[j].pull, "confirm")
       \/ At(j, "confirm") /\ Details(j, cmd[j].pull, "merge")
    /\ UNCHANGED <<remote, clone, history, others, faults>>

\* Fault for MergedIsTagged: the merge is not pinned to a commit.
Pinned_Not(j, n) == TRUE

\* PUT merge sends the head of the fresh read, which is the released one.
Pinned(j, n) == pulls[n].head = cmd[j].released

\* Fault for DeletesOnlyMerged: a refused merge counts as merged.
Refused_Ignored(j) == Goto(j, "look")

Refused(j) == End(j)

Merge(j, answered) ==
    LET n == cmd[j].pull
    IN  /\ At(j, "merge") /\ CountLost(answered)
        /\ IF pulls[n].state = "open" /\ Pinned(j, n)
           THEN /\ MergePull(n)
                /\ merges' = merges \cup {n}
                /\ IF answered THEN Goto(j, "look") ELSE End(j)
           ELSE /\ UNCHANGED <<remote, merges>>
                /\ Refused(j)
        /\ UNCHANGED <<clone, made, foreign, reported, early, others>>

Report(j) == reported' = reported \cup {cmd[j].released}

\* GET ref: absent is as good as deleted, another commit is left alone.
LookAtBranch(j) ==
    /\ At(j, "look")
    /\ \/ /\ origin.branch = Absent
          /\ End(j) /\ Report(j)
       \/ /\ origin.branch = cmd[j].released
          /\ Goto(j, "delete") /\ UNCHANGED reported
       \/ /\ origin.branch \notin {Absent, cmd[j].released}
          /\ End(j) /\ UNCHANGED reported
    /\ UNCHANGED <<remote, clone, made, foreign, merges, early, others, faults>>

\* DELETE ref removes whatever the branch is by now, and fails without one.
DeleteBranch(j, answered) ==
    /\ At(j, "delete") /\ CountLost(answered)
    /\ SetBranch(Absent) /\ End(j)
    /\ IF answered /\ origin.branch # Absent THEN Report(j) ELSE UNCHANGED reported
    /\ UNCHANGED <<clone, made, foreign, merges, early, others>>

\* A request fails without effect, a deadline passes, the process is killed.
Fail(j) ==
    /\ ~At(j, "idle") /\ faults < MaxFaults
    /\ faults' = faults + 1
    /\ End(j)
    /\ UNCHANGED <<remote, clone, history, others>>

------------------------------------------------------------------------------
\* The user starts over from a fresh clone, which brings the tag if origin has it.
Checkout(j) ==
    /\ At(j, "idle")
    /\ \E s \in Source :
         clone' = [clone EXCEPT ![j] = [source |-> s, branch |-> Absent, tag |-> origin.tag]]
    /\ UNCHANGED <<remote, cmd, history, others, faults>>

\* Other people push to the branch, delete it, merge, close or reopen.
OtherPush ==
    /\ made < MaxCommits /\ origin.branch # Absent
    /\ made' = made + 1 /\ foreign' = foreign \cup {made + 1}
    /\ SetBranch(made + 1)

OtherPull(n) ==
    \/ pulls[n].state = "open" /\ MergePull(n)
    \/ pulls[n].state = "open" /\ pulls' = [pulls EXCEPT ![n].state = "closed"] /\ UNCHANGED origin
    \/ /\ pulls[n].state = "closed" /\ pulls[n].head = origin.branch /\ MayOpen
       /\ pulls' = [pulls EXCEPT ![n].state = "open"] /\ UNCHANGED origin

Other ==
    /\ others < MaxOthers /\ others' = others + 1
    /\ \/ OtherPush
       \/ /\ origin.branch # Absent /\ SetBranch(Absent)
          /\ UNCHANGED <<made, foreign>>
       \/ /\ \E n \in DOMAIN pulls : OtherPull(n)
          /\ UNCHANGED <<made, foreign>>
    /\ UNCHANGED <<clone, cmd, merges, reported, early, faults>>

ReleaseStep(j) ==
    \/ InspectBranch(j) \/ InspectTag(j) \/ RunRelease(j)
    \/ \E answered \in BOOLEAN : PushSource(j, answered) \/ PublishHead(j, answered)

PullStep(j) ==
    \/ RecoverOrigin(j) \/ Find(j) \/ Relookup(j) \/ Read(j) \/ LookAtBranch(j)
    \/ \E answered \in BOOLEAN : \/ Create(j, answered) \/ Merge(j, answered)
                                 \/ DeleteBranch(j, answered)

Next ==
    \/ \E j \in Job :
         \/ \E reset \in BOOLEAN : BeginRelease(j, reset)
         \/ ReleaseStep(j) \/ Recover(j) \/ PullStep(j) \/ Fail(j) \/ Checkout(j)
    \/ Other

Spec == Init /\ [][Next]_vars

\* A started command goes on, since every request has a deadline, and the user
\* keeps repeating the recovery among his other attempts, as the README asks.
FairSpec ==
    /\ Spec
    /\ \A j \in Job : WF_vars(ReleaseStep(j) \/ PullStep(j)) /\ SF_vars(Recover(j))

------------------------------------------------------------------------------
\* However many jobs release the same version at once, start over or recover, the
\* package merges one pull request for it at most, unless a recovery ran while the
\* job that made the release was still about to push it (run.ts 80-104,
\* pull-request-data.ts 132-146, pull-request-lifecycle.ts 104-184).  Four jobs can
\* then merge two: the late push brings the recovered head back after another merge.
VersionMergedOnce == early \/ \A m, n \in merges : m = n

\* What a job merges is the commit its own tag names, whatever the branch has
\* become since the last read (release-git.ts 217-241, pull-request-lifecycle.ts
\* 169-183).
MergedIsTagged ==
    [][\A j \in Job, n \in Number : n \in merges' \ merges /\ cmd'[j] # cmd[j]
         => pulls'[n].head = clone[j].tag]_vars

\* A commit that somebody else put on the branch, or that another job released,
\* leaves the branch by this package only if a reset had seen it, or by the removal
\* after a merge (release-git.ts 243-268).
OverwritesOnlyObserved ==
    [][\A j \in Job :
         /\ At(j, "push") \/ At(j, "publish")
         /\ cmd'[j] # cmd[j] /\ origin'.branch # origin.branch
         => origin.branch \in Source \cup {Absent}
            \/ (cmd[j].reset /\ cmd[j].observed = origin.branch)]_vars

\* The branch is removed, and the release reported, only once a pull request at
\* the released head is merged (pull-request-lifecycle.ts 84-94, 185-199).
DeletesOnlyMerged ==
    \A j \in Job : At(j, "look") \/ At(j, "delete") => cmd[j].released \in MergedHeads

\* A release whose head is on origin, or merged and off it, is brought to its end by
\* repeated recovery, unless others interfere, a pull request was closed, doubled or
\* opened for another head, or the branch moves on (recovery.ts 58-125).
OnItsWay(j) ==
    /\ clone[j].tag # Absent
    /\ \/ origin.branch = clone[j].tag
       \/ origin.branch = Absent /\ clone[j].tag \in MergedHeads

RecoveryEnds ==
    \A j \in Job :
        OnItsWay(j) ~> \/ ~OnItsWay(j) \/ clone[j].tag \in reported
                       \/ others > 0 \/ Len(pulls) > 1
                       \/ \E n \in DOMAIN pulls :
                            pulls[n].state = "closed" \/ pulls[n].head # clone[j].tag
==============================================================================
