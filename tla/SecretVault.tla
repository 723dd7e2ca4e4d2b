----------------------------- MODULE SecretVault -----------------------------
(***************************************************************************)
(* The vault of secret-sync as several clients write it: blob and commit   *)
(* records that are only ever added, with no lock and no transaction       *)
(* (packages/secret-sync/src/push.ts, resolve.ts, branches.ts,             *)
(* history-store.ts, operations.ts).  A client loads the history, uploads  *)
(* its blobs, looks at the heads again, publishes its commit and looks a   *)
(* last time.  A create may be answered, or its outcome be uncertain; a    *)
(* record may be accepted long before it is listed.                        *)
(*                                                                         *)
(* A commit is its place in the order of acceptance, a blob likewise.  A   *)
(* tree is the set of blobs it refers to; which path a blob stands for is  *)
(* the matter of module Sync.  Push takes the lock of its own worktree     *)
(* only, resolve and branch none: a client is one running command.         *)
(***************************************************************************)
EXTENDS Integers, Sequences, FiniteSets

CONSTANTS
    Client, Branch, Content,
    MaxCommits, MaxBlobs,
    MaxFaults    \* uncertain answers and late listings

ASSUME VaultAssumption == MaxCommits \in Nat /\ MaxBlobs \in Nat /\ MaxFaults \in Nat

VARIABLES
    blobs,         \* accepted blobs: their contents
    commits,       \* accepted commits
    listedBlobs, listedCommits,   \* what listItems returns
    cmd,           \* the command of each client, or Idle
    told,          \* history: commits whose author was told of another head, or
                   \* ended before the last look
    faults

vars == <<blobs, commits, listedBlobs, listedCommits, cmd, told, faults>>

Idle == [kind |-> "idle"]

CommitId == 1..Len(commits)
BlobId == 1..Len(blobs)

Running == [kind : {"push", "resolve", "branch"}, step : {"upload", "recheck", "publish", "observe"},
            branch : Branch,      \* the branch that gets the commit
            watched : Branch,     \* the branch whose heads are looked at again
            parents : SUBSET Nat, tree : SUBSET Nat, todo : SUBSET Content,
            knew : SUBSET Nat,    \* history: the commits listed at the second look
            own : Nat]            \* the commit published

Record == [branch : Branch, kind : {"push", "resolve", "branch"}, parents : SUBSET Nat,
           tree : SUBSET Nat, anc : SUBSET Nat, knew : SUBSET Nat]

TypeOK ==
    /\ blobs \in Seq(Content) /\ commits \in Seq(Record)
    /\ listedBlobs \subseteq BlobId /\ listedCommits \subseteq CommitId
    /\ cmd \in [Client -> Running \cup {Idle}]
    /\ told \subseteq CommitId
    /\ faults \in 0..MaxFaults

Init ==
    /\ blobs = <<>> /\ commits = <<>>
    /\ listedBlobs = {} /\ listedCommits = {}
    /\ cmd = [c \in Client |-> Idle]
    /\ told = {} /\ faults = 0

------------------------------------------------------------------------------
\* Fault for ForksAreHandled: a join supersedes the first of its parents only.
HeadsOf_FirstParent(b) ==
    {i \in listedCommits : /\ commits[i].branch = b
                           /\ \A j \in listedCommits :
                                ~(/\ i \in commits[j].parents
                                  /\ \A k \in commits[j].parents : i <= k)}

\* deriveBranchHeads on the listed commits (module CommitGraph has the walk).
HeadsOf(b) ==
    {i \in listedCommits : /\ commits[i].branch = b
                           /\ \A j \in listedCommits : commits[j].branch = b =>
                                i \notin commits[j].anc}

\* validateHistoryDependencies: every command starts by loading the whole history
\* and gives up when a listed commit lacks a parent or a blob.
HistoryComplete ==
    \A i \in listedCommits : /\ commits[i].parents \subseteq listedCommits
                             /\ commits[i].tree \subseteq listedBlobs

TreeOf(heads) == UNION {commits[i].tree : i \in heads}

Begin(c, kind, step, branch, watched, tree, todo) ==
    cmd' = [cmd EXCEPT ![c] = [kind |-> kind, step |-> step, branch |-> branch,
                               watched |-> watched, parents |-> HeadsOf(watched),
                               tree |-> tree, todo |-> todo, knew |-> {}, own |-> 0]]

records == <<blobs, commits, listedBlobs, listedCommits>>

\* A push replaces some entries of the one head by uploads, or drops some.
PushLoad(c, b) ==
    /\ cmd[c] = Idle /\ HistoryComplete
    /\ Cardinality(HeadsOf(b)) <= 1
    /\ \E kept \in SUBSET TreeOf(HeadsOf(b)), uploads \in SUBSET Content :
         /\ uploads # {} \/ kept # TreeOf(HeadsOf(b))
         /\ Begin(c, "push", "upload", b, b, kept, uploads)
    /\ UNCHANGED <<records, told, faults>>

\* resolve is given the heads to join by the user and refuses a set other than
\* the observed one; the joined tree is that of one of them.
HeadsAsObserved(b, heads) == heads = HeadsOf(b)

ResolveLoad(c, b) ==
    /\ cmd[c] = Idle /\ HistoryComplete
    /\ \E heads \in SUBSET {i \in listedCommits : commits[i].branch = b} :
         /\ Cardinality(heads) >= 2
         /\ HeadsAsObserved(b, heads)
         /\ \E take \in heads :
              cmd' = [cmd EXCEPT ![c] =
                        [kind |-> "resolve", step |-> "recheck", branch |-> b, watched |-> b,
                         parents |-> heads, tree |-> commits[take].tree, todo |-> {},
                         knew |-> {}, own |-> 0]]
    /\ UNCHANGED <<records, told, faults>>

\* branch create looks at the new branch now and at the source branch again later.
BranchLoad(c, b, from) ==
    /\ cmd[c] = Idle /\ HistoryComplete
    /\ HeadsOf(b) = {} /\ Cardinality(HeadsOf(from)) <= 1
    /\ Begin(c, "branch", "recheck", b, from, TreeOf(HeadsOf(from)), {})
    /\ UNCHANGED <<records, told, faults>>

------------------------------------------------------------------------------
At(c, step) == cmd[c] # Idle /\ cmd[c].step = step
End(c) == cmd' = [cmd EXCEPT ![c] = Idle]

\* What createItem may do with a record: it is accepted and listed, accepted and
\* listed later, or not accepted; the answer is certain only if it is accepted.
Outcome == {[accepted |-> TRUE, listed |-> TRUE, certain |-> TRUE],
            [accepted |-> TRUE, listed |-> FALSE, certain |-> TRUE],
            [accepted |-> TRUE, listed |-> TRUE, certain |-> FALSE],
            [accepted |-> TRUE, listed |-> FALSE, certain |-> FALSE],
            [accepted |-> FALSE, listed |-> FALSE, certain |-> FALSE]}

Faulty(o) == ~(o.certain /\ o.listed)

CountFault(o) ==
    /\ Faulty(o) => faults < MaxFaults
    /\ faults' = IF Faulty(o) THEN faults + 1 ELSE faults

\* publishBlob: an uncertain blob is looked for by its id, then any listed blob
\* of the same content is adopted, then the push fails.
Adopted(x) == {i \in listedBlobs : blobs[i] = x}

Uploaded(c, x, id) ==
    cmd' = [cmd EXCEPT ![c].tree = @ \cup {id}, ![c].todo = @ \ {x}]

\* Fault for DependenciesFirst: after adopting a blob the tree keeps the own id.
BlobAnswer_OwnId(c, x, o, id) ==
    IF o.certain \/ o.listed \/ Adopted(x) # {} THEN Uploaded(c, x, id) ELSE End(c)

BlobAnswer(c, x, o, id) ==
    IF o.certain \/ o.listed THEN Uploaded(c, x, id)
    ELSE IF Adopted(x) # {} THEN \E i \in Adopted(x) : Uploaded(c, x, i)
    ELSE End(c)

UploadBlob(c, x, o) ==
    /\ At(c, "upload") /\ x \in cmd[c].todo
    /\ o.accepted => Len(blobs) < MaxBlobs
    /\ CountFault(o)
    /\ blobs' = IF o.accepted THEN Append(blobs, x) ELSE blobs
    /\ listedBlobs' = IF o.listed THEN listedBlobs \cup {Len(blobs) + 1} ELSE listedBlobs
    /\ BlobAnswer(c, x, o, Len(blobs) + 1)
    /\ UNCHANGED <<commits, listedCommits, told>>

UploadsDone(c) ==
    /\ At(c, "upload") /\ cmd[c].todo = {}
    /\ cmd' = [cmd EXCEPT ![c].step = "recheck"]
    /\ UNCHANGED <<records, told, faults>>

\* Fault for ForksOnlyWithinWindow: the heads are not looked at again.
HeadsStand_Unchecked(c) == HistoryComplete

\* recheckHeads
HeadsStand(c) == HistoryComplete /\ HeadsOf(cmd[c].watched) = cmd[c].parents

RecheckHeads(c) ==
    /\ At(c, "recheck")
    /\ IF HeadsStand(c)
       THEN cmd' = [cmd EXCEPT ![c].step = "publish", ![c].knew = listedCommits]
       ELSE End(c)
    /\ UNCHANGED <<records, told, faults>>

\* The record of the commit, with its ancestors for the walks.
NewCommit(r) ==
    [branch |-> r.branch, kind |-> r.kind, parents |-> r.parents, tree |-> r.tree,
     knew |-> r.knew, anc |-> r.parents \cup UNION {commits[i].anc : i \in r.parents}]

\* publishCommit: an uncertain commit is looked for by its id; if it is not listed
\* the command fails, whether or not the commit was accepted.
PublishCommit(c, o) ==
    LET id == Len(commits) + 1
    IN  /\ At(c, "publish") /\ id <= MaxCommits
        /\ CountFault(o)
        /\ commits' = IF o.accepted THEN Append(commits, NewCommit(cmd[c])) ELSE commits
        /\ listedCommits' = IF o.listed THEN listedCommits \cup {id} ELSE listedCommits
        /\ IF o.certain \/ o.listed
           THEN cmd' = [cmd EXCEPT ![c].step = "observe", ![c].own = id]
           ELSE End(c)
        /\ UNCHANGED <<blobs, listedBlobs, told>>

\* Fault for ForksAreHandled: the own commit being a head is taken for no fork.
ToldOfFork_OwnIsHead(c) == cmd[c].own \notin HeadsOf(cmd[c].branch)

\* The last look: divergedAfter, or for branch create the heads it returns.
ToldOfFork(c) == HeadsOf(cmd[c].branch) # {cmd[c].own}

Observe(c) ==
    /\ At(c, "observe")
    /\ End(c)
    /\ told' = IF HistoryComplete /\ ToldOfFork(c) THEN told \cup {cmd[c].own} ELSE told
    /\ UNCHANGED <<records, faults>>

\* The process ends, or a local check of the push refuses (an edited file).
Crash(c) ==
    /\ cmd[c] # Idle
    /\ End(c)
    /\ told' = IF At(c, "observe") THEN told \cup {cmd[c].own} ELSE told
    /\ UNCHANGED <<records, faults>>

\* Accepted records reach the listing in any order.
SurfaceBlob ==
    /\ \E i \in BlobId \ listedBlobs : listedBlobs' = listedBlobs \cup {i}
    /\ UNCHANGED <<blobs, commits, listedCommits, cmd, told, faults>>

SurfaceCommit ==
    /\ \E i \in CommitId \ listedCommits : listedCommits' = listedCommits \cup {i}
    /\ UNCHANGED <<blobs, commits, listedBlobs, cmd, told, faults>>

Next ==
    \/ \E c \in Client :
         \/ \E b \in Branch : \/ PushLoad(c, b) \/ ResolveLoad(c, b)
                              \/ \E from \in Branch : BranchLoad(c, b, from)
         \/ \E x \in Content, o \in Outcome : UploadBlob(c, x, o)
         \/ \E o \in Outcome : PublishCommit(c, o)
         \/ UploadsDone(c) \/ RecheckHeads(c) \/ Observe(c) \/ Crash(c)
    \/ SurfaceBlob \/ SurfaceCommit

Spec == Init /\ [][Next]_vars

------------------------------------------------------------------------------
\* A commit is accepted only after everything it refers to: parents and blobs.
\* Once everything is listed, nobody finds the history incomplete
\* (history-store.ts 317-385, push.ts 327-380).
DependenciesFirst ==
    \A i \in CommitId : /\ commits[i].parents \subseteq 1..(i - 1)
                        /\ commits[i].tree \subseteq BlobId

\* The second look closes the window from the first: a commit descends from every
\* commit of its branch that was listed when its author looked again, however
\* long the uploads took.  Only what is listed after that can stand beside it
\* (operations.ts 251-266, push.ts 352, resolve.ts 169).
ForksOnlyWithinWindow ==
    \A i \in CommitId : commits[i].kind # "branch" =>
        \A j \in commits[i].knew : commits[j].branch = commits[i].branch => j \in commits[i].anc

\* As long as every record is listed when it is accepted, a fork does not go
\* unnoticed: once the commands are over, an author of one of the heads was told
\* (push.ts 385-391, resolve.ts 184-193, branches.ts 238-245), unless his process
\* ended between publishing and looking.
ForkIsReported ==
    \A b \in Branch :
        (/\ faults = 0 /\ Cardinality(HeadsOf(b)) > 1
         /\ \A c \in Client : ~At(c, "observe"))
        => HeadsOf(b) \cap told # {}

\* A join never has a parent that descends from another parent, which the walk of
\* graph.ts 62 would report as a cycle (resolve.ts 108-116).
JoinsAreOfHeads ==
    \A i \in CommitId : \A j, k \in commits[i].parents : j \notin commits[k].anc

\* A fork is told to an author of it, and a join of it leaves a history that can be walked.
ForksAreHandled == ForkIsReported /\ JoinsAreOfHeads
==============================================================================
