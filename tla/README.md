# A TLA+ model of repo-toolkit

This directory holds TLA+ modules for the parts of repo-toolkit whose
correctness depends on order, interleaving, interruption or an algorithm, the
TLC configurations that check them on small instances, and TLAPS proofs of the
theorems that hold for every instance. `PROJECT.json` lists the components, the
runs, the mutants (changed definitions, at least one for each property, under which
the run must fail), the lines of source each definition stands for, the findings,
the hazards and the theorems.

Run from this directory:

    tlc -workers 2 -config MCWorkstation.cfg MCWorkstation
    tlapm SecretVault_proofs.tla

## The system

repo-toolkit is a monorepo of ten TypeScript command-line packages.

| Part | State it keeps | Operations | What is hard |
|---|---|---|---|
| secret-sync: lock (`state.ts`) | one lock file per worktree | acquire, release | create, judge, unlink are separate steps on a path; owners die; PIDs come back |
| secret-sync: commit graph (`graph.ts`) | none (pure) | ancestors, cycle, heads, classification, reachable set | records arrive in any order, parents may be missing, joins |
| secret-sync: plan (`status.ts`, `plan.ts`) | none (pure) | three-way comparison, plan of push and pull | which side may win; what the baselines mean afterwards |
| secret-sync: workstation (`pull.ts`, `push.ts`, `branches.ts`, `journal.ts`, `switch-recovery.ts`, `filesystem.ts`) | worktree, `state.json`, `journal.jsonl` | pull, push, switch and their resumption | crash between two file replacements, edits by the user, torn appends |
| secret-sync: vault protocol (`push.ts`, `resolve.ts`, `branches.ts`, `history-store.ts`, `operations.ts`) | blob and commit records, only ever added | push, resolve, branch create | no lock and no transaction on the remote, lost answers, late listings |
| secret-sync: rollback, restore (`rollback.ts`, `restore.ts`) | the same files, a recovery record | rollback, restore | a two-phase operation over remote and worktree, retried after any interruption |
| secret-sync: stores (`connect.ts`, `sdk.ts`, `concurrency.ts`) | a shared client, calls in flight | list, get, create | deadlines, retries, uncertain outcomes, uploads that outlive their command |
| secret-sync: commands (`index.ts`) | none | parse, discover, print | the active branch is read before the lock |
| compose-sandbox: lifecycle | containers, one child process, two errors | phases from prepare to cleanup, the report | signals and deadlines in any phase, several failures and one report |
| compose-sandbox: readiness (`readiness.ts`) | the status of each probe | cycles, one listing of the services, checks, intervals | the last check, a fatal error, the deadline and an abort settle in any order |
| release-tag: release, pull request, recovery | git refs, a pull request | staged release, restart, recovery | the remote moves between two stages, several jobs release one version, a stage is repeated |
| release-tag: process supervisor (`process.ts`) | a child process group | run with a deadline and an output limit | signals, timers and late events in any order |
| confluence | pages, folders, labels, attachments of a space | synchronisation, pruning, clean deletion, summary | no transaction: users edit between any two requests, a run stops anywhere, a write lands late |
| docker-publish | tags of the daemon and the registries, exports, digest manifest | plan, filter, ask, build, export, push, verify | a pool of workers, others who push the same tags, failure in the middle |
| publish-package(s) | manifests, staged directories, packages of npm | order, select, prepare, publish | npm forgets nothing: what was published before a failure stays |
| release-artifact | an artifact tree, an archive, an install path | build, verify, install | closures and merged ranges; several clients at one path |
| go-release | the managed output directory, archives, checksums | build, archive, checksum, verify, reproduce | staged replacement with a backup; steps of two builds |
| changelog, asdf plugin, website, docs | none | text | nothing for a model checker |

The commands of secret-sync take the lock of their worktree, read `state.json`
and the history of the vault, compare three ways, and then change either the
vault (push, resolve, branch create), the worktree (pull, switch, restore) or both
(rollback). `resolve` and `branch create` take no lock. Between machines there is
nothing but the append-only vault. release-tag shares nothing with secret-sync:
its jobs meet at `origin` and at the pull requests of the repository. The other
packages call each other only as commands of a workflow: go-release and release-artifact
leave files that an upload takes, docker-publish a manifest that its own verification reads.

What makes each part correct:

- lock: at most one process works under it; a dead owner does not keep it; a
  process never removes the lock of another;
- graph: heads are the maximal commits; an unsound history is never taken for a
  sound one;
- plan: neither side's unseen change is overwritten, one command is enough;
- workstation: no content is lost that no commit keeps; state, worktree and
  journal fit together after any interruption; a switch that began can be ended;
- vault: nothing refers to what does not exist; forks appear only in a narrow
  window and are reported;
- rollback: a retry publishes the same record again or none, replaces only what a
  commit keeps, and keeps its evidence until it is done;
- release: a version is merged once, at the commit that was tagged and verified;
  nobody's commit is overwritten unseen; an interrupted release can be finished;
- commands of release-tag: a success is whole, nothing of a command that was given up survives
  unkilled in its group, a result always comes;
- stores: a create is sent once, what was refused is never stored, a commit comes last;
- sandbox: the tests start only when everything is ready, leaks are reported, a run ends;
- confluence: success means that the space mirrors the files, users' edits and pages
  survive, repeated runs repair what failed ones left and then write nothing;
- docker-publish: what is reported is what the registry has, and nothing changes that the
  plan did not show;
- publish-package(s): what is on npm can be installed, what is reported is there;
- release-artifact: an archive has what its commands need, an installation is whole;
- go-release: the output is whole and stays, a verified release is of one build.

## The modules

| Module | Models | Depends on |
|---|---|---|
| `StateLock` | `acquireStateLock` and `release` | `LockSentinels` |
| `LockSentinels` | the processes of a lock and the marks of its file, for `StateLock` and for the instance of both | |
| `CommitGraph` | `graph.ts` | |
| `SyncPlan` | `status.ts`, `plan.ts` as operators | |
| `Sync` | worktree, baselines and head under whole commands | `SyncPlan` |
| `Workstation` | pull, push and switch step by step | `SyncPlan` |
| `Worktree` | several command lines in one worktree, whole commands | `SyncPlan` |
| `Rollback` | rollback step by step, restore, over an uncertain vault | `SyncPlan` |
| `SecretVault` | concurrent clients of one vault | |
| `CreateOnce` | what a store promises of `createItem` | |
| `SecretStore` | `createItem` of both stores, the pool of uploads, the reads that settle | implements `CreateOnce` |
| `ReleaseTag` | jobs that release one version, `origin`, the pull requests | |
| `Sandbox` | one run of compose-sandbox in outline, its process, signals and deadlines | |
| `SandboxReadiness` | the same run with its polling loop | `Sandbox`, which it implements |
| `ProcessCapture` | one command of release-tag with its descendants, signals and timers | |
| `Confluence` | runs of the synchronisation, users, late writes | |
| `DockerPublish` | runs of docker-publish, daemon, registries, others | |
| `PackageRelease` | runs of publish-packages, npm, others | |
| `ReleaseArtifact` | builds, verifications and installations of an artifact | |
| `GoRelease` | builds, archives, checksums and verifications of several processes | |
| `Synchronize` | the three synchronisations and the commit graph beside each other: what `Synchronize_proofs` is about | `Confluence`, `Sync`, `Rollback`, `CommitGraph` |
| `Deliver` | the four models of releases beside each other: what `Deliver_proofs` is about | `GoRelease`, `DockerPublish`, `ReleaseArtifact`, `PackageRelease` |
| `MC*` | constants, sums of parts and symmetry of the instances | |
| `ConfluenceInvariants` | the inductive invariants of `Confluence`, which `Synchronize_proofs` proves | `Confluence` |
| `*_proofs` | the theorems | |

**StateLock.** One action per `await` of the code: the exclusive create, the
write of the payload, the `chmod`, the read and the `stat` of somebody else's
file, the verdict, the unlink, and on release the nonce check and the unlink.
`path`, `written` and `old` are the file; `staleFor` the processes for whose
captured `now` the file is too old; `seen` what a process read; `pidAbsent` the
processes that a signal check would not find. A file is named by
its creator, and the nonce with it. `Crash` ends a process anywhere,
`RecyclePid` lets a dead PID look alive again, `Age` lets the stale bound pass.
`raced` and `stolen` are history variables of the properties.

**CommitGraph.** The worklists and the depth-first search of `graph.ts` as functions of
the number of turns of their loops (`WalkTurns`, `VisitTurns`, `ReachTurns`), which keep the order
of the code (the last pushed id first, the smallest id first). The stack of `collectAncestors` is a
sequence of frames, what is left of the parents that one commit pushed; that of `detectCycle`
is the path of the calls that have not returned. The state is a history that grows by arbitrary records in
arbitrary order, so that TLC enumerates every graph. The reference definitions
are the transitive closure and quantifiers over it. `AncestorsExact` and
`HeadsExact` speak of sound histories in which the parents of a commit are an
antichain: with a parent that descends from
another parent the walk reports a cycle where there is none. `SecretVault`'s
`ForksAreHandled` (its part `JoinsAreOfHeads`) shows that no command publishes such a commit.

**SyncPlan, Sync.** A slot is a content or one of three marks. `CompareFile`
returns the status strings of the code; `Uploads`, `RemoteDeletions`,
`Downloads`, `LocalDeletions`, `ResultingTree` are the plan, `AcknowledgeClean` the
update of the baselines. `Sync` takes a whole command as one step and is the
place of partial selections, unreadable files and unknown baselines.

**Workstation.** `disk` is `state.json`, `journal` the entries of
`journal.jsonl`, `cmd` the variables of the running command. Each file goes
through the steps of the code: append the entry, read the file again (`Guard`),
compare once more after the temporary file is written (`Recheck`), rename or unlink
(`Replace`), read back and mark (`Mark`). A pull then saves its baselines and
settles the journal; a switch verifies all files, settles the journal, and
moves branch, baselines and recovery record in one save. `Edit`, `RemotePush`
and `Crash` may come between any two steps; a crash during an append may leave
part of a line (`torn`). Branches are lines of commits here.

**SecretVault.** `blobs` and `commits` are what the store accepted,
`listedBlobs` and `listedCommits` what it lists. A client loads, uploads each
blob, looks at the heads again, publishes and looks a last time. `Outcome` is
what `createItem` may do: accepted or not, listed or not, answered or uncertain;
an uncertain blob is looked for by id and by content, an uncertain commit by
id. Records surface later in any order. `knew` and `told` are history of the
properties. Which path a blob stands for is not modelled here, only that trees
refer to blobs.

**Worktree.** The lock makes a command one step; what a command line reads before
it takes the lock (`ResolveBranch`, `RestoreLoad`) is a step of its own, so that a
switch or another command may come between. `been` and `asked` are history: what
each branch has had, what the user typed or restored.

**Rollback.** One file, one action per step of `rollback.ts`: operation record,
recovery record in `state.json`, second look at the heads, publication,
observation, comparison, rename, verification, and the one save that moves the
baseline and drops the recovery record. `Retry` and `Converge` are the two
ways a repeated command goes on. `Outcome` is the store as in `SecretVault`.
`restore`, `pull` and `push` of the same file are whole commands here, and other
commits come from anywhere.

**ReleaseTag.** `origin` is the release branch and the tag, `pulls` the pull
requests from that branch, `clone` each job's refs. One action per git command
or request that reads or writes them: `InspectBranch`, `InspectTag`, `PushSource`,
`RunRelease`, `PublishHead`, then `Find`, `Create`, `Relookup`, `Read`, `Merge`,
`LookAtBranch`, `DeleteBranch`; `Recover` and `RecoverOrigin` are `--only pr`.
`LeaseHolds` is git's `--force-with-lease`, which also lets a push through whose
ref is at its target already. An answer may be lost after the request took
effect (`CountLost`), and `Fail` ends a job anywhere. The release command is the
user's: it commits, and may or may not tag and push, and fail at any point.
GitHub (`PullsAfter`, `MayOpen`, `MergePull`) is external. `Other` is what other
people do to the branch and the pull requests. `merges`, `reported`, `foreign` and
`early` are history; `early` says that a recovery ran from a tag and a branch which
the release command had pushed, while the job that made them had still to push the
branch itself. Then four jobs can merge two pull requests: the recovery has found
no request yet, a second job merges another head, a third prepares the branch
anew, and the late push puts the recovered head on it, for which the recovery opens
and merges a request of its own. release-tag's
README asks for serialised release jobs; `VersionMergedOnce` excepts just this case.

**Sandbox.** `pc` is what `runLifecycle` awaits: a phase, or a step of evidence and
cleanup. `child` is the process of that step (`runProcess`): it runs, was sent
SIGTERM, or has exited and awaits `close`, which a descendant that keeps its output
open holds back (`held`). `main` and `fresh` are the two abort controllers, that of the
phases and that of evidence or cleanup, which starts unaborted (`Collect`,
`Teardown`). `Signal`, `TotalDeadline`, `EmergencyDeadline`, `ChildDeadline` and
`PreflightDeadline` may come at any time; the process that a timed-out preflight gave up on is
`lingering`. `PhaseFails` is the way into the catch block, `EvidenceEnds` and
`CleanupEnds` what follows on either path, `Leave` what `runComposeSandbox` makes of
the errors. An error is the phase in which it arose. Two things in it surprise. A signal
that comes while the cleanup paths are removed is noticed at the end, as an error thrown
inside the `try` block: the `catch` block then collects evidence again, of containers that
are gone (`lifecycle.ts:373-389`; the package's README says that evidence is captured before
teardown, and once). And when evidence and cleanup fail after a failed test, the error of cleanup
is in no report. `EvidenceFirst` and `LeakIsReported` state exactly what remains true.

**ProcessCapture.** `capture` is the local variables of `captureProcess`; an action is one callback:
data (`Collect`), a failing stream, `Exit`, `Close`, and the timers `Deadline`, `Escalation` and
`ReapDeadline`. `Terminated` is `terminate`, `FinishIfClosed` with its guard `MayFinish` is
`finishIfClosed`. The processes are the environment: they fork, leave the group, close the pipes,
write and end on their own, and none has to end, not even one that was killed. SIGTERM has no action
of its own, since a process may end or go on at any time. The end of a
process (`End`) and its observation (`Exit`) are two steps, so that every timer can come in
between. The two pipes are one, whose streams fail one by one. `CaptureIsSound` says that the output of a
success is whole and that a command that was given up leaves nothing in its group that was not killed;
`ResultComes`, a part of `EachEnds`, that a result always comes. The compose-sandbox supervisor gives no
such guarantee while a descendant holds the output, which the other part of `EachEnds` excepts.

**SecretStore, CreateOnce.** `stage` is where the publication of a record is, from the call
of `createItem` through the wait for the shared client (`init`), the request, the body of the
answer, and the two reads that settle an uncertain create. `posted` are requests on their way,
`accepted` what the provider holds: it stores, loses and refuses on its own time, also when
nobody waits any more. `Deadline` covers the wait for the client as well, and a call that it ended
must not be served by a client that comes later (`Served`). `GuessRefusal` is `mapSdkError`, which
reads the verdict off the text of an error and cannot be sure; `CreatesOnce` maps it to
"uncertain". The pool takes the next upload as long as fewer workers than allowed have failed, also
after the command is over. `CreateOnce` is the abstract specification: accept once, tell once,
tell the truth. `Outcome` in `SecretVault` and `Rollback` is what a caller sees of it.

**SandboxReadiness.** The variables of `Sandbox` and those of `waitForReadiness`: `due`,
`ready`, the checks of a cycle. A cycle checks what is due, together, after one listing of
the services; each check settles alone; a fatal one ends the loop with its cycle. The step
`Readiness` of `Sandbox` is replaced by `AllReady` and `NotReady`; `ImplementsRun` says that
the rest shows nothing outside. `Shadowed` are probes whose description another probe has
too: the status is kept by description (`readiness.ts:495`), and they are never looked at.

**Confluence.** `page` is the space: each page with its parent, ancestors, title, label, body,
version and attachments. `sync` is a run: one action for each request, in the order of
`syncConfluenceToDocs`: preflight, lookup or creation along the path, labels, then the bodies
(`Fetch`, `Rewrite`, `Put` with the version that was read), then the listing of the
descendants, the plan, the deletions, and the summary on the target. What is left to do is a set: the files are
taken in the order of their paths, files of one path in any order, and deletions the deepest first. Clean deletion is
`Clean`. `RequestFails` ends a run anywhere, and a write whose caller gave up may land later
(`inflight`, `Lands`). Users edit, add, label and trash pages and change files at any time.
Bodies are the file and text they were made from, and the form of the picture (image or code).
A rendering fails by a fault, or because the renderer refuses the source (`Unrenderable`), and then in every run.
`touched`, `fresh`, `unread` and `calm` are history of the properties. `SuccessIsMirror` and `QuietRuns` except files
of one path (`Alone`): the later one overwrites the page of the earlier. `QuietRuns` also excepts a diagram that the
renderer refuses (`Unrendered`), whose page every run writes again. `SpaceConverges` says that, once users, faults
and late writes are over, every run succeeds and writes no page, and names what it excepts: `Stuck` for the first half (nobody
resolves a conflict of titles, damaged markers or files at fault), and in the second half also `Restless` (the two cases that `QuietRuns` excepts).

**DockerPublish.** A run plans (references of images, registries and tags must be distinct),
is narrowed by the filter, may ask, logs in, builds or exports by a pool of workers, pushes and
inspects, writes the manifest and verifies. A task of the pool is a record with its step; `Settled`
says when the pool reports. `exports` is one OCI layout for each image; the directory of an image lies
inside that of any image whose name its name extends. Others build and push the same references.

**PackageRelease.** `sortPackagesByInternalDependencies` as a sequence of calls and returns of its `visit`
(`visiting` is the stack, and a cycle stops it), the selection, the versions and the rewriting of
ranges by `workspace:` and placeholder, the implicit artifact under several names and the recipes
with their stage directories, `npm publish` with its answer lost, the command killed anywhere and repeated,
and other publishers of the same names. `DependenciesFirst` speaks of the packages of the workspace: a
placeholder for a name outside it becomes the version of the release, whatever npm has of that name.

**ReleaseArtifact.** `workspace` are packages with commands, files and dependencies; a build
copies the packages, merges the dependencies of the closure of its commands (`modules`; the closure is the least set
of packages that has the commands and the dependencies of its own), writes the
manifest, removes the old archive and packs. `ListArchive`, `Extract` and `Check` are the
verification; an installation then removes what is at the path and renames its own tree there,
step by step, with other clients and kills in between.

**GoRelease.** `dirs` are directories by number, `output` the one at the output path. A build
compiles into a staging directory, validates it, moves the old output away, moves the new one in, and
puts the old one back when that fails. Archives are staged below the output path and renamed, checksums
are written and verified against a snapshot, the reproducibility check builds again twice.
Two processes do all that at once and are killed anywhere.

## The runs

`workstation`, `synchronize`, `services`, `sandbox` and `deliver` hold several parts that share no state: the initial
state chooses a part, and the behaviour is of this part alone. The states are the sum of those of the
parts and not their product, and the properties of each are as in a run of its own.

| Run | Instance | States | Shows |
|---|---|---|---|
| `lock_reclaim` | 2 contenders over the file of a third process that ended | violation | the race of two reclaimers |
| `synchronize` | sync: 2 paths, 3 contents; graph: 4 commits, 2 branches; rollback: 3 pushes, 1 rollback, 1 edit, 2 faults; confluence: 3 files, 2 spaces, 2 events; fair | 0.7 M | push and pull respect the other side; the traversals are exact on sound histories; duplicates are equal, retries lose nothing, rollbacks end; the space mirrors the files, edits survive, runs converge but for refused diagrams |
| `confluence_inventory` | the same | violation | pruning over a listing with a gap |
| `confluence_rendering` | the same | violation | a refused diagram makes an identical sync write again |
| `workstation` | workstation: 2 paths, 2 branches, 3 commits, 1 edit, 2 interruptions, torn lines; lock: as in `lock_reclaim`; fair | 0.8 M | no loss, no leak, baselines with the branch, switches are resumed and completed; exclusion unless a reclaim was raced; a robbed holder does no harm; dead owners are replaced |
| `workstation_torn` | one torn line | violation | a torn line blocks the resume |
| `workstation_journal` | one interruption | violation | a no-op pull leaves entries |
| `vault` | 2 clients, 2 branches, 4 commits, 1 blob, 1 fault | 7.2 M | order of records, the window of forks, forks are reported, joins are of heads |
| `worktree` | 2 command lines, 2 branches, 1 file | 8.2 M | a branch that was read too early leaks nothing and loses nothing |
| `services` | release: 2 jobs, 2 further commits, 2 pull requests, 1 act of others, 1 fault; store: 3 uploads, 2 workers, both stores, 1 retry; release fair | 1.0 M | one merge unless a recovery was early, of the tagged commit, no unseen commit overwritten, recovery ends; creates are sent once and told truly, commits come last |
| `sandbox` | sandbox: 1 run, 2 signals, every deadline and failure, 2 services, a probe and a shadowed one; command: 3 processes, 2 chunks of output of which 1 is allowed; fair | 0.2 M | leaks are reported, evidence first, tests wait for readiness, the detail implements the outline, runs end; a command always has a result, whole if it is a success, with its group killed if not |
| `deliver` | go: 2 processes, 3 commands; artifact: 2 builds, 2 clients, 1 edit; packages: 2 releases, 1 other publication; docker: 2 runs, 2 workers, 1 event | 6.2 M | see the four modules |

`GraphExact`, `RecordsAgree`, `RetryIsSafe`, `ChangesAreJustified`, `StateFollowsBranch`, `ForksAreHandled`,
`CaptureIsSound`, `EachEnds`, `OutputStands`, `ArtifactStands`, `ReleaseStands`, `DockerStands` and
`DockerStaysWithinThePlan` are
conjunctions of properties that are named and explained one by one in their modules.

The bounds. Three lock users are the least for the race of two reclaimers over
the file of a third; the third is gone from the start, as only its file matters.
Four commits contain every shape of join, fork and cycle that the tests of
`graph.ts` use, including the diamond with a shortcut. A workstation with two
paths has a first and a second file to be interrupted between; three commits leave
one push besides the two initial trees, which differ in one path by a write and in
the other by a removal; two interruptions allow the resumed command to be
interrupted too. Three contents are enough for base, mine and theirs. In the vault
four commits are a base, two rivals and a join or a second rival; one content is
enough for a blob to be found again or adopted. `MaxFaults` counts uncertain
answers, unlisted records and interruptions: one is enough for the vault's
properties, which quantify over the outcome of a single request, two let the retry
of a rollback fail as well. Three pushes are the two revisions of the file and one
that comes in between. In `release` two commits are the released heads of the two
jobs, or one and a foreign commit; two pull requests make a doubled one possible.
In `sandbox` the first signal aborts a phase and the second the evidence or cleanup that
follows; further ones find everything aborted. Two services, one of them a service that ends,
share a listing; the third probe is checked without it. Three processes of a command are its leader,
a descendant in the group and one that leaves, or a chain of forks; the second chunk is the one too many.
In the store three uploads for two workers leave one that is taken after another
failed. The three files of `confluence` are a page at the top, a diagram in a folder, and one
that has the title of the folder; two events are an edit and a failure, or a late write and what a
user does to its page. One of the two texts of a diagram is refused by the renderer. As such a page gets a new version from
each run, a run that nothing new is expected of is not started once a page has version 4 (`WorthARun`, `MaxVersion`): by
then there were a first body, the changes of users, and a repetition with nothing changed. In `deliver` two processes are a rival pair, three commands a build, a
build that replaces it and an archive or verification; two archives are an old and a new one;
two releases are an interrupted one and its repetition; two docker runs are a push and a later
verification, and the one event is a rival push between them.

Symmetry is used in `vault` and `worktree`, which check no liveness. Deadlock is
checked where the system may never stop (`worktree`). The others end when the
bounds on edits, commits, faults and events are used up, or when the one run or command
that they are about has ended.

**Fairness.** `StateLock`: weak fairness for each process's own steps and for the
passing of the stale bound, since an `await` on a local file returns; callers
that retry (`RetrySpec`) are what the lock's message asks for.
`DeadOwnerReclaimed` assumes in its statement that the other process lives and
that the PID stays absent. `Workstation`: weak fairness for the steps of a
running command and for the user's repetition of an interrupted switch, which
the README of secret-sync asks for. `Rollback`: the same for a pending rollback,
and for the vault, which lists in the end what it accepted. `ReleaseTag`: weak
fairness for the steps of a job, since every git command and every request has a
deadline, and strong fairness for `Recover`, since the user, who also does other
things in the clone, keeps coming back to the recovery that the messages ask
for. `Sandbox`: weak fairness for the steps of the run, which await calls of the
file system, for the deadline that every process has, and for the exit of a process that was
sent SIGTERM, since SIGKILL follows; nothing says that a held pipe is ever closed,
and `EachEnds` excepts it. `ProcessCapture`: weak fairness for the events of Node and the timers together,
since the event loop is never blocked and each of them happens a bounded number of times; none for the processes. `SandboxReadiness` adds the deadline of readiness, the intervals
and the checks, each of which has a budget. `Confluence`: weak fairness for the steps of a run,
for its repetition, since the job runs on every push or schedule, and for a
write in flight, which lands or is lost; users and failing requests are bounded events. Interruptions, edits and what others do are never fair. The other
modules claim no liveness.

## The findings

1. `lock_reclaim` (`LiveOwnerKeepsLock`): two contenders find the lock of the same dead owner. The
   first unlinks it, creates its own and works; the second, which had judged the
   old file, unlinks the new one. The comment on `STATE_LOCK_RACE_LIMITS` says that
   live owners remain busy. `HoldsUnlessRaced` is the exact residue: everything
   else in the protocol is exclusive.
2. `workstation_torn` (`RetryAccepted`): a crash in the middle of `appendJournalEntry` leaves a
   line that `loadJournal` refuses, and a switch that was pending can no longer be
   resumed although nothing else changed. `PendingSwitchEnds` is what holds: after every
   other interruption the repeated switch is accepted and completed.
3. `workstation_journal` (`CompletedPullSettlesJournal`): a pull interrupted between its last write and its state
   save is completed by a pull that has nothing to do, and this one never
   touches the journal; its entries stay, and later switches are refused.
4. `confluence_inventory` (`IncompleteRefused`): the descendants of the target are fetched page
   by page. A page that is moved between two fetches may be missing from the listing while a page
   below it is there. `depthOf` trusts the depth that the server gives and never meets the
   missing ancestor, so the pruning goes on to delete, where its comment says that it throws.
5. `confluence_rendering` (`SecondSyncIsQuiet`): a diagram that an installed `mmdc` refuses becomes a code block and
   nothing is attached (`mermaid.ts:119`), so that the next preflight finds it pending again (`mermaid.ts:241`), its
   body cannot be predicted (`index.ts:1265`), and the page is rendered and written again, in every run. The comment on
   `skipUnchanged` (`index.ts:97`), which is the default, promises a second identical sync "no page PUT, no attachment mutation, and
   no Mermaid `mmdc` spawn". `QuietRuns` and `SpaceConverges` are what holds: everything else is written once.

### Observations

Behaviour that the models show or that had to be excepted, and that no document denies
outright, or whose document speaks of something else:

- Stores. A refusal of the SDK is guessed from the text of its error (`sdk.ts:237`).
- Readiness. Two probes with one description share a status (`readiness.ts:495`), and the
  configuration compares names only (`plan.ts:600`).
- Confluence. A run that ends between the creation of a page and its label leaves a page that
  pruning never takes if the file goes away before the next run. Colliding titles pass preflight. A late deletion
  takes what was put below the page since.
- docker-publish. `untagImage` (`build.ts:400`) removes all references of the image, also those of
  earlier builds, where `website/docs/packages/docker-publish.md` says "what it created". A name
  inside another loses its export (`build.ts:126`), and with `ociExportDir` "." a directory of the image's
  name in the project is replaced. A multi-platform build leaves an older local tag in place, which a push
  would publish (`build.ts:303`, `:347`). An export is validated after the old one is gone. A build with push and
  `ociExportDir` is refused after everything was built; missing credentials are found after the build.
- publish-packages. A filter can leave out a dependency at whose new version the rest
  is published. A publication that stopped between two additional names cannot be
  completed with the same version (`publish.ts:46`). A build that is skipped with no publish directory publishes an empty
  package (`prepare.ts:120`). A stage directory that was left behind blocks a recipe (`prepare.ts:183`).
- release-artifact. `intersectSemverRanges` takes the least string of two ranges, so "1.1.0" with "^1.2.0"
  passes. Conflicts are found when the old archive is gone already. Without force the emptiness of the path is looked
  at long before the removal (`index.ts:1150`, `:1190`); a kill between removal and rename leaves
  nothing; of two installers the slower may take away what the faster installed. A command that the globs
  exclude gives an archive that its own verification refuses.
- go-release. `assertNoMemberPrefixCollisions` (`plan.ts:416`) compares neighbours only. A crash
  between the two renames leaves no output and a backup that nothing takes up. When the backup cannot be removed the build is
  reported as failed with the new output in place (`go-release.md:264` says that a failed build
  preserves the old one). A build that replaces the output while an archive is packed puts binaries
  of the old build into the new release (`seen.raced`).

## What is proved

The proofs use no assumption but those on the constants, which TLC evaluates in the runs:

- marks and contents: the marks are distinct and outside the contents (`SlotAssumption`); what is typed
  and foreign are contents, and a worktree has a path (`WorktreeAssumption`, `WorkstationAssumption`);
- what there is at the start: commits that nobody made here, on branches (`WorkstationAssumption`);
  finitely many records with distinct ids (`RollbackAssumption`); finitely many commits, whose ids are
  numbers, as only their order matters (`GraphAssumption`); a commit of the base, and no ref that is
  a base commit, a release commit and absent at once (`ReleaseAssumption`);
- names: the sentinels are no processes (`SentinelAssumption`), the commit is no blob (`StoreAssumption`),
  the leader is a process (`CaptureAssumption`), services and shadowed probes are probes
  (`ReadinessAssumption`);
- the space: files have a path and a kind, the marks of a page that is gone or broken are no texts, what the renderer refuses are texts, and what a first run
  finds is a tree of pages below the target whose contents are known ones (`ConfluenceAssumption`);
- configurations: a build has a target (`GoAssumption`); files and answers of docker-publish have
  their fields, and lists where the code has lists (`DockerAssumption`); so do packages, recipes and options
  (`ArtifactAssumption`, `PackageAssumption`);
- every bound is a natural number.

Each bullet names the module, what it proves, and the invariant that carries it.

- `StateLock_proofs`, of `StateLock` as `MCWorkstation` instantiates it (`Lock`). `TypeCorrect`; `StolenLockSurvives`, from the invariant
  that a process past its nonce check was not robbed before it; and
  `ExclusionUnlessRaced`. `HoldsUnlessRaced` is not inductive: it is
  strengthened to cover the processes between create and `chmod`, and with what a
  reclaimer that has decided knows of the file it is about to remove.
- `Synchronize_proofs`, of `Sync`: `PushIsSafe` and `PullIsSafe`, which are
  action properties and follow from the definition of the comparison by cases,
  for every baseline, worktree and head; and `CommandIsEnough`, by which the plan that a
  command leaves behind is empty and accepted, whatever was selected. Of `Rollback`:
  `RecordsAlwaysAgree` and `RetriesAreSafe`, from `RollbackInv`: of one id the vault has one commit and the
  journal one operation record (`VaultOK`); a recovery record has an operation record, what was published under its id is its
  commit, and what it replaces is kept by a commit (`RecoveryOK`); a running rollback publishes what the
  recovery record says, and once it is past that its commit is in the vault (`CmdOK`).
  Of `Confluence`: `MirrorsAlways` and `ChangesAlwaysJustified`, from `WikiInv`: the space is a tree (`IsSpace`); writes in
  flight fit it (`InflightOK`); the run knows what it has mapped (`MappedOK`), which files are done (`DoneOK`), and of the
  file at hand what it has read (`EntryOK`); what it lists for deletion, spares and keeps (`PruneOK`) and what it sums up
  (`SummaryOK`) is so unless others have touched it. Everything that others do is one relation of two spaces
  (`ByOthers`), which keeps all of that. A page ends one path only (`OnePath`), which is why files of one path are excepted.
  That a run over files and a space that nobody touched since a run that succeeded writes nothing, if no two files have one path and the renderer refuses no diagram (`RunsAreQuiet`, a part of
  `ChangesAlwaysJustified`) relates two runs, and needs `CalmInv`. What the first leaves is `Settled`: every file has its page
  with the very body and picture that the next run would write, the summary names these pages and no others, and a stale page holds
  something to be kept. To that end `FirstOK` and `Traced` follow the first run: what is done is final, and what it has mapped lies on
  the way to pages of files. Then `SecondOK` follows the next: the pages on the way to a file are the only ones of their place and
  title (`WayTo`, `Again`), so each lookup finds them, no file needs a write, and every page that it would delete is spared.
  Of `CommitGraph`: `TraversalsAreExact`, for histories of any size, also those over `MAX_GRAPH_NODES`, which the run does
  not reach. What is known after n turns of a loop (`WalkOK`, `VisitOK`, `ReachOK`) is carried from turn to turn by the least
  exception (`HasLeast`), and no loop has more turns than there are commits, or twice as many where each is called and returns.
  The walk takes no diamond for a cycle because no id on its stack is an ancestor of one beside or above it
  (`FramesApart`): here it is needed that joins are joins of heads. That heads cover the branch is shown with
  the last of a line, which is a head (`LastOfTheLine`).
- `SecretVault_proofs`. `TypeCorrect` and `DependenciesAreFirst` by one
  invariant: running commands refer only to accepted records. Then
  `SecondLookClosesWindow`. It needs that ancestors are closed (`anc` of a parent is
  contained), that a command past its second look covers with its parents and
  their ancestors every commit of its branch that it saw, and the lemma that in a
  finite listing each listed commit of a branch is a head or an ancestor of one,
  by the greatest element of a bounded set of naturals. `ForksAreAlwaysHandled` adds `ForkInv`: the
  parents that a command carries descend from none of each other (`Apart`); and a commit whose
  author was not told has an author who is about to look, or is the only head, or has a later commit
  on its branch (`Accounted`), so that the last commit of a fork is told.
- `Worktree_proofs`. `TypeCorrect`; `NoLeak`, from the invariants `Accounted`, by
  which each file is at its baseline, or is what the user typed or restored, or was
  never there, and `HeadsHaveBeen`; and `WorkIsKept`, from `KInv`, by which baselines
  and the targets of a restore are contents that some branch has had.
- `Workstation_proofs`. `StateFollowsBranchAlways`, `NoCrossBranchLeakAlways` and
  `OverwritesOnlyCommittedAlways`, from `IInv`. Its first part (`WorldInv`) is about the world: a pending
  switch has a recovery record of a head of its target, and what it replaces some commit keeps (`RecoveryOK`);
  each file is the user's, the active branch's or one that the pending switch has reached (`LocalOK`); and what
  came from a branch has a baseline, an open journal entry or the pending switch to answer for it (`JournalOK`),
  without which the next switch would take it along. The second (`CommandInv`) is about a running command: what it
  planned to replace is kept, it works on the active branch or by the recovery record, and a pull settles
  an entry only once the baseline is saved.
- `MCServices_proofs`, of `ReleaseTag`: all five safety properties. `TypeCorrect`,
  `RemovesOnlyMerged`, `MergesTagged` and `OverwritesSeen` follow from `IInv`: an open pull
  request is at the head of the branch and there is one at most (`OpenAtBranch`,
  `OneOpen`), a released head is what the job's tag names and no commit of the base,
  and a job has the pull request it works on (`JobInv`). `MergedOnce` needs more
  (`NInv`): after a merge every head that a job may still merge is over, which means
  merged with nothing open for it, or off the branch (`NothingLeft`); and
  no job is about to publish what another holds (`Rivals`, `Awaited`), since a
  head that returns to the branch would not be over. `Awaited` is what an early
  recovery breaks, and how the exception was found. Of `SecretStore`:
  `ImplementsCreateOnce`: every step accepts a record, tells one verdict (or,
  when the client fails, several), or shows nothing. It needs that what was refused is neither stored
  nor on its way and that a record whose headers came is stored (`RecordOK`). `CommitIsLast` adds that
  the commit is begun when all uploads are done, which nothing undoes (`CommitOK`).
- `MCSandbox_proofs`, of `Sandbox`: all five safety properties and `PrimaryStays`, from one
  invariant (`IInv`): before evidence there is no error (`EarlyInv`); a run without an error
  past that point has passed, and a teardown that succeeded left no containers
  (`ProgressInv`); with one error only, the first failed phase is that of the primary error
  unless nothing failed but a signal or the deadline of preflight came (`ErrorInv`). The
  steps are made of `PhaseFails`, `EvidenceEnds` and `CleanupEnds`, each with its lemma.
  Then, of `SandboxReadiness`, `ImplementsSandbox`: each step of the polling loop is a step of
  `Sandbox` or shows nothing, so that the theorems about `Sandbox` hold for the detailed run. And
  `TestsAreReady`, from the fact that no probe is fatal while the loop waits (`PollingOK`).
  Of `ProcessCapture`, `CapturesAreSound`: a capture without
  failure is terminated only by a bad exit, so a success has destroyed no stream (`FlagsOK`); then
  what was written is what was counted and what is unread, and nothing is unread after the
  close (`OutputOK`). `GroupOK` says that after SIGKILL, or a result of a capture that was terminated,
  everybody in the group is doomed, and stays so because the doomed do not fork.
- `Deliver_proofs`, of `GoRelease`: `OutputAlwaysStands`, from `GoInv`: no two builds have a directory in
  common and none has the output (`Apart`), which of the directories are whole (`WholeOK`), and an archive is of
  the directory that it lies in, unless its packing raced (`ArchivesOK`). Of `DockerPublish`:
  `DockerAlwaysStands` and `DockerAlwaysStays`, from `DockerInv`: while a pool works without a failure, each
  image or reference waits, or is in the hands of a worker, or is done (`BuildOK`, `PublishOK`,
  `ReferencesVerified`); what is done is not undone, since the images of a plan share no reference; and the plan that is run is
  within the one that was shown (`PlanKept`). The last two rest on lemmas about `FlattenSeq`, which is a fold: that the
  joined list has the elements of its parts, and no element of two parts if it has none twice.
  They are proved without induction over an operator, by the least exception to a fact about naturals (`HasLeast`).
  Of `ReleaseArtifact`: `ArtifactAlwaysStands`, from `ArtifactInv`: what a build has planned to copy leaves out no
  package that one of its own needs (`BundleOK`, by the lemma that the closure serves); its tree agrees with the
  workspace but for files, and has what it was merged from (`TreeOK`); and what a client is about to put at the path
  has passed its verification (`ClientsOK`). Of `PackageRelease`: `ReleaseAlwaysStands`. Each call and return of `visit`
  keeps every finished package after those that it needs, the stack apart from them (`VisitOK`), so the order is one of
  dependencies, and so is every selection from it (`InTurn`). `ReleaseInv` carries this through the runs:
  a run over the workspace has published, or has still ahead of it and in order, every package (`OrderOK`); what is
  ready is this run's and is, with what npm has, all of a package's names (`ReadyOK`); what is reported is delivered (`DoneOK`).

No run repeats what is proved for all instances and is not about a hazard of its own: the type
invariants (`TypeCorrect`) of `StateLock`, `SecretVault`, `Worktree`, `ReleaseTag`, `Sandbox`
and `SecretStore` (`StoreTypeCorrect`), that of `Sync` (the lemma `SyncTypes`), and of `Sandbox` also `SuccessMeansAll`,
`PhaseIsOfPrimary` and `PrimaryStays` (`SuccessIsTrue`, `ReportsPrimary`, `PrimaryIsKept`). Those of
`Workstation` and `Rollback` are conjuncts of `StateFollowsBranch` and `RecordsAgree`.

Only model-checked: the liveness properties (`DeadOwnerReclaimed`, `PendingSwitchEnds`, `RollbackEnds`,
`RecoveryEnds`, `EachEnds`, `SpaceConverges`), since they need fairness. The other properties of the passing runs
are theorems.

## What is not modelled, and the plan

Bytes, digests, HMACs and encodings are contents that are equal or not. Dry runs
change nothing and are left out. The observed heads of `state.json` are read by
no decision. Case collisions, symbolic links and special files only make
commands refuse.

Of release-tag, `skipRelease`, runs that stop before the merge, the squash and
rebase methods (which merge another commit than the tagged one), and title, body
and labels of a pull request are left out; the version is given.

What a command of release-tag makes of its result is `Fail` of `ReleaseTag`; the supervisor is modelled
where there are process groups, not on Windows. Of docker-publish, platforms are known, custom or odd, and a manifest
is single or multi-platform. Of confluence, the conversion of Markdown is a function of file
and text. Of the stores, an item is the record it decodes to.

What remains to be done: `Sync` as the abstraction of an undisturbed `Workstation`.

Left out for good: text generation (changelog, markdown conversion, output
formats), argument parsing, configuration schemas, the website and the shell
wrappers.
