------------------------------- MODULE GoRelease -------------------------------
(***************************************************************************)
(* go-release: builds, archivers, checksum writers and verifiers of one    *)
(* project, each a process, on one output directory.  A build compiles     *)
(* into a directory beside the output and takes its place with renames;    *)
(* an archiver and a verifier work in the output directory by its path,    *)
(* so that a build may move it from under them.  Every process may be      *)
(* killed, every tool and every rename may fail.  What a build compiled    *)
(* is the number of the build; a directory keeps its number when it moves. *)
(***************************************************************************)
EXTENDS Naturals, FiniteSets, Sequences, SequencesExt

CONSTANTS
    Configs,   \* [targets, members]: the target names, and the paths of an archive in sorted order
    Process,
    MaxRuns    \* commands

GoAssumption == Configs # {} /\ (\A g \in Configs : g.targets # {}) /\ MaxRuns \in Nat

VARIABLES
    config,
    dirs,      \* what is in the directories: binaries, archives, checksums
    output,    \* the directory at the output path, 0 if there is none
    proc,
    runs,      \* commands that were started
    \* What was seen: an output was placed; a build died, or could not put the output back, after it
    \* had moved it away; an archive was packed while a build replaced the output.
    seen

vars == <<config, dirs, output, proc, runs, seen>>

Targets == config.targets
EmptyDir == [built |-> <<>>, archives |-> <<>>, sums |-> <<>>]
IdleProcess == [pc |-> "idle", own |-> 0, todo |-> {}, found |-> <<>>, old |-> 0, stage |-> 0,
                now |-> ""]

\* The map f with a new value at t.
With(f, t, v) == [x \in DOMAIN f \cup {t} |-> IF x = t THEN v ELSE f[x]]

------------------------------------------------------------------------------
\* The plan

Collide(p, q) == IsStrictPrefix(p, q)

\* resolveTargets and assertNoMemberPrefixCollisions: only neighbours of the sorted paths are compared.
PlanAccepted ==
    LET m == config.members
    IN  /\ \A i, j \in DOMAIN m : m[i] = m[j] => i = j
        /\ \A i \in 1..(Len(m) - 1) : ~Collide(m[i], m[i + 1])

\* What stageMembers can lay out: no file is also a directory.
Stageable == \A i, j \in DOMAIN config.members : ~Collide(config.members[i], config.members[j])

------------------------------------------------------------------------------
Init ==
    /\ config \in Configs
    /\ dirs = [d \in 1..MaxRuns |-> EmptyDir] /\ output = 0
    /\ proc = [p \in Process |-> IdleProcess]
    /\ runs = 0 /\ seen = [placed |-> FALSE, lost |-> FALSE, raced |-> FALSE]

Ended == {"idle", "done", "failed", "verified", "reproduced"}
Step(p, pc) == proc' = [proc EXCEPT ![p].pc = pc]
Fail(p) == Step(p, "failed")
Out == dirs[output]

\* A command begins: its plan is made, and everything but a build looks for the output directory.
Begin(p, pc, targets, found) ==
    /\ proc[p].pc \in Ended /\ runs < MaxRuns /\ PlanAccepted
    /\ runs' = runs + 1
    /\ proc' = [proc EXCEPT ![p] = [pc |-> pc, own |-> runs + 1, todo |-> targets, found |-> found,
                                    old |-> 0, stage |-> output, now |-> ""]]
    /\ UNCHANGED <<config, dirs, output, seen>>

------------------------------------------------------------------------------
\* buildGoRelease

StartBuild(p) == \E targets \in (SUBSET Targets) \ {{}} : Begin(p, "compile", targets, <<>>)

\* buildTarget: the tool ends with a binary, with nothing usable, or with an error.
CompileTarget(p) ==
    /\ proc[p].pc = "compile"
    /\ \E t \in proc[p].todo :
         \/ Fail(p)
         \/ \E usable \in BOOLEAN :
              proc' = [proc EXCEPT ![p].todo = @ \ {t}, ![p].found = With(@, t, usable)]
    /\ UNCHANGED <<config, dirs, output, runs, seen>>

\* Fault for OutputStands: that the tool ended well is enough.
TreeValid_Unseen(found) == DOMAIN found \subseteq Targets

\* validateStagedTree
TreeValid(found) == \A t \in DOMAIN found : found[t]

\* replaceOutput looks for a previous output when the staged tree is valid.
Validate(p) ==
    /\ proc[p].pc = "compile" /\ proc[p].todo = {}
    /\ IF TreeValid(proc[p].found)
       THEN /\ dirs' = [dirs EXCEPT ![proc[p].own].built = proc[p].found]
            /\ Step(p, IF output = 0 THEN "place" ELSE "away")
       ELSE Fail(p) /\ UNCHANGED dirs
    /\ UNCHANGED <<config, output, runs, seen>>

MoveAway(p) ==
    /\ proc[p].pc = "away"
    /\ \/ Fail(p) /\ UNCHANGED output
       \/ /\ output # 0 /\ output' = 0
          /\ proc' = [proc EXCEPT ![p].pc = "place", ![p].old = output]
    /\ UNCHANGED <<config, dirs, runs, seen>>

\* Fault for OutputStands: the error is passed on, the backup stays where it is.
AfterPlaceFailed_Thrown(old) == IF old = 0 THEN "failed" ELSE "clean"

\* An error of the second rename: the previous output is put back.
AfterPlaceFailed(old) == IF old = 0 THEN "failed" ELSE "restore"

\* A rename never replaces a directory that has entries.
Place(p) ==
    /\ proc[p].pc = "place"
    /\ \/ /\ output = 0 /\ output' = proc[p].own
          /\ seen' = [seen EXCEPT !.placed = TRUE]
          /\ Step(p, IF proc[p].old = 0 THEN "built" ELSE "clean")
       \/ Step(p, AfterPlaceFailed(proc[p].old)) /\ UNCHANGED <<output, seen>>
    /\ UNCHANGED <<config, dirs, runs>>

Restore(p) ==
    /\ proc[p].pc = "restore"
    /\ \/ output = 0 /\ output' = proc[p].old /\ UNCHANGED seen
       \/ seen' = [seen EXCEPT !.lost = @ \/ output = 0] /\ UNCHANGED output
    /\ Fail(p)
    /\ UNCHANGED <<config, dirs, runs>>

\* The backup is removed; when that fails the build fails with its output in place.
Clean(p) ==
    /\ proc[p].pc = "clean"
    /\ \/ dirs' = [dirs EXCEPT ![proc[p].old] = EmptyDir] /\ Step(p, "built")
       \/ Fail(p) /\ UNCHANGED dirs
    /\ UNCHANGED <<config, output, runs, seen>>

\* The library's build ends here, the command goes on with its archives.
Built(p) ==
    /\ proc[p].pc = "built"
    /\ \/ Step(p, "done")
       \/ proc' = [proc EXCEPT ![p].pc = IF output = 0 THEN "failed" ELSE "stage",
                               ![p].todo = DOMAIN proc[p].found, ![p].found = <<>>]
    /\ UNCHANGED <<config, dirs, output, runs, seen>>

------------------------------------------------------------------------------
\* createGoReleaseArchives, writeGoReleaseChecksums

StartArchives(p) ==
    \E targets \in (SUBSET Targets) \ {{}} : Begin(p, IF output = 0 THEN "failed" ELSE "stage", targets, <<>>)

\* stageMembers: the binaries are copied into a directory inside the output.
Stage(p) ==
    /\ proc[p].pc = "stage"
    /\ \E t \in proc[p].todo :
         IF output # 0 /\ t \in DOMAIN Out.built /\ Stageable
         THEN proc' = [proc EXCEPT ![p].pc = "pack", ![p].stage = output, ![p].found = With(@, t, output),
                                   ![p].todo = @ \ {t}, ![p].now = t]
         ELSE Fail(p)
    /\ UNCHANGED <<config, dirs, output, runs, seen>>

\* The staging directory is still below the output path.
StageThere(p) == output = proc[p].stage

\* tar and gzip, then the archive takes its name: the tar may have read the staged members
\* before the output was moved and its archive be written after.
Pack(p) ==
    /\ proc[p].pc = "pack"
    /\ \/ Fail(p) /\ UNCHANGED <<dirs, seen>>
       \/ /\ output # 0
          /\ dirs' = [dirs EXCEPT ![output].archives = With(@, proc[p].now, proc[p].found[proc[p].now])]
          /\ seen' = [seen EXCEPT !.raced = @ \/ ~StageThere(p)]
          /\ Step(p, "hash")
    /\ UNCHANGED <<config, output, runs>>

\* checksumArchive: of what is there now.
Hash(p) ==
    /\ proc[p].pc = "hash"
    /\ IF output # 0 /\ proc[p].now \in DOMAIN Out.archives
       THEN proc' = [proc EXCEPT ![p].found[proc[p].now] = Out.archives[proc[p].now],
                                 ![p].pc = IF proc[p].todo = {} THEN "sums" ELSE "stage"]
       ELSE Fail(p)
    /\ UNCHANGED <<config, dirs, output, runs, seen>>

StartChecksums(p) ==
    \E targets \in (SUBSET Targets) \ {{}} :
        LET there == output # 0 /\ targets \subseteq DOMAIN Out.archives
        IN  Begin(p, IF there THEN "sums" ELSE "failed", targets,
                  IF there THEN [t \in targets |-> Out.archives[t]] ELSE <<>>)

\* writeChecksumManifest: a new file takes its name.
WriteSums(p) ==
    /\ proc[p].pc = "sums"
    /\ IF output # 0
       THEN dirs' = [dirs EXCEPT ![output].sums = proc[p].found] /\ Step(p, "done")
       ELSE Fail(p) /\ UNCHANGED dirs
    /\ UNCHANGED <<config, output, runs, seen>>

------------------------------------------------------------------------------
\* verifyGoRelease

\* assertExactArchiveSet and parseChecksumManifest
StartVerify(p) ==
    LET there == output # 0 /\ DOMAIN Out.archives = Targets /\ DOMAIN Out.sums = Targets
    IN  Begin(p, IF there THEN "snapshot" ELSE "failed", Targets, IF there THEN Out.sums ELSE <<>>)

\* snapshotAndValidateArchive: a copy below the output is compared with its checksum and parsed.
Snapshot(p) ==
    /\ proc[p].pc = "snapshot"
    /\ \E t \in proc[p].todo :
         \/ Fail(p)
         \/ /\ StageThere(p) /\ t \in DOMAIN Out.archives /\ Out.archives[t] = proc[p].found[t]
            /\ proc' = [proc EXCEPT ![p].todo = @ \ {t},
                                    ![p].pc = IF proc[p].todo = {t} THEN "extract" ELSE @]
    /\ UNCHANGED <<config, dirs, output, runs, seen>>

\* The copies are extracted, the trees and the versions of the binaries compared.
Extract(p) ==
    /\ proc[p].pc = "extract"
    /\ \/ Fail(p)
       \/ StageThere(p) /\ Step(p, "verified")
    /\ UNCHANGED <<config, dirs, output, runs, seen>>

------------------------------------------------------------------------------
\* verifyGoReleaseReproducibility: two builds, archived and verified in directories of their own.

\* What the tools make of the sources, which may change between the builds.
Bytes == 1..2

\* selectTargets: by itself, or after a verification of the command.
StartReproduce(p) == \E targets \in (SUBSET Targets) \ {{}} : Begin(p, "first", targets, <<>>)
GoOnReproduce(p) ==
    /\ proc[p].pc = "verified"
    /\ proc' = [proc EXCEPT ![p].pc = "first", ![p].todo = Targets]
    /\ UNCHANGED <<config, dirs, output, runs, seen>>

ProduceRun(p) ==
    /\ proc[p].pc = "first"
    /\ \/ Fail(p)
       \/ Stageable /\ \E made \in [proc[p].todo -> Bytes] :
            proc' = [proc EXCEPT ![p].pc = "second", ![p].found = made]
    /\ UNCHANGED <<config, dirs, output, runs, seen>>

\* compareRuns: the second build, every archive of both.
CompareRuns(p) ==
    /\ proc[p].pc = "second"
    /\ \/ Fail(p)
       \/ \E made \in [proc[p].todo -> Bytes] :
            Step(p, IF made = proc[p].found THEN "reproduced" ELSE "failed")
    /\ UNCHANGED <<config, dirs, output, runs, seen>>

------------------------------------------------------------------------------
\* The builds that have moved the output away.
Swapping == {p \in Process : proc[p].pc \in {"place", "restore"} /\ proc[p].old # 0}

Killed(p) ==
    /\ proc[p].pc \notin Ended /\ Fail(p)
    /\ seen' = [seen EXCEPT !.lost = @ \/ (p \in Swapping /\ output = 0)]
    /\ UNCHANGED <<config, dirs, output, runs>>

Next ==
    \E p \in Process :
        \/ StartBuild(p) \/ CompileTarget(p) \/ Validate(p) \/ MoveAway(p) \/ Place(p)
        \/ Restore(p) \/ Clean(p) \/ Built(p)
        \/ StartArchives(p) \/ Stage(p) \/ Pack(p) \/ Hash(p) \/ StartChecksums(p) \/ WriteSums(p)
        \/ StartVerify(p) \/ Snapshot(p) \/ Extract(p)
        \/ StartReproduce(p) \/ GoOnReproduce(p) \/ ProduceRun(p) \/ CompareRuns(p) \/ Killed(p)

Spec == Init /\ [][Next]_vars

------------------------------------------------------------------------------
\* Properties

\* Whatever is killed and fails, and however builds meet, the output directory holds a usable binary
\* of every target that its build selected.  build.ts validateStagedTree, replaceOutput
OutputIsWhole ==
    output # 0 => DOMAIN Out.built # {} /\ \A t \in DOMAIN Out.built : Out.built[t]

\* Once a build has placed an output, it is missing only while a build has moved it away, or after
\* one was killed or failed twice in between.  build.ts replaceOutput
OutputStays == seen.placed /\ output = 0 => Swapping # {} \/ seen.lost

\* A verified release is of one build, unless a build replaced the output while an archive was packed.
\* archive.ts createTargetArchive, verify.ts verifyGoRelease
VerifiedIsOneBuild ==
    \A p \in Process : proc[p].pc = "verified" /\ ~seen.raced =>
        \A t, u \in Targets : proc[p].found[t] = proc[p].found[u]

\* The managed output, and what verify says of it.
OutputStands == OutputIsWhole /\ OutputStays /\ VerifiedIsOneBuild
==============================================================================
