---------------------------- MODULE DockerPublish ----------------------------
(***************************************************************************)
(* docker-publish: a configuration file, completed by answers and narrowed *)
(* by filters, becomes a plan; the plan is built, pushed and verified.     *)
(* Builds, pushes and inspections run in pools of workers that switch at   *)
(* every call of docker.  The daemon and the registries are external: a    *)
(* call may fail with or without its effect, and others build and publish  *)
(* the same references.  The children of a process that is killed are not  *)
(* modelled.                                                               *)
(***************************************************************************)
EXTENDS Naturals, FiniteSets, Sequences, SequencesExt

CONSTANTS
    Files,       \* what configuration files say
    Answers,     \* what a user answers when asked
    Filters,     \* --image, --platform and --registry
    Operations,  \* the sets of --build, --push and --verify that are given
    Host,        \* the platforms of the host's daemon
    Known,       \* the platforms of the tables
    MaxRuns,     \* runs of the command
    MaxEvents    \* builds and pushes by others

IsList(s) == s \in Seq(Range(s))

\* A file has these fields; an answer has the lists that may be missing in it.
DockerAssumption ==
    /\ \A f \in Files :
         f = [images |-> f.images, registries |-> f.registries, tags |-> f.tags,
              platforms |-> f.platforms, custom |-> f.custom, export |-> f.export,
              workers |-> f.workers, auth |-> f.auth, manifest |-> f.manifest,
              verify |-> f.verify, strict |-> f.strict]
    /\ \A f \in Files \cup Answers :
         IsList(f.images) /\ IsList(f.registries) /\ IsList(f.tags) /\ IsList(f.platforms)
    /\ IsList(Host) /\ MaxEvents \in Nat
ASSUME AssumptionOfDocker == DockerAssumption

VARIABLES
    local,       \* the tags of the daemon
    registry,    \* the tags of the registries
    exports,     \* the layout at the place of each image
    manifest,    \* the digest manifest
    run,         \* the command
    pool,        \* its worker pool
    events,      \* builds and pushes by others that are left
    disturbed    \* history: references that others touched since the run began

vars == <<local, registry, exports, manifest, run, pool, events, disturbed>>
world == <<local, registry, exports, manifest>>

None == [by |-> 0]

------------------------------------------------------------------------------
\* From the file and the answers to a configuration

\* hasConfiguredList: what the file lists is not asked for.
Or(list, answer) == IF list # <<>> THEN list ELSE answer

ImagesAnswered(file, a) == Or(file.images, a.images)
RegistriesAnswered(file, a) == Or(file.registries, a.registries)
TagsAnswered(file, a) == Or(file.tags, a.tags)
PlatformsAnswered(file, a) == Or(file.platforms, a.platforms)

\* Unknown platforms are asked for again until the user allows them.
CustomAnswered(file, a) ==
    file.custom \/ (file.platforms = <<>> /\ Range(a.platforms) \ Known # {})

\* The export directory of the file stays when the answer is empty.
ExportAnswered(file, a) == file.export \/ (a.customize /\ a.export)

Answered(file, a) ==
    [file EXCEPT !.images = ImagesAnswered(file, a), !.registries = RegistriesAnswered(file, a),
                 !.tags = TagsAnswered(file, a), !.platforms = PlatformsAnswered(file, a),
                 !.custom = CustomAnswered(file, a), !.export = ExportAnswered(file, a)]

\* The file alone: without platforms, those of the host.
Defaulted(file) == [file EXCEPT !.platforms = Or(@, Host)]

------------------------------------------------------------------------------
\* The plan

\* formatImageReference: an image is named by the segments of its path.
Reference(image, r, tag) == [host |-> r.host, path |-> r.prefix \o image, tag |-> tag]

RefsIn(image, registries, tags) ==
    FlattenSeq([k \in 1..Len(registries) |->
                   [t \in 1..Len(tags) |-> Reference(image, registries[k], tags[t])]])
Refs(c, image) == RefsIn(image, c.registries, c.tags)
AllRefs(c) == FlattenSeq([i \in 1..Len(c.images) |-> Refs(c, c.images[i])])

Listed(list) == list # <<>> /\ IsInjective(list)

ImagesAccepted(c) == Listed(c.images) /\ IsInjective(AllRefs(c))
RegistriesAccepted(c) == Listed(c.registries)
TagsAccepted(c) == Listed(c.tags)
PlatformsAccepted(c) == Listed(c.platforms) /\ (c.custom \/ Range(c.platforms) \subseteq Known)

Accepted(c) ==
    RegistriesAccepted(c) /\ TagsAccepted(c) /\ PlatformsAccepted(c) /\ ImagesAccepted(c)

FilterAccepted(c, f) ==
    /\ f.images \subseteq Range(c.images)
    /\ f.platforms \subseteq Range(c.platforms)
    /\ f.hosts \subseteq {r.host : r \in Range(c.registries)}

\* selectNamed: what a filter leaves of a list, in its order.
Kept(list, wanted) ==
    FlattenSeq([k \in 1..Len(list) |-> IF list[k] \in wanted THEN <<list[k]>> ELSE <<>>])
Selected(list, wanted) == IF wanted = {} THEN list ELSE Kept(list, wanted)
SelectedRegistries(list, hosts) ==
    IF hosts = {} THEN list ELSE Kept(list, {r \in Range(list) : r.host \in hosts})

\* Fault for StaysWithinThePlan: the options that are run keep every registry.
Narrowed_Images(c, f) ==
    [c EXCEPT !.images = Selected(@, f.images), !.platforms = Selected(@, f.platforms)]

\* applyCliFilters: the options that build, publish and verify resolve again.
Narrowed(c, f) ==
    [c EXCEPT !.images = Selected(@, f.images), !.platforms = Selected(@, f.platforms),
              !.registries = SelectedRegistries(@, f.hosts)]

\* deriveFilteredPlan: the references that the user is shown.
Shown(c, f) ==
    UNION {Range(RefsIn(i, SelectedRegistries(c.registries, f.hosts), c.tags)) :
              i \in {i \in Range(c.images) : f.images = {} \/ i \in f.images}}

Multi(c) == Len(c.platforms) > 1

------------------------------------------------------------------------------
\* The pool of workers (runWithConcurrency)

NoPool == [todo |-> <<>>, busy |-> {}, failed |-> FALSE]
Pool(items) == [NoPool EXCEPT !.todo = items]

Idle == [pc |-> "idle", id |-> 0, conf |-> <<>>, shown |-> {}, ask |-> FALSE, ops |-> {},
         logins |-> <<>>, result |-> <<>>]

Limit == CASE run.pc = "build" -> run.conf.workers
           [] run.pc = "publish" -> run.conf.workers
           [] run.pc = "verify" -> 4

\* No item is begun after a failure.
CanTake ==
    /\ run.pc \in {"build", "publish", "verify"}
    /\ ~pool.failed /\ pool.todo # <<>> /\ Cardinality(pool.busy) < Limit
Take(task) == pool' = [pool EXCEPT !.todo = Tail(@), !.busy = @ \cup {task}]

GoOn(t, task) == pool' = [pool EXCEPT !.busy = (@ \ {t}) \cup {task}]
Done(t) == pool' = [pool EXCEPT !.busy = @ \ {t}]
Fails(t) == pool' = [pool EXCEPT !.busy = @ \ {t}, !.failed = TRUE]

\* Fault for StaysWithinThePlan: the first error rejects at once.
Settled_AtOnce == pool.failed \/ (pool.busy = {} /\ pool.todo = <<>>)

Settled == pool.busy = {} /\ (pool.failed \/ pool.todo = <<>>)

------------------------------------------------------------------------------
\* The command

Ended == run.pc \in {"idle", "ok", "failed"}

\* Every reference that any file or answer may name.
Config == {Defaulted(f) : f \in Files} \cup {Answered(f, a) : f \in Files, a \in Answers}
Ref == UNION {Range(AllRefs(c)) : c \in Config}
Image == UNION {Range(c.images) : c \in Config}

Init ==
    /\ local = [r \in Ref |-> None] /\ registry = [r \in Ref |-> None]
    /\ exports = [i \in Image |-> None] /\ manifest = {}
    /\ run = Idle /\ pool = NoPool
    /\ events = MaxEvents /\ disturbed = {}

Goto(pc) == run' = [run EXCEPT !.pc = pc]
Quiet == UNCHANGED <<world, events, disturbed>>

\* What follows the operation o.
After(o) ==
    IF o = "start" /\ "build" \in run.ops THEN "build"
    ELSE IF o \in {"start", "build"} /\ "push" \in run.ops THEN "credentials"
    ELSE IF o # "verify" /\ "verify" \in run.ops THEN "expect"
    ELSE "ok"

\* Without a selection a run builds and pushes.
Selection(ops) == IF ops = {} THEN {"build", "push"} ELSE ops

\* main: the file is loaded and completed, the plan resolved and narrowed.
Start ==
    /\ Ended /\ pool.busy = {} /\ run.id < MaxRuns
    /\ \E file \in Files, a \in Answers, f \in Filters, ask, paths \in BOOLEAN, ops \in Operations :
         LET c == IF ask THEN Answered(file, a) ELSE Defaulted(file)
             begun == [Idle EXCEPT !.id = run.id + 1]
         IN  IF paths /\ Accepted(c) /\ FilterAccepted(c, f)
             THEN run' = [begun EXCEPT !.pc = IF ask THEN "ask" ELSE "start", !.conf = Narrowed(c, f),
                                       !.shown = Shown(c, f), !.ask = ask, !.ops = Selection(ops)]
             ELSE run' = [begun EXCEPT !.pc = "failed"]
    /\ pool' = NoPool /\ disturbed' = {} /\ UNCHANGED <<world, events>>

\* The registries of the plan; the user enters credentials for each, or they are in the environment.
Hosts == {r.host : r \in Range(run.conf.registries)}

\* The user enters credentials if something is pushed, sees the plan, and goes on or not.
Ask ==
    /\ run.pc = "ask"
    /\ \/ Goto("failed")
       \/ "push" \in run.ops /\ run' = [run EXCEPT !.pc = "login", !.logins = SetToSeq(Hosts)]
       \/ "push" \notin run.ops /\ Goto("start")
    /\ UNCHANGED pool /\ Quiet

\* Logins, one registry after the other; a failure ends the run.
Login ==
    /\ run.pc = "login"
    /\ IF run.logins = <<>> THEN Goto(IF run.ask THEN "start" ELSE "push")
       ELSE Goto("failed") \/ run' = [run EXCEPT !.logins = Tail(@)]
    /\ UNCHANGED pool /\ Quiet

Begin ==
    /\ run.pc = "start" /\ Goto(After("start"))
    /\ pool' = IF After("start") = "build" THEN Pool(run.conf.images) ELSE pool
    /\ Quiet

\* publishDockerImages refuses an export and reads the credentials of the registries that it
\* pushes to, unless the user gave them.
Credentials ==
    /\ run.pc = "credentials"
    /\ CASE run.conf.export -> Goto("failed")
         [] ~run.conf.export /\ run.ask -> Goto("push")
         [] OTHER -> \/ run.conf.auth # {} /\ Goto("failed")
                     \/ run' = [run EXCEPT !.pc = "login", !.logins = SetToSeq(run.conf.auth \cap Hosts)]
    /\ UNCHANGED pool /\ Quiet

BeginPush ==
    /\ run.pc = "push" /\ Goto("publish") /\ pool' = Pool(AllRefs(run.conf))
    /\ Quiet

\* A worker takes the next image or reference.
Begun == [build |-> IF run.conf.export THEN "export" ELSE "build", publish |-> "push", verify |-> "verify"]
StartTask ==
    /\ CanTake
    /\ Take([step |-> Begun[run.pc], on |-> Head(pool.todo), temp |-> run.conf.export, digest |-> None])
    /\ UNCHANGED run /\ Quiet

\* Every worker is done: the operation ends.
PoolEnds ==
    /\ run.pc \in {"build", "publish", "verify"} /\ Settled
    /\ Goto(CASE pool.failed -> "failed"
              [] ~pool.failed /\ run.pc = "publish" -> "manifest"
              [] OTHER -> After(run.pc))
    /\ UNCHANGED pool /\ Quiet

------------------------------------------------------------------------------
\* One image: build, look for its tags, remove them when something failed

Content(image) == [by |-> run.id, name |-> image, multi |-> Multi(run.conf)]
Retag(image, c) == [r \in Ref |-> IF r \in Range(Refs(run.conf, image)) THEN c ELSE local[r]]

\* runBuild: docker tags the image, or keeps one of several platforms for itself; it may do so
\* and fail.
BuildImage(t) ==
    /\ t.step = "build"
    /\ \E tagged, ok \in BOOLEAN :
         /\ ok => tagged \/ Multi(run.conf)
         /\ local' = IF tagged THEN Retag(t.on, Content(t.on)) ELSE local
         /\ GoOn(t, [t EXCEPT !.step = IF ok THEN "check" ELSE "untag"])
    /\ UNCHANGED <<registry, exports, manifest, run, events, disturbed>>

\* verifyLocalImages: every reference of the image has a tag.
CheckTags(t) ==
    /\ t.step = "check"
    /\ \/ /\ Multi(run.conf) \/ \A r \in Range(Refs(run.conf, t.on)) : local[r] # None
          /\ Done(t)
       \/ ~Multi(run.conf) /\ GoOn(t, [t EXCEPT !.step = "untag"])
    /\ UNCHANGED run /\ Quiet

\* untagImage: docker rmi of every reference; its failure is not reported.
Untag(t) ==
    /\ t.step = "untag" /\ Fails(t)
    /\ local' \in {local, Retag(t.on, None)}
    /\ UNCHANGED <<registry, exports, manifest, run, events, disturbed>>

\* Fault for ResultStands: index.json is not read back.
LayoutAccepted_Always(valid) == TRUE

LayoutAccepted(valid) == valid

\* The directory of an image lies in the directory of every image whose name its name extends.
Inside(i, image) == IsPrefix(image, i)
TempsAfter(t) ==
    {IF Inside(u.on, t.on) THEN [u EXCEPT !.temp = FALSE] ELSE u : u \in pool.busy \ {t}}

\* buildOneImageExport: the layout is built in a directory of its own. In one step, then, the old
\* one goes, with all that lies inside of it, the new one takes its place and is read.
ExportImage(t) ==
    /\ t.step = "export"
    /\ \/ Fails(t) /\ UNCHANGED exports
       \/ \E valid \in BOOLEAN :
            /\ exports' = [i \in Image |->
                   IF i = t.on /\ t.temp THEN [by |-> run.id, valid |-> valid]
                   ELSE IF Inside(i, t.on) THEN None ELSE exports[i]]
            /\ pool' = [pool EXCEPT !.busy = TempsAfter(t),
                                    !.failed = @ \/ ~t.temp \/ ~LayoutAccepted(valid)]
    /\ UNCHANGED <<local, registry, manifest, run, events, disturbed>>

------------------------------------------------------------------------------
\* One reference: push it, ask the registry for its digest

\* The digest in the output of docker push, if it is there; and the one that the registry tells.
PushDigests(r) == {None, local[r]}
InspectDigests(r) == {None, registry[r]}

\* capturePush; the output may lack the digest, and a push may fail after it took effect.
Push(t) ==
    /\ t.step = "push"
    /\ \/ Fails(t) /\ UNCHANGED registry
       \/ /\ local[t.on] # None
          /\ registry' = [registry EXCEPT ![t.on] = local[t.on]]
          /\ \/ Fails(t)
             \/ \E d \in PushDigests(t.on) : GoOn(t, [t EXCEPT !.step = "inspect", !.digest = d])
    /\ UNCHANGED <<local, exports, manifest, run, events, disturbed>>

\* resolveDigest
DigestAgrees(pushed, seen) ==
    /\ pushed # None \/ seen # None
    /\ pushed # None /\ seen # None => pushed = seen

Inspect(t) ==
    /\ t.step = "inspect"
    /\ \/ Fails(t) /\ UNCHANGED run
       \/ \E seen \in InspectDigests(t.on) :
            /\ DigestAgrees(t.digest, seen)
            /\ run' = [run EXCEPT !.result =
                          Append(@, <<t.on, IF t.digest # None THEN t.digest ELSE seen>>)]
            /\ Done(t)
    /\ Quiet

\* writeDigestManifest: a new file takes the place of the old one, or nothing happens.
WriteManifest ==
    /\ run.pc = "manifest"
    /\ \/ Goto(After("publish")) /\ manifest' = IF run.conf.manifest THEN Range(run.result) ELSE manifest
       \/ run.conf.manifest /\ Goto("failed") /\ UNCHANGED manifest
    /\ UNCHANGED <<local, registry, exports, pool, events, disturbed>>

------------------------------------------------------------------------------
\* Verification

\* The digests that are expected: what was pushed, or what the caller kept of an earlier run.
Expected == IF "push" \in run.ops THEN Range(run.result) ELSE manifest
AllExpected == \A r \in Range(AllRefs(run.conf)) : \E e \in Expected : e[1] = r

BeginVerify ==
    /\ run.pc = "expect"
    /\ IF run.conf.verify /\ AllExpected
       THEN Goto("verify") /\ pool' = Pool(AllRefs(run.conf))
       ELSE Goto("failed") /\ UNCHANGED pool
    /\ Quiet

\* assertExactPlatformSet, on the platforms that the manifest lists
PlatformsMatch(r) == registry[r] # None /\ registry[r].multi = Multi(run.conf)

\* verifyOneReference: the digest matters unless the plan does not require it.
Verified(r) == PlatformsMatch(r) /\ (run.conf.strict => <<r, registry[r]>> \in Expected)

VerifyRef(t) ==
    /\ t.step = "verify"
    /\ Fails(t) \/ (Verified(t.on) /\ Done(t))
    /\ UNCHANGED run /\ Quiet

------------------------------------------------------------------------------
\* Others build and publish the same references

Others == [by |-> MaxRuns + 1, name |-> <<>>, multi |-> FALSE]
OthersAct(r) ==
    /\ events > 0 /\ events' = events - 1 /\ disturbed' = disturbed \cup {r}
    /\ \/ local' = [local EXCEPT ![r] = Others] /\ UNCHANGED registry
       \/ registry' = [registry EXCEPT ![r] = Others] /\ UNCHANGED local
    /\ UNCHANGED <<exports, manifest, run, pool>>

Worker == \E t \in pool.busy :
    \/ BuildImage(t) \/ CheckTags(t) \/ Untag(t) \/ ExportImage(t)
    \/ Push(t) \/ Inspect(t) \/ VerifyRef(t)

Next ==
    \/ Start \/ Ask \/ Login \/ Begin \/ Credentials \/ BeginPush \/ StartTask \/ PoolEnds
    \/ WriteManifest \/ BeginVerify \/ Worker
    \/ \E r \in Ref : OthersAct(r)

Spec == Init /\ [][Next]_vars

------------------------------------------------------------------------------
\* Properties

\* The image of the plan that has the reference r.
Owner(r) == CHOOSE i \in Range(run.conf.images) : r \in Range(Refs(run.conf, i))

\* A run that reports success has published what it says, unless another touched the reference
\* meanwhile: what it built for one platform is what the registry has; the manifest has the digests
\* of what the registry has; and what it verified has the planned platforms and the expected digest.
\* publish.ts publishDockerImages, resolveDigest; plan.ts resolveImages; verify.ts verifyOneReference
SuccessIsPublished ==
    run.pc = "ok" =>
    \A r \in Range(AllRefs(run.conf)) \ disturbed :
        /\ {"build", "push"} \subseteq run.ops /\ ~Multi(run.conf) => registry[r] = Content(Owner(r))
        /\ "push" \in run.ops => <<r, registry[r]>> \in Range(run.result)
        /\ "push" \in run.ops /\ run.conf.manifest => <<r, registry[r]>> \in manifest
        /\ "verify" \in run.ops => registry[r].multi = Multi(run.conf)
        /\ "verify" \in run.ops /\ run.conf.strict => <<r, registry[r]>> \in Expected

\* A run changes in a registry only references that are in the plan that the user was shown, and after
\* its end it changes nothing.  cli-filter.ts derives the plan that is shown, and the options that are
\* run, on their own; runner.ts runWithConcurrency waits for the calls in flight when one fails.
WithinThePlan ==
    /\ \A r \in Ref : registry'[r] # registry[r] /\ events' = events => r \in run.shown
    /\ Ended /\ run' = run /\ events' = events => UNCHANGED world
StaysWithinThePlan == [][WithinThePlan]_vars

\* A run that exports and reports success leaves a valid layout of its own for every image, but for
\* those whose directory lies inside that of another image of the plan.
\* build.ts buildOneImageExport
ExportsStand ==
    run.pc = "ok" /\ run.conf.export /\ "build" \in run.ops =>
    \A i \in Range(run.conf.images) :
        \/ exports[i] = [by |-> run.id, valid |-> TRUE]
        \/ \E j \in Range(run.conf.images) \ {i} : Inside(i, j)

\* The result of a run that reports success.
ResultStands == SuccessIsPublished /\ ExportsStand
==============================================================================
