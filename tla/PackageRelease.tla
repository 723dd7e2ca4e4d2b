---------------------------- MODULE PackageRelease ----------------------------
(***************************************************************************)
(* publish-packages and publish-package: the packages of a workspace are   *)
(* put in the order of their dependencies and selected; each is built,     *)
(* staged, given its manifest and published under each of its names.  npm  *)
(* and the hooks are external: a call may fail with or without its effect, *)
(* a version is published once, and others publish too.  A run may end     *)
(* anywhere and be followed by another one.                                *)
(***************************************************************************)
EXTENDS Naturals, FiniteSets, Sequences, SequencesExt

CONSTANTS
    Workspaces,    \* workspaces: sequences of packages in the order of their names
    Options,       \* --skip-build, --preserve-publish-dir, --dry-run, --prepare-only
    MaxVersion,
    MaxRuns,
    MaxOthers      \* publications by others

\* A workspace is a list of packages, a package has these fields, and lists of names and recipes.
PackageFields == {"name", "additional", "ranges", "dev", "private", "placeholder", "recipes"}
PackageAssumption ==
    /\ \A w \in Workspaces :
         /\ w \in Seq(Range(w))
         /\ \A i \in DOMAIN w : /\ DOMAIN w[i] = PackageFields
                               /\ w[i].additional \in Seq(Range(w[i].additional))
                               /\ w[i].recipes \in Seq(Range(w[i].recipes))
    /\ \A o \in Options : DOMAIN o = {"skip", "keep", "dry", "only"}
    /\ MaxVersion \in Nat

VARIABLES
    workspace,     \* the packages on the disk
    npm,           \* what the registry has
    latest,        \* its tag "latest" for each name
    output,        \* the publish directory of each package: the run that built it, or 0
    staged,        \* the stage directories that are not empty
    temps,         \* the temporary staging directories
    run,           \* the command
    others         \* publications by others that are left

vars == <<workspace, npm, latest, output, staged, temps, run, others>>
disk == <<output, staged, temps>>

Version == 1..MaxVersion
Packages == Range(workspace)

------------------------------------------------------------------------------
\* The workspace

\* resolvePackageNames: an additional name is a further package with the same content.
Names_First(p) == <<p.name>>
Names(p) == <<p.name>> \o p.additional

AllNames == UNION {Range(Names(p)) \cup {r.name : r \in Range(p.recipes)} : p \in UNION {Range(w) : w \in Workspaces}}

InternalNames == {p.name : p \in Packages}

\* discoverPackages
Discovered ==
    /\ \A p \in Packages : ~p.private
    /\ Cardinality(InternalNames) = Len(workspace)

\* getInternalDependencies: those of the build too.
Dependencies(p) == {d \in InternalNames : d \in DOMAIN p.ranges \cup p.dev}

Needs(i) == {j \in DOMAIN workspace : workspace[j].name \in Dependencies(workspace[i])}

\* visit, one call or return at a time; a package is its place in the order of the names. Of what is
\* left to visit, the first: a dependency of the package that is being visited, or any package. The
\* package is ordered after its dependencies; one that is being visited already is a cycle.
First(rest) == CHOOSE i \in rest : \A j \in rest : i <= j
Visit(w) ==
    LET top == w.visiting[Len(w.visiting)]
        rest == (IF w.visiting = <<>> THEN DOMAIN workspace ELSE Needs(top)) \ Range(w.ordered)
    IN  IF rest # {}
        THEN IF First(rest) \in Range(w.visiting) THEN [w EXCEPT !.cyclic = TRUE]
             ELSE [w EXCEPT !.visiting = Append(@, First(rest))]
        ELSE IF w.visiting = <<>> THEN w
        ELSE [w EXCEPT !.visiting = SubSeq(@, 1, Len(@) - 1), !.ordered = Append(@, top)]

\* Every package is visited and left once.
Unvisited == [visiting |-> <<>>, ordered |-> <<>>, cyclic |-> FALSE]
Visits[n \in 0..2 * Len(workspace)] == IF n = 0 THEN Unvisited ELSE Visit(Visits[n - 1])
Visited == Visits[2 * Len(workspace)]
Cyclic == Visited.cyclic

\* Fault for ReleaseStands: the packages in the order of their names.
Ordered_ByName == workspace

\* sortPackagesByInternalDependencies
Ordered == LET places == Visited.ordered IN [i \in DOMAIN places |-> workspace[places[i]]]

\* selectPackages: the filters, then the rest from one of them on.
Filtered(filters) ==
    LET list == Ordered
        kept(p) == filters = {} \/ p.name \in filters
    IN  FlattenSeq([k \in 1..Len(list) |-> IF kept(list[k]) THEN <<list[k]>> ELSE <<>>])
From(list, name) ==
    IF name = "none" THEN list
    ELSE SubSeq(list, CHOOSE i \in DOMAIN list : list[i].name = name, Len(list))

------------------------------------------------------------------------------
\* Versions and manifests

\* resolveRegistryBumpVersion: the next version, or the first if the package is absent.
Bumped(name) == latest[name] + 1

\* resolveVersion: there must be one.
VersionAccepted(v) == v # 0

\* rewriteVersionValue: a range of the workspace becomes the version of the release, if the package
\* it names is one of the workspace. 0 stands for every other range.
Rewritten(name, range, version, internal) ==
    IF range = "placeholder" \/ (range = "workspace" /\ name \in internal) THEN version ELSE 0

\* createPublishPackageJson: the ranges of a published manifest.
Ranges(p, version, internal) ==
    [d \in DOMAIN p.ranges |-> Rewritten(d, p.ranges[d], version, internal)]

\* validatePublishManifestFields: no range of the workspace is left.
ManifestAccepted(p, internal) == \A d \in DOMAIN p.ranges : p.ranges[d] = "workspace" => d \in internal

\* resolveArtifacts: without recipes, one artifact under every name of the package.
ArtifactsAccepted(p) ==
    /\ p.recipes # <<>> => p.additional = <<>>
    /\ \A i, j \in DOMAIN p.recipes : i # j =>
         /\ p.recipes[i].name # p.recipes[j].name
         /\ p.recipes[i].stage # p.recipes[j].stage

\* resolvePublishPackagePlan; a private package may be a template.
Planned(p, v, template) ==
    /\ ~p.private \/ template
    /\ VersionAccepted(v) /\ ArtifactsAccepted(p)

------------------------------------------------------------------------------
\* The command

Idle == [pc |-> "idle", id |-> 0, version |-> 0, queue |-> <<>>, done |-> {}, ready |-> <<>>,
         internal |-> {}, options |-> [skip |-> FALSE, keep |-> FALSE, dry |-> FALSE, only |-> FALSE],
         loose |-> FALSE]

Init ==
    /\ workspace \in Workspaces
    /\ npm = {} /\ latest = [n \in AllNames |-> 0]
    /\ output = [n \in InternalNames |-> 0] /\ staged = {} /\ temps = {}
    /\ run = Idle /\ others = MaxOthers

Ended == run.pc \in {"idle", "ok", "failed"}
Published(name, version) == \E e \in npm : e.name = name /\ e.version = version

\* publishPackages: every package is planned before the first is published.
StartAll ==
    /\ Ended /\ run.id < MaxRuns
    /\ \E v \in Version, o \in Options, filters \in {{}} \cup {{p.name} : p \in Packages},
          from \in {"none"} \cup InternalNames :
         LET list == From(Filtered(filters), from)
             skipped == Packages \ Range(list)
         IN  IF /\ Discovered /\ ~Cyclic
                /\ from = "none" \/ from \in {p.name : p \in Range(Filtered(filters))}
                /\ list # <<>>
                /\ \A p \in Range(list) : Planned([p EXCEPT !.recipes = <<>>], v, FALSE)
             THEN run' = [Idle EXCEPT !.pc = "prepare", !.id = run.id + 1, !.version = v,
                              !.options = [o EXCEPT !.only = FALSE],
                              !.queue = [i \in DOMAIN list |-> [list[i] EXCEPT !.recipes = <<>>]],
                              !.internal = InternalNames,
                              !.loose = \E p \in skipped : ~Published(p.name, v)]
             ELSE run' = [Idle EXCEPT !.pc = "failed", !.id = run.id + 1]
    /\ UNCHANGED <<workspace, npm, latest, disk, others>>

\* publishPackage on one package. The version is the next of the registry, if it answers, or it is
\* given, or in the manifest.
ChosenVersion(p, bump, v) ==
    CASE bump -> Bumped(p.name)
      [] ~bump /\ v = 0 /\ ~p.placeholder -> 1
      [] OTHER -> v
StartOne ==
    /\ Ended /\ run.id < MaxRuns
    /\ \E p \in Packages, bump, answered, template \in BOOLEAN, v \in {0} \cup Version,
          o \in Options, internal \in {{}, InternalNames} :
         LET version == ChosenVersion(p, bump, v)
         IN  /\ version <= MaxVersion
             /\ IF answered /\ Planned(p, version, template)
                THEN run' = [Idle EXCEPT !.pc = "prepare", !.id = run.id + 1, !.version = version,
                                 !.options = o, !.queue = <<p>>,
                                 !.internal = internal, !.loose = TRUE]
                ELSE run' = [Idle EXCEPT !.pc = "failed", !.id = run.id + 1]
    /\ UNCHANGED <<workspace, npm, latest, disk, others>>

\* The package that is worked on, and its manifest.
Current == Head(run.queue)
Made == Ranges(Current, run.version, run.internal)

\* What is published under one name, and from where.
Entry(name, by) == [name |-> name, by |-> by]

\* cleanupTemporaryStaging, unless the directory is what the caller asked for.
Cleaned == IF run.options.only THEN temps ELSE temps \ {run.id}
Fail == run' = [run EXCEPT !.pc = "failed"] /\ temps' = Cleaned

AllReady == IF Current.recipes = <<>> THEN run.ready # <<>> ELSE Len(run.ready) = Len(Current.recipes)

\* prepareImplicitArtifact: build, manifest, copies. In place, a missing directory is made; a
\* layout that keeps the directory is put together elsewhere and needs one.
PrepareImplicit ==
    /\ run.pc = "prepare" /\ Current.recipes = <<>> /\ ~AllReady
    /\ \E built, ok \in BOOLEAN :
         /\ run.options.skip => ~built
         /\ output' = IF built THEN [output EXCEPT ![Current.name] = run.id] ELSE output
         /\ IF /\ ok /\ (built \/ run.options.skip)
               /\ ManifestAccepted(Current, run.internal)
               /\ run.options.keep => output'[Current.name] # 0
            THEN /\ run' = [run EXCEPT !.ready =
                       [i \in 1..Len(Names(Current)) |-> Entry(Names(Current)[i], output'[Current.name])]]
                 /\ temps' = IF run.options.keep THEN temps \cup {run.id} ELSE temps
            ELSE Fail
    /\ UNCHANGED <<workspace, npm, latest, staged, others>>

\* prepareRecipeArtifact: the stage must be empty; the hooks, the copies, the overlay or npm pack
\* may fail after it is not.
PrepareRecipe ==
    /\ run.pc = "prepare" /\ Current.recipes # <<>> /\ ~AllReady
    /\ LET r == Current.recipes[Len(run.ready) + 1]
       IN  IF r.stage \in staged THEN Fail /\ UNCHANGED staged
           ELSE /\ staged' = staged \cup {r.stage}
                /\ \/ Fail
                   \/ /\ ManifestAccepted(Current, run.internal)
                      /\ run' = [run EXCEPT !.ready = Append(@, Entry(r.name, run.id))]
                      /\ UNCHANGED temps
    /\ UNCHANGED <<workspace, npm, latest, output, others>>

Publishing ==
    /\ run.pc = "prepare" /\ AllReady
    /\ run' = [run EXCEPT !.pc = "publish"]
    /\ UNCHANGED <<workspace, npm, latest, disk, others>>

\* npm publish: a version of a name is taken once; the tag follows.
Accept(e, version) ==
    /\ npm' = npm \cup {[name |-> e.name, version |-> version, by |-> run.id, built |-> e.by,
                         ranges |-> Made, loose |-> run.loose]}
    /\ latest' = [latest EXCEPT ![e.name] = version]

\* runNpmPublish, for the next name: the manifest in place gets the name first.
PublishNext ==
    /\ run.pc = "publish" /\ run.ready # <<>>
    /\ LET e == Head(run.ready)
           quiet == run.options.only \/ run.options.dry
       IN  \/ /\ quiet
              /\ run' = [run EXCEPT !.ready = Tail(@)] /\ UNCHANGED <<npm, latest, temps>>
           \/ ~run.options.only /\ Fail /\ UNCHANGED <<npm, latest>>
           \/ /\ ~quiet /\ ~Published(e.name, run.version) /\ Accept(e, run.version)
              /\ Fail \/ (run' = [run EXCEPT !.ready = Tail(@)] /\ UNCHANGED temps)
    /\ UNCHANGED <<workspace, output, staged, others>>

\* The package is completed; the next one, or the end.
Complete ==
    /\ run.pc = "publish" /\ run.ready = <<>>
    /\ run' = [run EXCEPT !.done = @ \cup {Current}, !.queue = Tail(@),
                          !.pc = IF Len(run.queue) = 1 THEN "ok" ELSE "prepare"]
    /\ temps' = Cleaned
    /\ UNCHANGED <<workspace, npm, latest, output, staged, others>>

\* The process is killed.
Killed ==
    /\ ~Ended /\ run' = [run EXCEPT !.pc = "failed"]
    /\ UNCHANGED <<workspace, npm, latest, disk, others>>

\* The user empties a stage directory; another publishes the same package.
Emptied ==
    /\ Ended /\ \E s \in staged : staged' = staged \ {s}
    /\ UNCHANGED <<workspace, npm, latest, output, temps, run, others>>
OthersPublish ==
    /\ others > 0 /\ others' = others - 1
    /\ \E n \in AllNames, v \in Version :
         /\ ~Published(n, v)
         /\ npm' = npm \cup {[name |-> n, version |-> v, by |-> 0, built |-> 0, ranges |-> <<>>, loose |-> TRUE]}
         /\ latest' = [latest EXCEPT ![n] = v]
    /\ UNCHANGED <<workspace, disk, run>>

Next ==
    \/ StartAll \/ StartOne \/ PrepareImplicit \/ PrepareRecipe \/ Publishing \/ PublishNext \/ Complete
    \/ Killed \/ Emptied \/ OthersPublish

Spec == Init /\ [][Next]_vars

------------------------------------------------------------------------------
\* Properties

\* What npm has of a run over the workspace can be installed: every package of the workspace that
\* its manifest names by the version of the release is there, whatever run stopped where, and whatever run took
\* the release up again. Runs that leave out a package that is not published are excepted.
\* publish-packages index.ts sortPackagesByInternalDependencies, publishPackages
DependenciesFirst ==
    \A e \in npm : ~e.loose =>
        \A d \in DOMAIN e.ranges \cap InternalNames : e.ranges[d] # 0 => Published(d, e.ranges[d])

\* The packages that a run reports as completed are in npm under each of their names, from what
\* that run built or was told not to build; others cannot have taken a name in between.
\* publish-packages index.ts publishPackages, publish.ts publishPreparedArtifacts
CompletedIsPublished ==
    \A p \in run.done : ~run.options.dry /\ ~run.options.only =>
        \A n \in IF p.recipes = <<>> THEN {p.name} \cup Range(p.additional) ELSE {r.name : r \in Range(p.recipes)} :
            \E e \in npm : /\ e.name = n /\ e.version = run.version /\ e.by = run.id
                           /\ run.options.skip \/ e.built = run.id

\* What the registry has of a release, and what the command says of it.
ReleaseStands == DependenciesFirst /\ CompletedIsPublished
==============================================================================
