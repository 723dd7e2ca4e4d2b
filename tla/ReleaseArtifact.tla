---------------------------- MODULE ReleaseArtifact ----------------------------
(***************************************************************************)
(* release-artifact: the packages of a workspace become one archive with a *)
(* manifest and the dependencies of its commands; the archive is verified  *)
(* and installed.  One build at a time, several verifications and          *)
(* installations beside it; each may be killed anywhere, tar and pnpm may  *)
(* fail, and the workspace is rebuilt meanwhile.  A package is named by    *)
(* the number of its directory; an entry by the command it belongs to.     *)
(***************************************************************************)
EXTENDS Naturals, Sequences, Functions

CONSTANTS
    Workspaces,    \* workspaces: sequences of packages
    Builds,        \* [version, mode, modules, prune, files, excluded] of a build
    Client,        \* processes that verify or install
    MaxBuilds,
    MaxClients,    \* verifications and installations
    MaxEdits       \* changes of the workspace

\* A workspace is a list of packages, each with these fields.
PackageFields == {"name", "bins", "files", "deps", "scoped"}
ArtifactAssumption ==
    \A w \in Workspaces : w \in Seq(Range(w)) /\ \A d \in DOMAIN w : DOMAIN w[d] = PackageFields

VARIABLES
    workspace,
    tree,          \* the directory that the archive is made of
    archive,       \* for each version "absent", "partial" or "whole", and the tree in it
    build,         \* the build
    client,        \* the clients
    install,       \* the install path: "absent", "foreign", "broken" or "whole", and what was installed
    left           \* builds, clients and edits that are left

vars == <<workspace, tree, archive, build, client, install, left>>

Version == {b.version : b \in Builds}
Dirs == DOMAIN workspace

------------------------------------------------------------------------------
\* The plan

\* collectCommands: the names are unique, the entries are files of their package.
Commands == UNION {{[name |-> c, dir |-> d] : c \in workspace[d].bins} : d \in Dirs}
CommandsAccepted ==
    /\ Commands # {}
    /\ \A b, c \in Commands : b.name = c.name => b = c
    /\ \A c \in Commands : c.name \in workspace[c.dir].files

\* assertNoRootFileDestinationCollisions
Reserved == {"artifact-manifest.json", "bin", "packages", "node_modules", "package.json", "pnpm-workspace.yaml"}
RootFilesAccepted(files) ==
    /\ \A i, j \in DOMAIN files : files[i] = files[j] => i = j
    /\ Range(files) \cap Reserved = {}

\* resolveNodeModulesMode: the mode, or the two options that were there before it; "" and <<>> are unset.
LegacyMode(o) ==
    IF o.prune = <<TRUE>> THEN "production"
    ELSE IF o.modules = <<TRUE>> THEN "copy"
    ELSE IF <<FALSE>> \in {o.prune, o.modules} THEN "none"
    ELSE ""
ModeAccepted(o) == "" \in {o.mode, LegacyMode(o)} \/ o.mode = LegacyMode(o)
Mode(o) == IF o.mode # "" THEN o.mode ELSE IF LegacyMode(o) # "" THEN LegacyMode(o) ELSE "production"

\* Fault for ArtifactStands: the directory is told from the scope of the project.
InternalDir_Scoped(name) == {d \in Dirs : workspace[d].name = name /\ workspace[d].scoped}

\* resolveInternalPackageMap: the first directory that has the name.
InternalDir(name) ==
    {d \in Dirs : workspace[d].name = name /\ \A e \in 1..(d - 1) : workspace[e].name # name}

\* visit: the least set of directories that has these and, with a directory, what it needs at run time.
Closed(dirs) == \A d \in dirs : \A n \in DOMAIN workspace[d].deps : InternalDir(n) \subseteq dirs
Closure(dirs) == {d \in Dirs : \A s \in SUBSET Dirs : dirs \subseteq s /\ Closed(s) => d \in s}

\* collectCommandPackageClosure
CommandDirs == Closure({c.dir : c \in Commands})

\* parseSemverRange: what is understood of a range; "odd" is every other.
Parsed(r) == r.op \in {"exact", "gte", "caret", "tilde"}
\* The order of the strings: a digit is before ">", "^" and "~", in this order.
Rank == [exact |-> 0, gte |-> 1, caret |-> 2, tilde |-> 3, workspace |-> 4, odd |-> 5]
Before(r, s) ==
    \/ Rank[r.op] < Rank[s.op]
    \/ Rank[r.op] = Rank[s.op] /\ r.major < s.major
    \/ Rank[r.op] = Rank[s.op] /\ r.major = s.major /\ r.minor <= s.minor

\* intersectSemverRanges: the least string of them, if they are of one kind and one major version.
Intersectable(ranges) ==
    \/ \A r \in ranges : r.op = "workspace"
    \/ /\ \A r \in ranges : Parsed(r)
       /\ \A r, s \in ranges : r.major = s.major
Intersection(ranges) ==
    CHOOSE r \in ranges : \A s \in ranges : Before(r, s)

\* mergeClosureDependencies
Asked(dirs, dep) == {workspace[d].deps[dep] : d \in {d \in dirs : dep \in DOMAIN workspace[d].deps}}
AskedFor(dirs) == UNION {DOMAIN workspace[d].deps : d \in dirs}
Mergeable(dirs) ==
    \A dep \in AskedFor(dirs) :
        Intersectable(Asked(dirs, dep)) \/ \A r, s \in Asked(dirs, dep) : r = s
Merged(dirs) == [dep \in AskedFor(dirs) |-> Intersection(Asked(dirs, dep))]

\* createArtifactManifest: what is required of the archive.
Required(commands) == commands

------------------------------------------------------------------------------
\* What an archive promises

\* Some packages of an archive have, for each of them, one of every name that it needs and the
\* archive has.
Serves(packages, dirs) ==
    \A d \in dirs, e \in DOMAIN packages :
        packages[e].name \in DOMAIN packages[d].deps => \E f \in dirs : packages[f].name = packages[e].name

\* A command starts if its entry is there and the packages it needs have their dependencies.
Boots(t, c) ==
    /\ c.name \in t.packages[c.dir].files
    /\ \E dirs \in SUBSET DOMAIN t.packages :
         /\ c.dir \in dirs /\ Serves(t.packages, dirs)
         /\ \A d \in dirs : t.packages[d].deps = <<>> \/ d \in t.modules

\* resolveInstallRoot: the one directory has the name of the version.
InstallRoot(t, version) == t.version = version

\* Fault for ArtifactStands: the manifest is read, the files it requires are not looked for.
ManifestAccepted_Names(t, version) == t.version = version /\ t.manifest # {}

\* parseArtifactManifest and the required files.
ManifestAccepted(t, version) ==
    /\ t.version = version /\ t.manifest # {}
    /\ \A c \in t.manifest : c.name \in t.packages[c.dir].files

\* verifyExtractedArtifact: the wrappers are run unless that is skipped.
Verified(t, version, skip) ==
    /\ InstallRoot(t, version) /\ ManifestAccepted(t, version)
    /\ skip \/ \A c \in t.manifest : Boots(t, c)

------------------------------------------------------------------------------
\* The build

NoTree == [version |-> 0, packages |-> <<>>, modules |-> {}, root |-> <<>>, manifest |-> {}]
Holds(state) == [state |-> state, tree |-> NoTree]
NoBuild == [pc |-> "idle", opt |-> CHOOSE b \in Builds : TRUE, commands |-> {}, dirs |-> {}]
NoClient == [pc |-> "idle", op |-> "verify", version |-> 0, skip |-> FALSE, force |-> FALSE, temp |-> NoTree]

Init ==
    /\ workspace \in Workspaces
    /\ tree = NoTree /\ archive = [v \in Version |-> Holds("absent")]
    /\ build = NoBuild /\ client = [c \in Client |-> NoClient]
    /\ install \in {Holds("absent"), Holds("foreign")}
    /\ left = [builds |-> MaxBuilds, clients |-> MaxClients, edits |-> MaxEdits]

BuildEnds(pc) == build' = [build EXCEPT !.pc = pc]

\* buildReleaseArtifact: the plan, then both outputs of an earlier build are removed.
StartBuild ==
    /\ build.pc \in {"idle", "done", "failed"} /\ left.builds > 0
    /\ left' = [left EXCEPT !.builds = @ - 1]
    /\ \E o \in Builds :
         IF CommandsAccepted /\ RootFilesAccepted(o.files) /\ ModeAccepted(o)
         THEN /\ build' = [pc |-> "copy", opt |-> [o EXCEPT !.mode = Mode(o)], commands |-> Commands, dirs |-> CommandDirs]
              /\ tree' = [NoTree EXCEPT !.version = o.version]
              /\ archive' = [archive EXCEPT ![o.version] = Holds("absent")]
         ELSE build' = [NoBuild EXCEPT !.pc = "failed"] /\ UNCHANGED <<tree, archive>>
    /\ UNCHANGED <<workspace, client, install>>

\* copyTree: what is not excluded.
Copied(p, excluded) == [p EXCEPT !.files = @ \ excluded]
\* copyRootFiles (one may be missing), then the packages.
CopyPackages ==
    /\ build.pc = "copy"
    /\ \/ BuildEnds("failed") /\ UNCHANGED tree
       \/ /\ tree' = [tree EXCEPT !.packages = [d \in Dirs |-> Copied(workspace[d], build.opt.excluded)]]
          /\ BuildEnds("modules")
    /\ UNCHANGED <<workspace, archive, client, install, left>>

\* installProductionNodeModules, or the modules of the project, or none.
InstallModules ==
    /\ build.pc = "modules"
    /\ \/ build.opt.mode = "production" /\ BuildEnds("failed") /\ UNCHANGED tree
       \/ /\ build.opt.mode = "production" => Mergeable(build.dirs)
          /\ tree' = [tree EXCEPT
                 !.root = IF build.opt.mode = "production" THEN Merged(build.dirs) ELSE <<>>,
                 !.modules = CASE build.opt.mode = "production" -> build.dirs
                               [] build.opt.mode = "copy" -> DOMAIN tree.packages
                               [] OTHER -> {}]
          /\ BuildEnds("manifest")
    /\ UNCHANGED <<workspace, archive, client, install, left>>

\* The wrappers and the manifest, then tar begins to write.
WriteManifest ==
    /\ build.pc = "manifest"
    /\ tree' = [tree EXCEPT !.manifest = Required(build.commands)]
    /\ archive' = [archive EXCEPT ![build.opt.version] = Holds("partial")]
    /\ BuildEnds("tar")
    /\ UNCHANGED <<workspace, client, install, left>>
PackArchive ==
    /\ build.pc = "tar"
    /\ \/ archive' = [archive EXCEPT ![build.opt.version] = [state |-> "whole", tree |-> tree]] /\ BuildEnds("done")
       \/ BuildEnds("failed") /\ UNCHANGED archive
    /\ UNCHANGED <<workspace, tree, client, install, left>>

BuildKilled ==
    /\ build.pc \in {"copy", "modules", "manifest", "tar"} /\ BuildEnds("failed")
    /\ UNCHANGED <<workspace, tree, archive, client, install, left>>

\* An entry of the workspace goes or comes back.
Edit ==
    /\ left.edits > 0 /\ left' = [left EXCEPT !.edits = @ - 1]
    /\ \E d \in Dirs, gone \in BOOLEAN :
         workspace' = [workspace EXCEPT ![d].files = IF gone THEN {} ELSE workspace[d].bins]
    /\ UNCHANGED <<tree, archive, build, client, install>>

------------------------------------------------------------------------------
\* The clients

Whole(v) == archive[v].state = "whole"
Step(c, pc) == client' = [client EXCEPT ![c].pc = pc]

\* verifyReleaseArtifact, and installReleaseArtifact: a directory that is not empty is not
\* replaced, unless that was asked for.
StartClient(c) ==
    /\ client[c].pc \in {"idle", "ok", "failed"} /\ left.clients > 0
    /\ left' = [left EXCEPT !.clients = @ - 1]
    /\ \E op \in {"verify", "install"}, v \in Version, skip, force \in BOOLEAN :
         /\ op = "verify" => ~force
         /\ client' = [client EXCEPT ![c] =
                [pc |-> IF archive[v].state = "absent" \/ (op = "install" /\ install.state # "absent" /\ ~force)
                        THEN "failed" ELSE "list",
                 op |-> op, version |-> v, skip |-> skip, force |-> force, temp |-> NoTree]]
    /\ UNCHANGED <<workspace, tree, archive, build, install>>

\* validateReleaseArchive: the members are listed before anything is extracted.
ListArchive(c) ==
    /\ client[c].pc = "list"
    /\ Step(c, IF Whole(client[c].version) THEN "extract" ELSE "failed")
    /\ UNCHANGED <<workspace, tree, archive, build, install, left>>

\* The archive is read again, into a directory beside the install path.
Extract(c) ==
    /\ client[c].pc = "extract"
    /\ client' = [client EXCEPT
           ![c].pc = IF Whole(client[c].version) THEN "check" ELSE "failed",
           ![c].temp = IF Whole(client[c].version) THEN archive[client[c].version].tree ELSE NoTree]
    /\ UNCHANGED <<workspace, tree, archive, build, install, left>>

Check(c) ==
    /\ client[c].pc = "check"
    /\ \/ Step(c, "failed")
       \/ /\ Verified(client[c].temp, client[c].version, client[c].skip)
          /\ Step(c, CASE client[c].op = "verify" -> "ok"
                       [] client[c].op = "install" /\ install.state = "absent" -> "rename"
                       [] OTHER -> "remove")
    /\ UNCHANGED <<workspace, tree, archive, build, install, left>>

\* rmIfExists on what is at the install path, entry by entry: it also takes what another client
\* moves there meanwhile, or part of it.
RemoveOld(c) ==
    /\ client[c].pc = "remove" /\ install' = Holds("broken") /\ Step(c, "removed")
    /\ UNCHANGED <<workspace, tree, archive, build, left>>
Removed(c) ==
    /\ client[c].pc = "removed"
    /\ install' \in IF install.state \in {"absent", "broken"}
                   THEN {Holds("absent")} ELSE {install, Holds("broken"), Holds("absent")}
    /\ Step(c, "rename")
    /\ UNCHANGED <<workspace, tree, archive, build, left>>

\* renameSync: it replaces nothing.
Rename(c) ==
    /\ client[c].pc = "rename"
    /\ IF install.state = "absent"
       THEN install' = [state |-> "whole", tree |-> client[c].temp] /\ Step(c, "ok")
       ELSE Step(c, "failed") /\ UNCHANGED install
    /\ UNCHANGED <<workspace, tree, archive, build, left>>

ClientKilled(c) ==
    /\ client[c].pc \notin {"idle", "ok", "failed"} /\ Step(c, "failed")
    /\ UNCHANGED <<workspace, tree, archive, build, install, left>>

Next ==
    \/ StartBuild \/ CopyPackages \/ InstallModules \/ WriteManifest \/ PackArchive \/ BuildKilled \/ Edit
    \/ \E c \in Client : \/ StartClient(c) \/ ListArchive(c) \/ Extract(c) \/ Check(c)
                         \/ RemoveOld(c) \/ Removed(c) \/ Rename(c) \/ ClientKilled(c)

Spec == Init /\ [][Next]_vars

------------------------------------------------------------------------------
\* Properties

\* What the packages that have their dependencies ask of one of them.
Ranges(t, dep) == {t.packages[d].deps[dep] : d \in {d \in t.modules : dep \in DOMAIN t.packages[d].deps}}
Agree(t) ==
    \A dep \in DOMAIN t.root : \A r, s \in Ranges(t, dep) :
        (r.op = "workspace" /\ s.op = "workspace") \/ r.major = s.major
IsClosed(t) ==
    t.root # <<>> => /\ \A c \in t.manifest : c.dir \in t.modules
                     /\ Serves(t.packages, t.modules) /\ Agree(t)

\* The archive of a production build has the dependencies of every package that one of its commands
\* reaches, by whatever names the packages have, and no dependency in it was asked for in two major
\* versions, or both as a package of the workspace and as a published one.
\* index.ts collectCommandPackageClosure, mergeClosureDependencies
BuiltIsClosed == \A v \in Version : Whole(v) => IsClosed(archive[v].tree)

\* Whatever is killed, rebuilt or installed beside it, what an installation leaves at the install
\* path has the entry of every command that its manifest names.
\* index.ts installReleaseArtifact
InstalledIsComplete ==
    install.state = "whole" =>
        /\ install.tree.manifest # {}
        /\ \A c \in install.tree.manifest : c.name \in install.tree.packages[c.dir].files

\* What a build packs and an installation leaves.
ArtifactStands == BuiltIsClosed /\ InstalledIsComplete
==============================================================================
