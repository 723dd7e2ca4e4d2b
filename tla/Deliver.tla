------------------------------- MODULE Deliver -------------------------------
(* The tools that build, pack and publish, beside each other: four parts that    *)
(* share no state.  A behaviour is of the part that `part` names, and leaves the  *)
(* variables of the others alone.                                                *)
EXTENDS DockerPublish

CONSTANTS
    Configs, Process, MaxBuildRuns,                                           \* of GoRelease,
    ArtifactWorkspaces, Builds, Client, MaxBuilds, MaxClients, MaxEdits,      \* ReleaseArtifact
    Workspaces, Options, MaxVersion, MaxReleases, MaxOthers                   \* and PackageRelease

VARIABLES
    part,
    config, dirs, output, proc, runs, seen,
    packages, tree, archive, build, client, install, left,
    workspace, npm, latest, published, staged, temps, release, others

goVars == <<config, dirs, output, proc, runs, seen>>
artifactVars == <<packages, tree, archive, build, client, install, left>>
packageVars == <<workspace, npm, latest, published, staged, temps, release, others>>
allVars == <<part, vars, goVars, artifactVars, packageVars>>

Go == INSTANCE GoRelease WITH MaxRuns <- MaxBuildRuns
Artifact == INSTANCE ReleaseArtifact WITH Workspaces <- ArtifactWorkspaces, workspace <- packages
Package == INSTANCE PackageRelease WITH MaxRuns <- MaxReleases, output <- published, run <- release

ASSUME AssumptionOfGo == Go!GoAssumption
ASSUME AssumptionOfArtifact == Artifact!ArtifactAssumption
ASSUME AssumptionOfPackage == Package!PackageAssumption

\* The variables of a part that a behaviour is not of.
Off == "off"
GoOff == config = Off /\ dirs = Off /\ output = Off /\ proc = Off /\ runs = Off /\ seen = Off
DockerOff ==
    /\ local = Off /\ registry = Off /\ exports = Off /\ manifest = Off
    /\ run = Off /\ pool = Off /\ events = Off /\ disturbed = Off
ArtifactOff ==
    /\ packages = Off /\ tree = Off /\ archive = Off /\ build = Off
    /\ client = Off /\ install = Off /\ left = Off
PackageOff ==
    /\ workspace = Off /\ npm = Off /\ latest = Off /\ published = Off
    /\ staged = Off /\ temps = Off /\ release = Off /\ others = Off

DeliverInit ==
    \/ part = "go" /\ Go!Init /\ DockerOff /\ ArtifactOff /\ PackageOff
    \/ part = "docker" /\ Init /\ GoOff /\ ArtifactOff /\ PackageOff
    \/ part = "artifact" /\ Artifact!Init /\ GoOff /\ DockerOff /\ PackageOff
    \/ part = "packages" /\ Package!Init /\ GoOff /\ DockerOff /\ ArtifactOff

DeliverNext ==
    \/ part = "go" /\ Go!Next /\ UNCHANGED <<part, vars, artifactVars, packageVars>>
    \/ part = "docker" /\ Next /\ UNCHANGED <<part, goVars, artifactVars, packageVars>>
    \/ part = "artifact" /\ Artifact!Next /\ UNCHANGED <<part, vars, goVars, packageVars>>
    \/ part = "packages" /\ Package!Next /\ UNCHANGED <<part, vars, goVars, artifactVars>>

DeliverSpec == DeliverInit /\ [][DeliverNext]_allVars

OutputStands == part = "go" => Go!OutputStands
ArtifactStands == part = "artifact" => Artifact!ArtifactStands
ReleaseStands == part = "packages" => Package!ReleaseStands
DockerStands == part = "docker" => ResultStands
DockerStaysWithinThePlan == [][part = "docker" => WithinThePlan]_allVars
==============================================================================
