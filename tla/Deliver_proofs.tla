---------------------------- MODULE Deliver_proofs ----------------------------
(***************************************************************************)
(* For any targets, processes and number of commands: the output directory *)
(* of go-release stands whatever is killed, fails and meets.  None of its  *)
(* three parts is inductive.  GoInv adds who has which directory: a build  *)
(* one that is not the output and that no other build has, and, once it    *)
(* moved the output away, that one too; which of them are whole; and that  *)
(* an archive is of the directory it lies in, unless its packing raced.    *)
(*                                                                         *)
(* For any files, answers, filters and others: a run of docker-publish     *)
(* publishes what it says, of what the user was shown.  DockerInv follows  *)
(* each image and reference through the pools (below); what a plan is made *)
(* of rests on lemmas about the lists that FlattenSeq joins, which are     *)
(* proved by a least exception, without induction over an operator.        *)
(*                                                                         *)
(* For any packages, builds, clients and edits: what release-artifact packs *)
(* has the dependencies of its commands, and what an installation leaves   *)
(* has their entries.  ArtifactInv follows a bundle from its closure to the *)
(* archive: its packages find what they need (BundleOK), the tree is like  *)
(* the packages (TreeOK), a client installs what it verified (ClientsOK).  *)
(*                                                                         *)
(* For any workspaces, options and versions: a release of publish-packages *)
(* can be installed whatever stops it.  The order of the packages is       *)
(* computed by visits, one call or return at a time: that no package comes *)
(* before one it needs is an invariant of the visits (VisitOK), which the  *)
(* selection keeps (InTurn); ReleaseInv relates what is left of it to what *)
(* the registry has.                                                       *)
(***************************************************************************)
EXTENDS Deliver, WellFoundedInduction, TLAPS

\* A build that has a directory beside the output, and one that keeps the output it moved away.
Building(p) == proc[p].pc \in {"compile", "away", "place"}
Holding(p) == proc[p].pc \in {"place", "restore", "clean"} /\ proc[p].old # 0

\* The fields of a directory and of a process, and the numbers of directories.
DirsOK ==
    /\ dirs = [d \in 1..MaxBuildRuns |-> dirs[d]]
    /\ \A d \in 1..MaxBuildRuns :
         dirs[d] = [built |-> dirs[d].built, archives |-> dirs[d].archives, sums |-> dirs[d].sums]
ProcOK ==
    /\ proc = [p \in Process |-> proc[p]]
    /\ \A p \in Process :
         proc[p] = [pc |-> proc[p].pc, own |-> proc[p].own, todo |-> proc[p].todo,
                    found |-> proc[p].found, old |-> proc[p].old, stage |-> proc[p].stage,
                    now |-> proc[p].now]
SeenOK == seen = [placed |-> seen.placed, lost |-> seen.lost, raced |-> seen.raced]
NumbersOK ==
    /\ runs \in 0..MaxBuildRuns /\ output \in 0..runs
    /\ \A p \in Process :
         /\ proc[p].own \in 0..runs /\ proc[p].old \in 0..runs
         /\ Building(p) => proc[p].own # 0
         /\ proc[p].pc \in {"compile", "away"} => proc[p].old = 0
         /\ proc[p].pc \in {"restore", "clean"} => proc[p].old # 0
GoTypes == DirsOK /\ ProcOK /\ SeenOK /\ NumbersOK

\* No two builds have a directory in common, and none of them has the output.
Apart ==
    /\ \A p \in Process : Building(p) => proc[p].own # output
    /\ \A p \in Process : Holding(p) => proc[p].old # output
    /\ \A p, q \in Process : Building(p) /\ Holding(q) => proc[p].own # proc[q].old
    /\ \A p, q \in Process : p # q =>
         /\ Building(p) /\ Building(q) => proc[p].own # proc[q].own
         /\ Holding(p) /\ Holding(q) => proc[p].old # proc[q].old

Whole(d) == DOMAIN dirs[d].built # {} /\ \A t \in DOMAIN dirs[d].built : dirs[d].built[t]

\* What is, may become, or may again become the output is whole.
WholeOK ==
    /\ output # 0 => Whole(output)
    /\ \A p \in Process :
         /\ proc[p].pc = "compile" => proc[p].todo # {} \/ DOMAIN proc[p].found # {}
         /\ proc[p].pc \in {"away", "place"} => Whole(proc[p].own)
         /\ proc[p].pc \in {"place", "restore"} /\ proc[p].old # 0 => Whole(proc[p].old)

\* An archive says the directory that its members are from.
ArchivesOK ==
    ~seen.raced => \A d \in 1..MaxBuildRuns : \A t \in DOMAIN dirs[d].archives : dirs[d].archives[t] = d
PackOf(p) == proc[p].pc = "pack" => proc[p].found[proc[p].now] = proc[p].stage
PackOK == \A p \in Process : PackOf(p)

\* What a verification has seen is in the directory it began with.
VerifyOf(p) ==
    /\ proc[p].pc = "snapshot" => proc[p].stage \in 1..MaxBuildRuns
    /\ proc[p].pc \in {"extract", "verified"} => proc[p].todo = {}
    /\ proc[p].pc \in {"snapshot", "extract", "verified"} /\ ~seen.raced =>
         \A t \in Go!Targets \ proc[p].todo : proc[p].found[t] = proc[p].stage
VerifyOK == \A p \in Process : VerifyOf(p)

GoInv == GoTypes /\ Apart /\ WholeOK /\ Go!OutputStays /\ ArchivesOK /\ PackOK /\ VerifyOK

\* A step of p that leaves the other processes alone.
StepOf(p) ==
    /\ ProcOK' /\ \A q \in Process \ {p} : proc'[q] = proc[q]
    /\ SeenOK' /\ (seen.raced => seen.raced') /\ config' = config

LEMMA InvMeans == GoInv => Go!OutputStands
<1> SUFFICES ASSUME GoInv PROVE Go!OutputStands
    OBVIOUS
<1>1. Go!OutputIsWhole
    BY DEF GoInv, Go!OutputIsWhole, WholeOK, Whole, Go!Out
<1>2. Go!VerifiedIsOneBuild
  <2> SUFFICES ASSUME NEW p \in Process, proc[p].pc = "verified", ~seen.raced,
                      NEW t \in Go!Targets, NEW u \in Go!Targets
               PROVE  proc[p].found[t] = proc[p].found[u]
      BY DEF Go!VerifiedIsOneBuild
  <2> QED
      BY DEF GoInv, VerifyOK, VerifyOf
<1> QED
    BY <1>1, <1>2 DEF GoInv, Go!OutputStands

LEMMA EmptyMap == DOMAIN <<>> = {}
<1>1. <<>> \in Seq({}) /\ Len(<<>>) = 0
    OBVIOUS
<1>2. DOMAIN <<>> = 1..Len(<<>>)
    BY <1>1
<1> QED
    BY <1>1, <1>2

LEMMA InitInv == Go!Init => GoInv
<1> SUFFICES ASSUME Go!Init PROVE GoInv
    OBVIOUS
<1>1. /\ \A p \in Process : proc[p].pc = "idle" /\ proc[p].own = 0 /\ proc[p].old = 0
      /\ ProcOK
    BY DEF Go!Init, Go!IdleProcess, ProcOK
<1>2. output = 0 /\ runs = 0 /\ MaxBuildRuns \in Nat
    BY AssumptionOfGo DEF Go!Init, Go!GoAssumption
<1>3. NumbersOK
    BY <1>1, <1>2 DEF NumbersOK, Building
<1>4. Apart /\ WholeOK /\ PackOK /\ VerifyOK
    BY <1>1, <1>2 DEF Apart, Building, Holding, WholeOK, PackOK, PackOf, VerifyOK, VerifyOf
<1>5. SeenOK /\ Go!OutputStays
    BY DEF Go!Init, SeenOK, Go!OutputStays
<1>6. DirsOK /\ \A d \in 1..MaxBuildRuns : DOMAIN dirs[d].archives = {}
    BY EmptyMap DEF Go!Init, Go!EmptyDir, DirsOK
<1>7. ArchivesOK
    BY <1>6 DEF ArchivesOK
<1> QED
    BY <1>1, <1>3, <1>4, <1>5, <1>6, <1>7 DEF GoInv, GoTypes

\* What p does not touch holds after a step of p.
LEMMA OthersKeep ==
    ASSUME GoInv, NEW p \in Process, StepOf(p), PackOf(p)', VerifyOf(p)'
    PROVE  PackOK' /\ VerifyOK'
<1>1. ASSUME NEW q \in Process PROVE PackOf(q)' /\ VerifyOf(q)'
  <2>1. CASE q = p
      BY <2>1
  <2>2. CASE q # p
      BY <2>2 DEF GoInv, StepOf, PackOK, PackOf, VerifyOK, VerifyOf, Go!Targets
  <2> QED
      BY <2>1, <2>2
<1> QED
    BY <1>1 DEF PackOK, VerifyOK

\* No other build than p has the directory d.
Free(p, d) ==
    \A q \in Process \ {p} :
        (Building(q) => proc[q].own # d) /\ (Holding(q) => proc[q].old # d)

LEMMA NoneIsFree == ASSUME GoInv, NEW p \in Process PROVE Free(p, 0) /\ Free(p, output)
BY DEF GoInv, GoTypes, NumbersOK, Apart, Free, Holding

LEMMA OwnIsFree == ASSUME GoInv, NEW p \in Process, Building(p) PROVE Free(p, proc[p].own)
BY DEF GoInv, Apart, Free

LEMMA OldIsFree == ASSUME GoInv, NEW p \in Process, Holding(p) PROVE Free(p, proc[p].old)
BY DEF GoInv, Apart, Free

\* A step of p that changes what is built in the directory c alone.
LEMMA StepKeeps ==
    ASSUME GoInv, NEW p \in Process, StepOf(p), NEW c, Free(p, c),
           DirsOK', \A d \in (1..MaxBuildRuns) \ {c} : dirs'[d].built = dirs[d].built, ArchivesOK',
           runs' \in runs..MaxBuildRuns, output' \in 0..runs', Free(p, output'),
           proc'[p].own \in 0..runs', proc'[p].old \in 0..runs',
           Building(p)' => proc'[p].own \notin {0, output'} /\ Free(p, proc'[p].own),
           Holding(p)' => proc'[p].old # output' /\ Free(p, proc'[p].old),
           Building(p)' /\ Holding(p)' => proc'[p].own # proc'[p].old,
           proc'[p].pc \in {"compile", "away"} => proc'[p].old = 0,
           proc'[p].pc \in {"restore", "clean"} => proc'[p].old # 0,
           output' # 0 => Whole(output)',
           proc'[p].pc = "compile" => proc'[p].todo # {} \/ DOMAIN proc'[p].found # {},
           proc'[p].pc \in {"away", "place"} => Whole(proc[p].own)',
           proc'[p].pc \in {"place", "restore"} /\ proc'[p].old # 0 => Whole(proc[p].old)',
           Go!OutputStays', PackOf(p)', VerifyOf(p)'
    PROVE  GoInv'
<1>1. /\ NumbersOK /\ Apart /\ WholeOK
      /\ \A q \in Process \ {p} : proc'[q] = proc[q]
    BY DEF GoInv, GoTypes, StepOf
<1>2. \A q \in Process \ {p} : (Building(q)' <=> Building(q)) /\ (Holding(q)' <=> Holding(q))
    BY <1>1 DEF Building, Holding
<1>3. runs \in Nat /\ runs' \in Nat /\ runs' \in 0..MaxBuildRuns /\ runs <= runs' /\ MaxBuildRuns \in Nat
    BY <1>1, AssumptionOfGo DEF NumbersOK, Go!GoAssumption
<1>4. NumbersOK'
  <2>1. \A q \in Process \ {p} : proc'[q].own \in 0..runs' /\ proc'[q].old \in 0..runs'
      BY <1>1, <1>3 DEF NumbersOK
  <2>2. ASSUME NEW q \in Process
        PROVE  /\ proc'[q].own \in 0..runs' /\ proc'[q].old \in 0..runs'
               /\ Building(q)' => proc'[q].own # 0
               /\ proc'[q].pc \in {"compile", "away"} => proc'[q].old = 0
               /\ proc'[q].pc \in {"restore", "clean"} => proc'[q].old # 0
      BY <1>1, <1>2, <2>1 DEF NumbersOK
  <2> QED
      BY <1>3, <2>2 DEF NumbersOK
<1>5. Apart'
  <2>1. ASSUME NEW q \in Process
        PROVE  (Building(q)' => proc'[q].own # output') /\ (Holding(q)' => proc'[q].old # output')
      BY <1>1, <1>2 DEF Free
  <2>2. ASSUME NEW q \in Process, NEW r \in Process
        PROVE  /\ Building(q)' /\ Holding(r)' => proc'[q].own # proc'[r].old
               /\ q # r /\ Building(q)' /\ Building(r)' => proc'[q].own # proc'[r].own
               /\ q # r /\ Holding(q)' /\ Holding(r)' => proc'[q].old # proc'[r].old
    <3>1. CASE q = p /\ r = p
        BY <3>1
    <3>2. CASE q = p /\ r # p
        BY <1>1, <1>2, <3>2 DEF Free
    <3>3. CASE q # p /\ r = p
        BY <1>1, <1>2, <3>3 DEF Free
    <3>4. CASE q # p /\ r # p
        BY <1>1, <1>2, <3>4 DEF Apart
    <3> QED
        BY <3>1, <3>2, <3>3, <3>4
  <2> QED
      BY <2>1, <2>2 DEF Apart
<1>6. WholeOK'
  <2>1. ASSUME NEW d \in (1..MaxBuildRuns) \ {c}, Whole(d) PROVE Whole(d)'
      BY <2>1 DEF Whole
  <2>2. ASSUME NEW q \in Process
        PROVE  /\ proc'[q].pc = "compile" => proc'[q].todo # {} \/ DOMAIN proc'[q].found # {}
               /\ proc'[q].pc \in {"away", "place"} => Whole(proc[q].own)'
               /\ proc'[q].pc \in {"place", "restore"} /\ proc'[q].old # 0 => Whole(proc[q].old)'
    <3>1. CASE q = p
        BY <3>1
    <3>2. CASE q # p
      <4>1. proc'[q] = proc[q]
          BY <1>1, <3>2
      <4>2. Building(q) => proc[q].own \in (1..MaxBuildRuns) \ {c}
          BY <1>1, <1>3, <3>2 DEF Free, NumbersOK
      <4>3. Holding(q) => proc[q].old \in (1..MaxBuildRuns) \ {c}
          BY <1>1, <1>3, <3>2 DEF Free, NumbersOK, Holding
      <4>4. proc[q].pc \in {"away", "place"} => Whole(proc[q].own)'
        <5>1. proc[q].pc \in {"away", "place"} => Building(q) /\ Whole(proc[q].own)
            BY <1>1 DEF WholeOK, Building
        <5> QED
            BY <2>1, <4>1, <4>2, <5>1 DEF Whole
      <4>5. proc[q].pc \in {"place", "restore"} /\ proc[q].old # 0 => Whole(proc[q].old)'
        <5>1. proc[q].pc \in {"place", "restore"} /\ proc[q].old # 0 => Holding(q) /\ Whole(proc[q].old)
            BY <1>1 DEF WholeOK, Holding
        <5> QED
            BY <2>1, <4>1, <4>3, <5>1 DEF Whole
      <4> QED
          BY <1>1, <4>1, <4>4, <4>5 DEF WholeOK
    <3> QED
        BY <3>1, <3>2
  <2> QED
      BY <2>2 DEF WholeOK
<1>7. PackOK' /\ VerifyOK'
    BY OthersKeep
<1> QED
    BY <1>4, <1>5, <1>6, <1>7 DEF GoInv, GoTypes, StepOf

\* A step that neither builds nor moves or changes a directory.
LEMMA AsideKeeps ==
    ASSUME GoInv, NEW p \in Process, StepOf(p), UNCHANGED <<dirs, output>>,
           proc'[p].pc \notin {"compile", "away", "place", "restore", "clean"},
           runs' \in runs..MaxBuildRuns, proc'[p].own \in 0..runs', proc'[p].old \in 0..runs',
           seen'.placed = seen.placed, seen'.raced = seen.raced, seen.lost => seen'.lost,
           p \in Go!Swapping /\ output = 0 => seen'.lost,
           PackOf(p)', VerifyOf(p)'
    PROVE  GoInv'
<1>1. /\ DirsOK /\ NumbersOK /\ WholeOK /\ Go!OutputStays /\ ArchivesOK
      /\ \A q \in Process \ {p} : proc'[q] = proc[q]
    BY DEF GoInv, GoTypes, StepOf
<1>2. DirsOK' /\ ArchivesOK'
    BY <1>1 DEF DirsOK, ArchivesOK
<1>3. ~Building(p)' /\ ~Holding(p)'
    BY DEF Building, Holding
<1>4. output' # 0 => Whole(output)'
    BY <1>1 DEF WholeOK, Whole
<1>5. Go!OutputStays'
    BY <1>1 DEF Go!OutputStays, Go!Swapping
<1>6. output' \in 0..runs' /\ Free(p, 0) /\ Free(p, output')
    BY <1>1, NoneIsFree, AssumptionOfGo DEF NumbersOK, Go!GoAssumption
<1> QED
    BY <1>2, <1>3, <1>4, <1>5, <1>6, StepKeeps

LEMMA FailKeeps ==
    ASSUME GoInv, NEW p \in Process, Go!Fail(p), UNCHANGED <<config, dirs, output, runs>>, SeenOK',
           seen'.placed = seen.placed, seen'.raced = seen.raced, seen.lost => seen'.lost,
           p \in Go!Swapping /\ output = 0 => seen'.lost
    PROVE  GoInv'
<1>1. ProcOK /\ NumbersOK
    BY DEF GoInv, GoTypes
<1>2. ProcOK' /\ \A q \in Process \ {p} : proc'[q] = proc[q]
    BY <1>1 DEF ProcOK, Go!Fail, Go!Step
<1>3. proc'[p].pc = "failed" /\ proc'[p].own = proc[p].own /\ proc'[p].old = proc[p].old
    BY <1>1 DEF ProcOK, Go!Fail, Go!Step
<1>4. PackOf(p)' /\ VerifyOf(p)'
    BY <1>3 DEF PackOf, VerifyOf
<1>5. runs' \in runs..MaxBuildRuns /\ proc'[p].own \in 0..runs' /\ proc'[p].old \in 0..runs'
    BY <1>1, <1>3, AssumptionOfGo DEF NumbersOK, Go!GoAssumption
<1>6. StepOf(p)
    BY <1>2 DEF StepOf
<1>7. proc'[p].pc \notin {"compile", "away", "place", "restore", "clean"}
    BY <1>3
<1> HIDE DEF Go!Fail, Go!Step, GoInv
<1> QED
    BY <1>3, <1>4, <1>5, <1>6, <1>7, AsideKeeps

\* A step of an archiver, a verifier or a comparison that changes its own record alone.
LEMMA OwnKeeps ==
    ASSUME GoInv, NEW p \in Process, UNCHANGED <<config, dirs, output, runs, seen>>,
           ProcOK', \A q \in Process \ {p} : proc'[q] = proc[q],
           proc'[p].own = proc[p].own, proc'[p].old = proc[p].old,
           proc'[p].pc \notin {"compile", "away", "place", "restore", "clean"},
           p \notin Go!Swapping, PackOf(p)', VerifyOf(p)'
    PROVE  GoInv'
<1>1. NumbersOK /\ SeenOK
    BY DEF GoInv, GoTypes
<1>2. runs' \in runs..MaxBuildRuns /\ proc'[p].own \in 0..runs' /\ proc'[p].old \in 0..runs'
    BY <1>1, AssumptionOfGo DEF NumbersOK, Go!GoAssumption
<1>3. StepOf(p)
    BY <1>1 DEF StepOf, SeenOK
<1> QED
    BY <1>2, <1>3, AsideKeeps

LEMMA BeginKeeps ==
    ASSUME GoInv, NEW p \in Process, NEW pc, NEW targets, NEW found, Go!Begin(p, pc, targets, found),
           pc \in {"failed", "stage", "sums", "snapshot", "first"},
           pc = "snapshot" => output # 0 /\ targets = Go!Targets
    PROVE  GoInv'
<1>1. ProcOK /\ NumbersOK /\ SeenOK
    BY DEF GoInv, GoTypes
<1>2. ProcOK' /\ \A q \in Process \ {p} : proc'[q] = proc[q]
    BY <1>1 DEF ProcOK, Go!Begin
<1>3. /\ proc'[p].pc = pc /\ proc'[p].own = runs + 1 /\ proc'[p].old = 0
      /\ proc'[p].stage = output /\ proc'[p].todo = targets
    BY <1>1 DEF ProcOK, Go!Begin
<1>4. runs' = runs + 1 /\ runs < MaxBuildRuns /\ runs \in Nat /\ MaxBuildRuns \in Nat
  <2>1. runs' = runs + 1 /\ runs < MaxBuildRuns
      BY DEF Go!Begin
  <2> QED
      BY <1>1, <2>1, AssumptionOfGo DEF NumbersOK, Go!GoAssumption
<1>5. runs' \in runs..MaxBuildRuns /\ proc'[p].own \in 0..runs' /\ proc'[p].old \in 0..runs'
    BY <1>3, <1>4
<1>6. UNCHANGED <<config, dirs, output, seen>>
    BY DEF Go!Begin
<1>7. PackOf(p)'
    BY <1>3 DEF PackOf
<1>8. VerifyOf(p)'
    BY <1>1, <1>3, <1>4, <1>6 DEF VerifyOf, NumbersOK, Go!Targets
<1>9. StepOf(p)
    BY <1>1, <1>2, <1>6 DEF StepOf, SeenOK
<1>10. p \notin Go!Swapping
    BY DEF Go!Begin, Go!Ended, Go!Swapping
<1> QED
    BY <1>3, <1>5, <1>6, <1>7, <1>8, <1>9, <1>10, AsideKeeps

LEMMA StartsKeep ==
    ASSUME GoInv, NEW p \in Process,
           Go!StartArchives(p) \/ Go!StartChecksums(p) \/ Go!StartVerify(p) \/ Go!StartReproduce(p)
    PROVE  GoInv'
<1>1. CASE Go!StartArchives(p)
    BY <1>1, BeginKeeps DEF Go!StartArchives
<1>2. CASE Go!StartChecksums(p)
  <2> DEFINE There(targets) == output # 0 /\ targets \subseteq DOMAIN Go!Out.archives
             Sums(targets) == IF There(targets) THEN [t \in targets |-> Go!Out.archives[t]] ELSE <<>>
  <2>1. PICK targets \in (SUBSET Go!Targets) \ {{}} :
            Go!Begin(p, IF There(targets) THEN "sums" ELSE "failed", targets, Sums(targets))
      BY <1>2 DEF Go!StartChecksums
  <2> HIDE DEF There, Sums
  <2>2. (IF There(targets) THEN "sums" ELSE "failed") \in {"sums", "failed"}
      OBVIOUS
  <2> QED
      BY <2>1, <2>2, BeginKeeps
<1>3. CASE Go!StartVerify(p)
  <2> DEFINE there == output # 0 /\ DOMAIN Go!Out.archives = Go!Targets /\ DOMAIN Go!Out.sums = Go!Targets
             found == IF there THEN Go!Out.sums ELSE <<>>
             next == IF there THEN "snapshot" ELSE "failed"
  <2>1. Go!Begin(p, next, Go!Targets, found)
      BY <1>3 DEF Go!StartVerify
  <2>2. next \in {"snapshot", "failed"} /\ (next = "snapshot" => output # 0)
      OBVIOUS
  <2> HIDE DEF there, found, next
  <2> QED
      BY <2>1, <2>2, BeginKeeps
<1>4. CASE Go!StartReproduce(p)
    BY <1>4, BeginKeeps DEF Go!StartReproduce
<1> QED
    BY <1>1, <1>2, <1>3, <1>4


LEMMA ArchiverKeeps ==
    ASSUME GoInv, NEW p \in Process, Go!Built(p) \/ Go!Stage(p) \/ Go!Hash(p)
    PROVE  GoInv'
<1>1. ProcOK /\ SeenOK /\ UNCHANGED <<config, dirs, output, runs, seen>> /\ p \notin Go!Swapping
    BY DEF GoInv, GoTypes, Go!Built, Go!Stage, Go!Hash, Go!Swapping
<1>2. CASE Go!Fail(p)
  <2>1. SeenOK' /\ seen'.placed = seen.placed /\ seen'.raced = seen.raced /\ (seen.lost => seen'.lost)
      BY <1>1 DEF SeenOK
  <2> QED
      BY <1>1, <1>2, <2>1, FailKeeps
<1>3. CASE Go!Built(p) /\ ~Go!Fail(p)
  <2>1. ProcOK' /\ \A q \in Process \ {p} : proc'[q] = proc[q]
      BY <1>1, <1>3 DEF ProcOK, Go!Built, Go!Step
  <2>2. /\ proc'[p].own = proc[p].own /\ proc'[p].old = proc[p].old
        /\ proc'[p].pc \in {"done", "failed", "stage"}
      BY <1>1, <1>3 DEF ProcOK, Go!Built, Go!Step
  <2>3. PackOf(p)' /\ VerifyOf(p)'
      BY <2>2 DEF PackOf, VerifyOf
  <2> QED
      BY <1>1, <2>1, <2>2, <2>3, OwnKeeps
<1>4. CASE Go!Stage(p) /\ ~Go!Fail(p)
  <2>1. PICK t \in proc[p].todo :
            proc' = [proc EXCEPT ![p].pc = "pack", ![p].stage = output, ![p].found = Go!With(@, t, output),
                                 ![p].todo = @ \ {t}, ![p].now = t]
      BY <1>4 DEF Go!Stage
  <2>2. ProcOK' /\ \A q \in Process \ {p} : proc'[q] = proc[q]
      BY <1>1, <2>1 DEF ProcOK
  <2>3. /\ proc'[p].own = proc[p].own /\ proc'[p].old = proc[p].old /\ proc'[p].pc = "pack"
        /\ proc'[p].now = t /\ proc'[p].stage = output /\ proc'[p].found = Go!With(proc[p].found, t, output)
      BY <1>1, <2>1 DEF ProcOK
  <2>4. proc'[p].found[t] = output
      BY <2>3 DEF Go!With
  <2>5. PackOf(p)' /\ VerifyOf(p)'
      BY <2>3, <2>4 DEF PackOf, VerifyOf
  <2> QED
      BY <1>1, <2>2, <2>3, <2>5, OwnKeeps
<1>5. CASE Go!Hash(p) /\ ~Go!Fail(p)
  <2>1. ProcOK' /\ \A q \in Process \ {p} : proc'[q] = proc[q]
      BY <1>1, <1>5 DEF ProcOK, Go!Hash
  <2>2. /\ proc'[p].own = proc[p].own /\ proc'[p].old = proc[p].old
        /\ proc'[p].pc \in {"sums", "stage"}
      BY <1>1, <1>5 DEF ProcOK, Go!Hash
  <2>3. PackOf(p)' /\ VerifyOf(p)'
      BY <2>2 DEF PackOf, VerifyOf
  <2> QED
      BY <1>1, <2>1, <2>2, <2>3, OwnKeeps
<1> QED
    BY <1>2, <1>3, <1>4, <1>5

LEMMA VerifierKeeps ==
    ASSUME GoInv, NEW p \in Process, Go!Snapshot(p) \/ Go!Extract(p)
    PROVE  GoInv'
<1>1. ProcOK /\ SeenOK /\ UNCHANGED <<config, dirs, output, runs, seen>> /\ p \notin Go!Swapping
    BY DEF GoInv, GoTypes, Go!Snapshot, Go!Extract, Go!Swapping
<1>2. CASE Go!Fail(p)
  <2>1. SeenOK' /\ seen'.placed = seen.placed /\ seen'.raced = seen.raced /\ (seen.lost => seen'.lost)
      BY <1>1 DEF SeenOK
  <2> QED
      BY <1>1, <1>2, <2>1, FailKeeps
<1>3. CASE Go!Snapshot(p) /\ ~Go!Fail(p)
  <2>1. PICK t \in proc[p].todo :
            /\ proc[p].pc = "snapshot" /\ Go!StageThere(p)
            /\ t \in DOMAIN Go!Out.archives /\ Go!Out.archives[t] = proc[p].found[t]
            /\ proc' = [proc EXCEPT ![p].todo = @ \ {t},
                                    ![p].pc = IF proc[p].todo = {t} THEN "extract" ELSE @]
      BY <1>3 DEF Go!Snapshot
  <2>2. ProcOK' /\ \A q \in Process \ {p} : proc'[q] = proc[q]
      BY <1>1, <2>1 DEF ProcOK
  <2>8. p \in DOMAIN proc
      BY <1>1 DEF ProcOK
  <2> DEFINE pc == IF proc[p].todo = {t} THEN "extract" ELSE proc[p].pc
             rest == proc[p].todo \ {t}
  <2>9. proc[p] = [pc |-> proc[p].pc, own |-> proc[p].own, todo |-> proc[p].todo,
                   found |-> proc[p].found, old |-> proc[p].old, stage |-> proc[p].stage,
                   now |-> proc[p].now]
      BY <1>1 DEF ProcOK
  <2>10. proc' = [proc EXCEPT ![p] = [proc[p] EXCEPT !.todo = rest, !.pc = pc]]
      BY <2>1, <2>8
  <2>3. /\ proc'[p].own = proc[p].own /\ proc'[p].old = proc[p].old
        /\ proc'[p].stage = proc[p].stage /\ proc'[p].found = proc[p].found
        /\ proc'[p].todo = rest /\ proc'[p].pc = pc
    <3> HIDE DEF pc, rest
    <3> QED
      BY <2>8, <2>9, <2>10
  <2>7. proc'[p].pc \in {"snapshot", "extract"} /\ (proc'[p].pc = "extract" => proc'[p].todo = {})
      BY <2>1, <2>3
  <2>4. VerifyOf(p) /\ ArchivesOK
      BY DEF GoInv, VerifyOK
  <2>5. ~seen.raced => proc[p].found[t] = proc[p].stage
      BY <2>1, <2>4 DEF VerifyOf, ArchivesOK, Go!StageThere, Go!Out
  <2>6. PackOf(p)' /\ VerifyOf(p)'
      BY <1>1, <2>1, <2>3, <2>4, <2>5, <2>7 DEF PackOf, VerifyOf, Go!Targets
  <2> QED
      BY <1>1, <2>2, <2>3, <2>6, <2>7, OwnKeeps
<1>4. CASE Go!Extract(p) /\ ~Go!Fail(p)
  <2>1. ProcOK' /\ \A q \in Process \ {p} : proc'[q] = proc[q]
      BY <1>1, <1>4 DEF ProcOK, Go!Extract, Go!Step
  <2>2. /\ proc'[p].own = proc[p].own /\ proc'[p].old = proc[p].old /\ proc'[p].todo = proc[p].todo
        /\ proc'[p].pc = "verified" /\ proc'[p].stage = proc[p].stage
        /\ proc'[p].found = proc[p].found /\ proc[p].pc = "extract"
      BY <1>1, <1>4 DEF ProcOK, Go!Extract, Go!Step
  <2>3. VerifyOf(p)
      BY DEF GoInv, VerifyOK
  <2>4. PackOf(p)' /\ VerifyOf(p)'
      BY <1>1, <2>2, <2>3 DEF PackOf, VerifyOf, Go!Targets
  <2> QED
      BY <1>1, <2>1, <2>2, <2>4, OwnKeeps
<1> QED
    BY <1>2, <1>3, <1>4

LEMMA ReproducerKeeps ==
    ASSUME GoInv, NEW p \in Process, Go!GoOnReproduce(p) \/ Go!ProduceRun(p) \/ Go!CompareRuns(p)
    PROVE  GoInv'
<1>1. ProcOK /\ SeenOK /\ UNCHANGED <<config, dirs, output, runs, seen>> /\ p \notin Go!Swapping
    BY DEF GoInv, GoTypes, Go!GoOnReproduce, Go!ProduceRun, Go!CompareRuns, Go!Swapping
<1>2. ProcOK' /\ \A q \in Process \ {p} : proc'[q] = proc[q]
    BY <1>1 DEF ProcOK, Go!GoOnReproduce, Go!ProduceRun, Go!CompareRuns, Go!Step, Go!Fail
<1>3. /\ proc'[p].own = proc[p].own /\ proc'[p].old = proc[p].old
      /\ proc'[p].pc \in {"first", "second", "reproduced", "failed"}
    BY <1>1 DEF ProcOK, Go!GoOnReproduce, Go!ProduceRun, Go!CompareRuns, Go!Step, Go!Fail
<1>4. PackOf(p)' /\ VerifyOf(p)'
    BY <1>3 DEF PackOf, VerifyOf
<1> QED
    BY <1>1, <1>2, <1>3, <1>4, OwnKeeps

LEMMA KilledKeeps ==
    ASSUME GoInv, NEW p \in Process, Go!Killed(p)
    PROVE  GoInv'
<1>1. SeenOK
    BY DEF GoInv, GoTypes
<1>2. /\ SeenOK' /\ seen'.placed = seen.placed /\ seen'.raced = seen.raced
      /\ seen'.lost = (seen.lost \/ (p \in Go!Swapping /\ output = 0))
    BY <1>1 DEF SeenOK, Go!Killed
<1> QED
    BY <1>2, FailKeeps DEF Go!Killed

\* What is shown of every build before its step.
LEMMA BuilderFacts ==
    ASSUME GoInv, NEW p \in Process
    PROVE  /\ DirsOK /\ ProcOK /\ SeenOK /\ NumbersOK /\ Apart /\ WholeOK /\ Go!OutputStays /\ ArchivesOK
           /\ MaxBuildRuns \in Nat /\ runs \in runs..MaxBuildRuns /\ runs \in Nat
           /\ proc[p].own \in 0..runs /\ proc[p].old \in 0..runs /\ output \in 0..runs
           /\ p \in DOMAIN proc
<1>1. DirsOK /\ ProcOK /\ SeenOK /\ NumbersOK /\ Apart /\ WholeOK /\ Go!OutputStays /\ ArchivesOK
    BY DEF GoInv, GoTypes
<1>2. MaxBuildRuns \in Nat /\ runs \in runs..MaxBuildRuns /\ runs \in Nat
    BY <1>1, AssumptionOfGo DEF NumbersOK, Go!GoAssumption
<1>3. p \in DOMAIN proc
    BY <1>1 DEF ProcOK
<1> QED
    BY <1>1, <1>2, <1>3 DEF NumbersOK

\* One field of one directory is set.
LEMMA DirSet ==
    ASSUME DirsOK, NEW d \in 1..MaxBuildRuns, NEW r,
           r = [built |-> r.built, archives |-> r.archives, sums |-> r.sums],
           dirs' = [dirs EXCEPT ![d] = r]
    PROVE  DirsOK' /\ dirs'[d] = r /\ \A e \in (1..MaxBuildRuns) \ {d} : dirs'[e] = dirs[e]
<1>1. d \in DOMAIN dirs
    BY DEF DirsOK
<1>2. dirs'[d] = r /\ \A e \in (1..MaxBuildRuns) \ {d} : dirs'[e] = dirs[e]
    BY <1>1 DEF DirsOK
<1>3. DirsOK'
    BY <1>2 DEF DirsOK
<1> QED
    BY <1>2, <1>3

\* A build that fails, with the output where it was.
LEMMA BuildFails ==
    ASSUME GoInv, NEW p \in Process, Go!Fail(p), p \notin Go!Swapping \/ output # 0,
           UNCHANGED <<config, dirs, output, runs, seen>>
    PROVE  GoInv'
<1>1. SeenOK' /\ seen'.placed = seen.placed /\ seen'.raced = seen.raced /\ (seen.lost => seen'.lost)
    BY BuilderFacts DEF SeenOK
<1> QED
    BY <1>1, FailKeeps

LEMMA StartBuildKeeps ==
    ASSUME GoInv, NEW p \in Process, Go!StartBuild(p)
    PROVE  GoInv'
<1>1. PICK targets \in (SUBSET Go!Targets) \ {{}} : Go!Begin(p, "compile", targets, <<>>)
    BY DEF Go!StartBuild
<1>2. /\ ProcOK /\ SeenOK /\ NumbersOK /\ Apart /\ WholeOK /\ Go!OutputStays /\ ArchivesOK /\ DirsOK
      /\ MaxBuildRuns \in Nat /\ runs \in Nat /\ output \in 0..runs
    BY BuilderFacts
<1>3. ProcOK' /\ \A q \in Process \ {p} : proc'[q] = proc[q]
    BY <1>1, <1>2 DEF ProcOK, Go!Begin
<1>4. /\ proc'[p].pc = "compile" /\ proc'[p].own = runs + 1 /\ proc'[p].old = 0
      /\ proc'[p].todo = targets
    BY <1>1, <1>2 DEF ProcOK, Go!Begin
<1>5. /\ runs' = runs + 1 /\ runs < MaxBuildRuns /\ UNCHANGED <<config, dirs, output, seen>>
      /\ proc[p].pc \in Go!Ended
    BY <1>1 DEF Go!Begin
<1>6. StepOf(p)
    BY <1>2, <1>3, <1>5 DEF StepOf, SeenOK
<1>7. /\ Building(p)' /\ ~Holding(p)' /\ PackOf(p)' /\ VerifyOf(p)'
      /\ runs' \in runs..MaxBuildRuns /\ output' \in 0..runs' /\ proc'[p].own \in 0..runs'
      /\ proc'[p].old \in 0..runs' /\ proc'[p].own \notin {0, output'}
    BY <1>2, <1>4, <1>5 DEF Building, Holding, PackOf, VerifyOf
<1>8. Free(p, runs + 1) /\ Free(p, output')
    BY <1>2, <1>5, NoneIsFree DEF Free, NumbersOK
<1>9. /\ DirsOK' /\ ArchivesOK' /\ (output' # 0 => Whole(output)')
      /\ \A d \in (1..MaxBuildRuns) \ {runs + 1} : dirs'[d].built = dirs[d].built
    BY <1>2, <1>5 DEF DirsOK, ArchivesOK, WholeOK, Whole
<1>10. Go!OutputStays'
    BY <1>2, <1>3, <1>5 DEF Go!OutputStays, Go!Swapping, Go!Ended
<1>11. Free(p, proc'[p].own) /\ proc'[p].todo # {}
  <2>1. Free(p, proc'[p].own)
      BY <1>4, <1>8
  <2>2. targets # {} /\ proc'[p].todo = targets
      BY <1>1, <1>4
  <2> QED
      BY <2>1, <2>2
<1>12. \A d \in (1..MaxBuildRuns) \ {proc'[p].own} : dirs'[d].built = dirs[d].built
    BY <1>4, <1>9
<1> QED
    BY <1>4, <1>6, <1>7, <1>8, <1>9, <1>10, <1>11, <1>12, StepKeeps

LEMMA CompileKeeps ==
    ASSUME GoInv, NEW p \in Process, Go!CompileTarget(p)
    PROVE  GoInv'
<1>1. /\ ProcOK /\ SeenOK /\ NumbersOK /\ Apart /\ WholeOK /\ Go!OutputStays /\ ArchivesOK /\ DirsOK
      /\ MaxBuildRuns \in Nat /\ runs \in Nat /\ output \in 0..runs /\ runs \in runs..MaxBuildRuns
      /\ proc[p].own \in 0..runs /\ proc[p].old \in 0..runs
    BY BuilderFacts
<1>2. /\ proc[p].pc = "compile" /\ UNCHANGED <<config, dirs, output, runs, seen>>
      /\ p \notin Go!Swapping /\ Building(p)
    BY DEF Go!CompileTarget, Go!Swapping, Building
<1>3. CASE Go!Fail(p)
    BY <1>2, <1>3, BuildFails
<1>4. CASE ~Go!Fail(p)
  <2>1. PICK t \in proc[p].todo, usable \in BOOLEAN :
            proc' = [proc EXCEPT ![p].todo = @ \ {t}, ![p].found = Go!With(@, t, usable)]
      BY <1>4 DEF Go!CompileTarget
  <2>2. ProcOK' /\ \A q \in Process \ {p} : proc'[q] = proc[q]
      BY <1>1, <2>1 DEF ProcOK
  <2>3. /\ proc'[p].pc = "compile" /\ proc'[p].own = proc[p].own /\ proc'[p].old = proc[p].old
        /\ proc'[p].found = Go!With(proc[p].found, t, usable)
    <3> DEFINE rest == proc[p].todo \ {t}
               found == Go!With(proc[p].found, t, usable)
    <3>1. proc' = [proc EXCEPT ![p] = [proc[p] EXCEPT !.todo = rest, !.found = found]]
        BY <1>1, <2>1
    <3>2. p \in DOMAIN proc
        BY <1>1 DEF ProcOK
    <3>3. proc[p] = [pc |-> proc[p].pc, own |-> proc[p].own, todo |-> proc[p].todo,
                     found |-> proc[p].found, old |-> proc[p].old, stage |-> proc[p].stage,
                     now |-> proc[p].now]
        BY <1>1 DEF ProcOK
    <3> HIDE DEF rest, found
    <3>4. /\ proc'[p].pc = proc[p].pc /\ proc'[p].own = proc[p].own /\ proc'[p].old = proc[p].old
          /\ proc'[p].found = found
        BY <3>1, <3>2, <3>3
    <3> QED
        BY <1>2, <3>4 DEF found
  <2>4. DOMAIN proc'[p].found # {}
      BY <2>3 DEF Go!With
  <2>5. StepOf(p)
      BY <1>1, <1>2, <2>2 DEF StepOf, SeenOK
  <2>6. Building(p)' /\ ~Holding(p)' /\ PackOf(p)' /\ VerifyOf(p)'
      BY <2>3 DEF Building, Holding, PackOf, VerifyOf
  <2>7. Free(p, proc[p].own) /\ Free(p, output') /\ proc'[p].own \notin {0, output'} /\ proc'[p].old = 0
      BY <1>1, <1>2, <2>3, OwnIsFree, NoneIsFree DEF Apart, NumbersOK
  <2>8. /\ DirsOK' /\ ArchivesOK' /\ (output' # 0 => Whole(output)')
        /\ \A d \in (1..MaxBuildRuns) \ {proc[p].own} : dirs'[d].built = dirs[d].built
      BY <1>1, <1>2 DEF DirsOK, ArchivesOK, WholeOK, Whole
  <2>9. Go!OutputStays'
      BY <1>1, <1>2, <2>2 DEF Go!OutputStays, Go!Swapping
  <2> QED
      BY <1>1, <1>2, <2>3, <2>4, <2>5, <2>6, <2>7, <2>8, <2>9, StepKeeps
<1> QED
    BY <1>3, <1>4

LEMMA ValidateKeeps ==
    ASSUME GoInv, NEW p \in Process, Go!Validate(p)
    PROVE  GoInv'
<1>1. /\ ProcOK /\ SeenOK /\ NumbersOK /\ Apart /\ WholeOK /\ Go!OutputStays /\ ArchivesOK /\ DirsOK
      /\ MaxBuildRuns \in Nat /\ runs \in Nat /\ output \in 0..runs /\ runs \in runs..MaxBuildRuns
      /\ proc[p].own \in 0..runs /\ proc[p].old \in 0..runs
    BY BuilderFacts
<1>2. /\ proc[p].pc = "compile" /\ proc[p].todo = {} /\ UNCHANGED <<config, output, runs, seen>>
      /\ p \notin Go!Swapping /\ Building(p)
    BY DEF Go!Validate, Go!Swapping, Building
<1>3. CASE ~Go!TreeValid(proc[p].found)
    BY <1>2, <1>3, BuildFails DEF Go!Validate
<1>4. CASE Go!TreeValid(proc[p].found)
  <2>1. /\ dirs' = [dirs EXCEPT ![proc[p].own].built = proc[p].found]
        /\ Go!Step(p, IF output = 0 THEN "place" ELSE "away")
      BY <1>4 DEF Go!Validate
  <2>2. ProcOK' /\ \A q \in Process \ {p} : proc'[q] = proc[q]
      BY <1>1, <2>1 DEF ProcOK, Go!Step
  <2>3. /\ proc'[p].pc = (IF output = 0 THEN "place" ELSE "away")
        /\ proc'[p].own = proc[p].own /\ proc'[p].old = proc[p].old
      BY <1>1, <2>1 DEF ProcOK, Go!Step
  <2>4. proc[p].old = 0 /\ proc[p].own \in 1..MaxBuildRuns /\ proc[p].own # output
      BY <1>1, <1>2 DEF NumbersOK, Apart
  <2>5. /\ DirsOK' /\ dirs'[proc[p].own].built = proc[p].found
        /\ \A d \in (1..MaxBuildRuns) \ {proc[p].own} : dirs'[d].built = dirs[d].built
        /\ \A d \in 1..MaxBuildRuns : dirs'[d].archives = dirs[d].archives
    <3>1. dirs' = [dirs EXCEPT ![proc[p].own] = [dirs[proc[p].own] EXCEPT !.built = proc[p].found]]
        BY <2>1
    <3>2. DirsOK /\ proc[p].own \in 1..MaxBuildRuns
        BY <1>1, <2>4
    <3> DEFINE r == [dirs[proc[p].own] EXCEPT !.built = proc[p].found]
    <3>3. r = [built |-> proc[p].found, archives |-> dirs[proc[p].own].archives,
               sums |-> dirs[proc[p].own].sums]
        BY <3>2 DEF DirsOK
    <3>4. /\ r = [built |-> r.built, archives |-> r.archives, sums |-> r.sums]
          /\ r.built = proc[p].found /\ r.archives = dirs[proc[p].own].archives
        BY <3>3
    <3> HIDE DEF r
    <3>5. DirsOK' /\ dirs'[proc[p].own] = r
          /\ \A e \in (1..MaxBuildRuns) \ {proc[p].own} : dirs'[e] = dirs[e]
        BY <3>1, <3>2, <3>4, DirSet DEF r
    <3> QED
        BY <3>4, <3>5
  <2>6. Whole(proc[p].own)'
      BY <1>1, <1>2, <1>4, <2>3, <2>5 DEF WholeOK, Whole, Go!TreeValid
  <2>7. StepOf(p)
      BY <1>1, <1>2, <2>2 DEF StepOf, SeenOK
  <2>8. Building(p)' /\ ~Holding(p)' /\ PackOf(p)' /\ VerifyOf(p)'
      BY <2>3, <2>4 DEF Building, Holding, PackOf, VerifyOf
  <2>9. Free(p, proc[p].own) /\ Free(p, output')
      BY <1>2, OwnIsFree, NoneIsFree
  <2>10. output' # 0 => Whole(output)'
      BY <1>1, <1>2, <2>4, <2>5 DEF WholeOK, Whole
  <2>11. ArchivesOK'
      BY <1>1, <1>2, <2>5 DEF ArchivesOK
  <2>12. Go!OutputStays'
      BY <1>1, <1>2, <2>2 DEF Go!OutputStays, Go!Swapping
  <2> QED
      BY <1>1, <1>2, <2>3, <2>4, <2>5, <2>6, <2>7, <2>8, <2>9, <2>10, <2>11, <2>12, StepKeeps
<1> QED
    BY <1>3, <1>4

LEMMA MoveAwayKeeps ==
    ASSUME GoInv, NEW p \in Process, Go!MoveAway(p)
    PROVE  GoInv'
<1>1. /\ ProcOK /\ SeenOK /\ NumbersOK /\ Apart /\ WholeOK /\ Go!OutputStays /\ ArchivesOK /\ DirsOK
      /\ MaxBuildRuns \in Nat /\ runs \in Nat /\ output \in 0..runs /\ runs \in runs..MaxBuildRuns
      /\ proc[p].own \in 0..runs /\ proc[p].old \in 0..runs
    BY BuilderFacts
<1>2. /\ proc[p].pc = "away" /\ UNCHANGED <<config, dirs, runs, seen>>
      /\ p \notin Go!Swapping /\ Building(p)
    BY DEF Go!MoveAway, Go!Swapping, Building
<1>3. CASE Go!Fail(p) /\ UNCHANGED output
    BY <1>2, <1>3, BuildFails
<1>4. CASE /\ output # 0 /\ output' = 0
           /\ proc' = [proc EXCEPT ![p].pc = "place", ![p].old = output]
  <2>1. ProcOK' /\ \A q \in Process \ {p} : proc'[q] = proc[q]
      BY <1>1, <1>4 DEF ProcOK
  <2>2. proc'[p].pc = "place" /\ proc'[p].own = proc[p].own /\ proc'[p].old = output
    <3>1. proc' = [proc EXCEPT ![p] = [proc[p] EXCEPT !.pc = "place", !.old = output]]
        BY <1>4
    <3>2. /\ p \in DOMAIN proc
          /\ proc[p] = [pc |-> proc[p].pc, own |-> proc[p].own, todo |-> proc[p].todo,
                        found |-> proc[p].found, old |-> proc[p].old, stage |-> proc[p].stage,
                        now |-> proc[p].now]
        BY <1>1 DEF ProcOK
    <3> QED
        BY <3>1, <3>2
  <2>3. StepOf(p)
      BY <1>1, <1>2, <2>1 DEF StepOf, SeenOK
  <2>4. /\ proc[p].own \notin {0, output} /\ Free(p, proc[p].own) /\ Free(p, output) /\ Free(p, 0)
      BY <1>1, <1>2, OwnIsFree, NoneIsFree DEF Apart, NumbersOK
  <2>5. PackOf(p)' /\ VerifyOf(p)'
      BY <2>2 DEF PackOf, VerifyOf
  <2>6. Whole(proc[p].own)' /\ Whole(proc[p].old)'
      BY <1>1, <1>2, <1>4, <2>2 DEF WholeOK, Whole
  <2>7. DirsOK' /\ ArchivesOK' /\ \A d \in (1..MaxBuildRuns) \ {0} : dirs'[d].built = dirs[d].built
      BY <1>1, <1>2 DEF DirsOK, ArchivesOK
  <2>8. p \in Go!Swapping'
      BY <1>4, <2>2 DEF Go!Swapping
  <2>9. Go!OutputStays'
      BY <2>8 DEF Go!OutputStays
  <2>10. /\ runs' \in runs..MaxBuildRuns /\ output' = 0 /\ output' \in 0..runs'
         /\ proc'[p].own \in 0..runs' /\ proc'[p].old \in 0..runs'
      BY <1>1, <1>2, <1>4, <2>2
  <2>11. /\ proc'[p].own \notin {0, output'} /\ Free(p, proc'[p].own) /\ Free(p, output')
         /\ proc'[p].old # output' /\ Free(p, proc'[p].old) /\ proc'[p].own # proc'[p].old
      BY <1>4, <2>2, <2>4
  <2> QED
      BY <2>2, <2>3, <2>4, <2>5, <2>6, <2>7, <2>9, <2>10, <2>11, StepKeeps
<1> QED
    BY <1>2, <1>3, <1>4 DEF Go!MoveAway

LEMMA PlaceKeeps ==
    ASSUME GoInv, NEW p \in Process, Go!Place(p)
    PROVE  GoInv'
<1>1. /\ ProcOK /\ SeenOK /\ NumbersOK /\ Apart /\ WholeOK /\ Go!OutputStays /\ ArchivesOK /\ DirsOK
      /\ MaxBuildRuns \in Nat /\ runs \in Nat /\ output \in 0..runs /\ runs \in runs..MaxBuildRuns
      /\ proc[p].own \in 0..runs /\ proc[p].old \in 0..runs
    BY BuilderFacts
<1>2. /\ proc[p].pc = "place" /\ UNCHANGED <<config, dirs, runs>> /\ Building(p)
      /\ (proc[p].old # 0 => Holding(p) /\ Free(p, proc[p].old))
    BY OldIsFree DEF Go!Place, Building, Holding
<1>3. /\ Whole(proc[p].own) /\ proc[p].own # 0 /\ Free(p, proc[p].own) /\ Free(p, output)
      /\ proc[p].old # 0 => Whole(proc[p].old) /\ proc[p].own # proc[p].old /\ proc[p].old # output
    BY <1>1, <1>2, OwnIsFree, NoneIsFree DEF WholeOK, NumbersOK, Apart
<1>4. DirsOK' /\ \A d \in (1..MaxBuildRuns) \ {proc[p].own} : dirs'[d].built = dirs[d].built
    BY <1>1, <1>2 DEF DirsOK
<1>5. CASE /\ output = 0 /\ output' = proc[p].own
           /\ seen' = [seen EXCEPT !.placed = TRUE]
           /\ Go!Step(p, IF proc[p].old = 0 THEN "built" ELSE "clean")
  <2>1. ProcOK' /\ \A q \in Process \ {p} : proc'[q] = proc[q]
      BY <1>1, <1>5 DEF ProcOK, Go!Step
  <2>2. /\ proc'[p].pc = (IF proc[p].old = 0 THEN "built" ELSE "clean")
        /\ proc'[p].own = proc[p].own /\ proc'[p].old = proc[p].old
      BY <1>1, <1>5 DEF ProcOK, Go!Step
  <2>3. SeenOK' /\ seen'.raced = seen.raced
      BY <1>1, <1>5 DEF SeenOK
  <2>4. StepOf(p)
      BY <1>2, <2>1, <2>3 DEF StepOf
  <2>5. ~Building(p)' /\ (Holding(p)' => proc[p].old # 0) /\ PackOf(p)' /\ VerifyOf(p)'
      BY <2>2 DEF Building, Holding, PackOf, VerifyOf
  <2>6. Whole(output)'
      BY <1>2, <1>3, <1>5 DEF Whole
  <2>7. ArchivesOK' /\ Go!OutputStays'
      BY <1>1, <1>2, <1>3, <1>5, <2>3 DEF ArchivesOK, Go!OutputStays
  <2>8. /\ runs' \in runs..MaxBuildRuns /\ output' \in 0..runs'
        /\ proc'[p].own \in 0..runs' /\ proc'[p].old \in 0..runs'
      BY <1>1, <1>2, <1>5, <2>2
  <2>9. Free(p, output') /\ (Holding(p)' => proc'[p].old # output' /\ Free(p, proc'[p].old))
      BY <1>2, <1>3, <1>5, <2>2, <2>5
  <2>10. /\ proc'[p].pc \notin {"compile", "away", "place", "restore"}
         /\ proc'[p].pc \in {"restore", "clean"} => proc'[p].old # 0
      BY <2>2
  <2> QED
      BY <1>3, <1>4, <2>4, <2>5, <2>6, <2>7, <2>8, <2>9, <2>10, StepKeeps
<1>6. CASE Go!Step(p, Go!AfterPlaceFailed(proc[p].old)) /\ UNCHANGED <<output, seen>>
  <2>1. CASE proc[p].old = 0
    <3>1. Go!Fail(p) /\ p \notin Go!Swapping
        BY <1>6, <2>1 DEF Go!AfterPlaceFailed, Go!Fail, Go!Swapping
    <3> QED
        BY <1>2, <1>6, <3>1, BuildFails
  <2>2. CASE proc[p].old # 0
    <3>1. Go!Step(p, "restore")
        BY <1>6, <2>2 DEF Go!AfterPlaceFailed
    <3>2. ProcOK' /\ \A q \in Process \ {p} : proc'[q] = proc[q]
        BY <1>1, <3>1 DEF ProcOK, Go!Step
    <3>3. proc'[p].pc = "restore" /\ proc'[p].own = proc[p].own /\ proc'[p].old = proc[p].old
        BY <1>1, <3>1 DEF ProcOK, Go!Step
    <3>4. StepOf(p)
        BY <1>1, <1>2, <1>6, <3>2 DEF StepOf, SeenOK
    <3>5. ~Building(p)' /\ PackOf(p)' /\ VerifyOf(p)'
        BY <3>3 DEF Building, PackOf, VerifyOf
    <3>6. (output' # 0 => Whole(output)') /\ Whole(proc[p].old)'
        BY <1>1, <1>2, <1>3, <1>6, <2>2, <3>3 DEF WholeOK, Whole
    <3>7. ArchivesOK'
        BY <1>1, <1>2, <1>6 DEF ArchivesOK
    <3>8. p \in Go!Swapping'
        BY <2>2, <3>3 DEF Go!Swapping
    <3>9. Go!OutputStays'
        BY <3>8 DEF Go!OutputStays
    <3>10. /\ runs' \in runs..MaxBuildRuns /\ output' \in 0..runs'
           /\ proc'[p].own \in 0..runs' /\ proc'[p].old \in 0..runs'
        BY <1>1, <1>2, <1>6, <3>3
    <3>11. Free(p, output') /\ proc'[p].old # output' /\ proc'[p].old # 0 /\ Free(p, proc'[p].old)
        BY <1>2, <1>3, <1>6, <2>2, <3>3
    <3> QED
        BY <1>3, <1>4, <3>3, <3>4, <3>5, <3>6, <3>7, <3>9, <3>10, <3>11, StepKeeps
  <2> QED
      BY <2>1, <2>2
<1> QED
    BY <1>5, <1>6 DEF Go!Place

LEMMA RestoreKeeps ==
    ASSUME GoInv, NEW p \in Process, Go!Restore(p)
    PROVE  GoInv'
<1>1. /\ ProcOK /\ SeenOK /\ NumbersOK /\ Apart /\ WholeOK /\ Go!OutputStays /\ ArchivesOK /\ DirsOK
      /\ MaxBuildRuns \in Nat /\ runs \in Nat /\ output \in 0..runs /\ runs \in runs..MaxBuildRuns
      /\ proc[p].own \in 0..runs /\ proc[p].old \in 0..runs
    BY BuilderFacts
<1>2. proc[p].pc = "restore" /\ Go!Fail(p) /\ UNCHANGED <<config, dirs, runs>> /\ proc[p].old # 0
    BY <1>1 DEF Go!Restore, NumbersOK
<1>3. CASE output = 0 /\ output' = proc[p].old /\ UNCHANGED seen
  <2>1. ProcOK' /\ \A q \in Process \ {p} : proc'[q] = proc[q]
      BY <1>1, <1>2 DEF ProcOK, Go!Fail, Go!Step
  <2>2. proc'[p].pc = "failed" /\ proc'[p].own = proc[p].own /\ proc'[p].old = proc[p].old
      BY <1>1, <1>2 DEF ProcOK, Go!Fail, Go!Step
  <2>3. StepOf(p)
      BY <1>1, <1>2, <1>3, <2>1 DEF StepOf, SeenOK
  <2>4. ~Building(p)' /\ ~Holding(p)' /\ PackOf(p)' /\ VerifyOf(p)'
      BY <2>2 DEF Building, Holding, PackOf, VerifyOf
  <2>5. Free(p, proc[p].old) /\ Free(p, output')
      BY <1>2, <1>3, OldIsFree DEF Holding
  <2>6. Whole(output)'
      BY <1>1, <1>2, <1>3 DEF WholeOK, Whole
  <2>7. DirsOK' /\ ArchivesOK' /\ \A d \in (1..MaxBuildRuns) \ {proc[p].old} : dirs'[d].built = dirs[d].built
      BY <1>1, <1>2, <1>3 DEF DirsOK, ArchivesOK
  <2>8. Go!OutputStays'
      BY <1>2, <1>3 DEF Go!OutputStays
  <2>9. /\ runs' \in runs..MaxBuildRuns /\ output' \in 0..runs'
        /\ proc'[p].own \in 0..runs' /\ proc'[p].old \in 0..runs'
      BY <1>1, <1>2, <1>3, <2>2
  <2>10. proc'[p].pc \notin {"compile", "away", "place", "restore", "clean"}
      BY <2>2
  <2> QED
      BY <2>3, <2>4, <2>5, <2>6, <2>7, <2>8, <2>9, <2>10, StepKeeps
<1>4. CASE seen' = [seen EXCEPT !.lost = @ \/ output = 0] /\ UNCHANGED output
  <2>1. /\ SeenOK' /\ seen'.placed = seen.placed /\ seen'.raced = seen.raced
        /\ seen'.lost = (seen.lost \/ output = 0)
      BY <1>1, <1>4 DEF SeenOK
  <2> QED
      BY <1>2, <1>4, <2>1, FailKeeps
<1> QED
    BY <1>3, <1>4 DEF Go!Restore

\* The directory of a build is emptied.
LEMMA CleanKeeps ==
    ASSUME GoInv, NEW p \in Process, Go!Clean(p)
    PROVE  GoInv'
<1>1. /\ ProcOK /\ SeenOK /\ NumbersOK /\ Apart /\ WholeOK /\ Go!OutputStays /\ ArchivesOK /\ DirsOK
      /\ MaxBuildRuns \in Nat /\ runs \in Nat /\ output \in 0..runs /\ runs \in runs..MaxBuildRuns
      /\ proc[p].own \in 0..runs /\ proc[p].old \in 0..runs
    BY BuilderFacts
<1>2. /\ proc[p].pc = "clean" /\ UNCHANGED <<config, output, runs, seen>> /\ p \notin Go!Swapping
      /\ proc[p].old \in 1..MaxBuildRuns /\ proc[p].old # output /\ Free(p, proc[p].old)
    BY <1>1, OldIsFree DEF Go!Clean, NumbersOK, Apart, Holding, Go!Swapping
<1>3. CASE Go!Fail(p) /\ UNCHANGED dirs
    BY <1>2, <1>3, BuildFails
<1>4. CASE dirs' = [dirs EXCEPT ![proc[p].old] = Go!EmptyDir] /\ Go!Step(p, "built")
  <2>1. ProcOK' /\ \A q \in Process \ {p} : proc'[q] = proc[q]
      BY <1>1, <1>4 DEF ProcOK, Go!Step
  <2>2. proc'[p].pc = "built" /\ proc'[p].own = proc[p].own /\ proc'[p].old = proc[p].old
      BY <1>1, <1>4 DEF ProcOK, Go!Step
  <2>3. StepOf(p)
      BY <1>1, <1>2, <2>1 DEF StepOf, SeenOK
  <2>4. /\ DirsOK' /\ dirs'[proc[p].old].archives = <<>>
        /\ \A d \in (1..MaxBuildRuns) \ {proc[p].old} : dirs'[d] = dirs[d]
    <3>1. /\ Go!EmptyDir = [built |-> Go!EmptyDir.built, archives |-> Go!EmptyDir.archives, sums |-> Go!EmptyDir.sums]
          /\ Go!EmptyDir.archives = <<>>
        BY DEF Go!EmptyDir
    <3> QED
        BY <1>1, <1>2, <1>4, <3>1, DirSet
  <2>5. ArchivesOK'
    <3> SUFFICES ASSUME ~seen.raced', NEW d \in 1..MaxBuildRuns, NEW t \in DOMAIN dirs'[d].archives
                 PROVE  dirs'[d].archives[t] = d
        BY DEF ArchivesOK
    <3>1. d # proc[p].old
        BY <2>4, EmptyMap
    <3> QED
        BY <1>1, <1>2, <2>4, <3>1 DEF ArchivesOK
  <2>6. ~Building(p)' /\ ~Holding(p)' /\ PackOf(p)' /\ VerifyOf(p)' /\ Free(p, output')
      BY <1>2, <2>2, NoneIsFree DEF Building, Holding, PackOf, VerifyOf
  <2>7. output' # 0 => Whole(output)'
      BY <1>1, <1>2, <2>4 DEF WholeOK, Whole
  <2>8. Go!OutputStays'
      BY <1>1, <1>2, <2>1 DEF Go!OutputStays, Go!Swapping
  <2>9. /\ runs' \in runs..MaxBuildRuns /\ output' \in 0..runs'
        /\ proc'[p].own \in 0..runs' /\ proc'[p].old \in 0..runs'
        /\ proc'[p].pc \notin {"compile", "away", "place", "restore", "clean"}
      BY <1>1, <1>2, <2>2
  <2> QED
      BY <1>2, <2>3, <2>4, <2>5, <2>6, <2>7, <2>8, <2>9, StepKeeps
<1> QED
    BY <1>3, <1>4 DEF Go!Clean

\* Archives and checksums are written beside what is built.
LEMMA WriterKeeps ==
    ASSUME GoInv, NEW p \in Process, StepOf(p), DirsOK', ArchivesOK',
           UNCHANGED <<output, runs>>, \A d \in 1..MaxBuildRuns : dirs'[d].built = dirs[d].built,
           seen'.placed = seen.placed, seen'.lost = seen.lost, p \notin Go!Swapping,
           proc'[p].pc \in {"hash", "done"}, proc'[p].own = proc[p].own, proc'[p].old = proc[p].old
    PROVE  GoInv'
<1>1. /\ NumbersOK /\ WholeOK /\ Go!OutputStays
      /\ MaxBuildRuns \in Nat /\ runs \in Nat /\ output \in 0..runs /\ runs \in runs..MaxBuildRuns
      /\ proc[p].own \in 0..runs /\ proc[p].old \in 0..runs
    BY BuilderFacts
<1>2. ~Building(p)' /\ ~Holding(p)' /\ PackOf(p)' /\ VerifyOf(p)' /\ Free(p, output') /\ Free(p, 0)
    BY NoneIsFree DEF Building, Holding, PackOf, VerifyOf
<1>3. output' # 0 => Whole(output)'
    BY <1>1 DEF WholeOK, Whole
<1>4. Go!OutputStays'
    BY <1>1 DEF Go!OutputStays, Go!Swapping, StepOf
<1>5. /\ runs' \in runs..MaxBuildRuns /\ output' \in 0..runs'
      /\ proc'[p].own \in 0..runs' /\ proc'[p].old \in 0..runs'
      /\ proc'[p].pc \notin {"compile", "away", "place", "restore", "clean"}
    BY <1>1
<1> QED
    BY <1>2, <1>3, <1>4, <1>5, StepKeeps

LEMMA PackKeeps ==
    ASSUME GoInv, NEW p \in Process, Go!Pack(p)
    PROVE  GoInv'
<1>1. /\ ProcOK /\ SeenOK /\ ArchivesOK /\ DirsOK
      /\ MaxBuildRuns \in Nat /\ runs \in Nat /\ output \in 0..runs /\ runs \in runs..MaxBuildRuns
    BY BuilderFacts
<1>2. /\ proc[p].pc = "pack" /\ UNCHANGED <<config, output, runs>> /\ p \notin Go!Swapping
      /\ proc[p].found[proc[p].now] = proc[p].stage
    BY DEF Go!Pack, Go!Swapping, GoInv, PackOK, PackOf
<1>3. CASE Go!Fail(p) /\ UNCHANGED <<dirs, seen>>
    BY <1>2, <1>3, BuildFails
<1>4. CASE /\ output # 0
           /\ dirs' = [dirs EXCEPT ![output].archives =
                           Go!With(@, proc[p].now, proc[p].found[proc[p].now])]
           /\ seen' = [seen EXCEPT !.raced = @ \/ ~Go!StageThere(p)]
           /\ Go!Step(p, "hash")
  <2>1. ProcOK' /\ \A q \in Process \ {p} : proc'[q] = proc[q]
      BY <1>1, <1>4 DEF ProcOK, Go!Step
  <2>2. proc'[p].pc = "hash" /\ proc'[p].own = proc[p].own /\ proc'[p].old = proc[p].old
      BY <1>1, <1>4 DEF ProcOK, Go!Step
  <2>3. /\ SeenOK' /\ seen'.placed = seen.placed /\ seen'.lost = seen.lost
        /\ seen'.raced = (seen.raced \/ ~Go!StageThere(p))
      BY <1>1, <1>4 DEF SeenOK
  <2>4. StepOf(p)
      BY <1>2, <2>1, <2>3 DEF StepOf
  <2> DEFINE old == dirs[output].archives
             new == Go!With(old, proc[p].now, proc[p].stage)
             r == [dirs[output] EXCEPT !.archives = new]
  <2>5. output \in 1..MaxBuildRuns
      BY <1>1, <1>4
  <2>6. /\ r = [built |-> r.built, archives |-> r.archives, sums |-> r.sums]
        /\ r.built = dirs[output].built /\ r.archives = new
    <3> HIDE DEF new
    <3>1. r = [built |-> dirs[output].built, archives |-> new, sums |-> dirs[output].sums]
        BY <1>1, <2>5 DEF DirsOK
    <3> QED
        BY <3>1
  <2>7. dirs' = [dirs EXCEPT ![output] = r]
      BY <1>2, <1>4
  <2> HIDE DEF r
  <2>8. DirsOK' /\ dirs'[output] = r /\ \A d \in (1..MaxBuildRuns) \ {output} : dirs'[d] = dirs[d]
      BY <1>1, <2>5, <2>6, <2>7, DirSet
  <2>9. \A d \in 1..MaxBuildRuns : dirs'[d].built = dirs[d].built
      BY <2>6, <2>8
  <2>10. ArchivesOK'
    <3> SUFFICES ASSUME ~seen'.raced, NEW d \in 1..MaxBuildRuns, NEW t \in DOMAIN dirs'[d].archives
                 PROVE  dirs'[d].archives[t] = d
        BY DEF ArchivesOK
    <3>1. ~seen.raced /\ proc[p].stage = output
        BY <2>3 DEF Go!StageThere
    <3>2. CASE d # output
        BY <1>1, <2>8, <3>1, <3>2 DEF ArchivesOK
    <3>3. CASE d = output
      <4>1. dirs'[d].archives = new /\ \A u \in DOMAIN old : old[u] = output
          BY <1>1, <2>5, <2>6, <2>8, <3>1, <3>3 DEF ArchivesOK
      <4>2. t \in DOMAIN new /\ \A u \in DOMAIN new : new[u] = output
        <5> HIDE DEF old
        <5> QED
          BY <3>1, <4>1 DEF Go!With
      <4> QED
          BY <3>3, <4>1, <4>2
    <3> QED
        BY <3>2, <3>3
  <2> QED
      BY <1>2, <2>2, <2>3, <2>4, <2>8, <2>9, <2>10, WriterKeeps
<1> QED
    BY <1>3, <1>4 DEF Go!Pack

LEMMA WriteSumsKeeps ==
    ASSUME GoInv, NEW p \in Process, Go!WriteSums(p)
    PROVE  GoInv'
<1>1. /\ ProcOK /\ SeenOK /\ ArchivesOK /\ DirsOK
      /\ MaxBuildRuns \in Nat /\ runs \in Nat /\ output \in 0..runs /\ runs \in runs..MaxBuildRuns
    BY BuilderFacts
<1>2. proc[p].pc = "sums" /\ UNCHANGED <<config, output, runs, seen>> /\ p \notin Go!Swapping
    BY DEF Go!WriteSums, Go!Swapping
<1>3. CASE output = 0
    BY <1>2, <1>3, BuildFails DEF Go!WriteSums
<1>4. CASE output # 0
  <2>1. dirs' = [dirs EXCEPT ![output].sums = proc[p].found] /\ Go!Step(p, "done")
      BY <1>4 DEF Go!WriteSums
  <2>2. ProcOK' /\ \A q \in Process \ {p} : proc'[q] = proc[q]
      BY <1>1, <2>1 DEF ProcOK, Go!Step
  <2>3. proc'[p].pc = "done" /\ proc'[p].own = proc[p].own /\ proc'[p].old = proc[p].old
      BY <1>1, <2>1 DEF ProcOK, Go!Step
  <2>4. StepOf(p)
      BY <1>1, <1>2, <2>2 DEF StepOf, SeenOK
  <2> DEFINE r == [dirs[output] EXCEPT !.sums = proc[p].found]
  <2>5. output \in 1..MaxBuildRuns
      BY <1>1, <1>4
  <2>6. /\ r = [built |-> r.built, archives |-> r.archives, sums |-> r.sums]
        /\ r.built = dirs[output].built /\ r.archives = dirs[output].archives
    <3>1. r = [built |-> dirs[output].built, archives |-> dirs[output].archives, sums |-> proc[p].found]
        BY <1>1, <2>5 DEF DirsOK
    <3> QED
        BY <3>1
  <2>7. dirs' = [dirs EXCEPT ![output] = r]
      BY <2>1
  <2> HIDE DEF r
  <2>8. DirsOK' /\ dirs'[output] = r /\ \A d \in (1..MaxBuildRuns) \ {output} : dirs'[d] = dirs[d]
      BY <1>1, <2>5, <2>6, <2>7, DirSet
  <2>9. \A d \in 1..MaxBuildRuns : dirs'[d].built = dirs[d].built /\ dirs'[d].archives = dirs[d].archives
      BY <2>6, <2>8
  <2>10. ArchivesOK'
      BY <1>1, <1>2, <2>9 DEF ArchivesOK
  <2> QED
      BY <1>1, <1>2, <2>3, <2>4, <2>8, <2>9, <2>10, WriterKeeps DEF SeenOK
<1> QED
    BY <1>3, <1>4

LEMMA NextInv == GoInv /\ [Go!Next]_(Go!vars) => GoInv'
<1> SUFFICES ASSUME GoInv, [Go!Next]_(Go!vars) PROVE GoInv'
    OBVIOUS
<1>1. ASSUME NEW p \in Process,
             \/ Go!StartBuild(p) \/ Go!CompileTarget(p) \/ Go!Validate(p) \/ Go!MoveAway(p) \/ Go!Place(p)
             \/ Go!Restore(p) \/ Go!Clean(p)
      PROVE  GoInv'
    BY <1>1, StartBuildKeeps, CompileKeeps, ValidateKeeps, MoveAwayKeeps, PlaceKeeps,
       RestoreKeeps, CleanKeeps
<1>2. ASSUME NEW p \in Process,
             \/ Go!Built(p) \/ Go!StartArchives(p) \/ Go!Stage(p) \/ Go!Pack(p) \/ Go!Hash(p) \/ Go!StartChecksums(p)
             \/ Go!WriteSums(p)
      PROVE  GoInv'
    BY <1>2, StartsKeep, ArchiverKeeps, PackKeeps, WriteSumsKeeps
<1>3. ASSUME NEW p \in Process,
             \/ Go!StartVerify(p) \/ Go!Snapshot(p) \/ Go!Extract(p) \/ Go!StartReproduce(p)
             \/ Go!GoOnReproduce(p) \/ Go!ProduceRun(p) \/ Go!CompareRuns(p) \/ Go!Killed(p)
      PROVE  GoInv'
    BY <1>3, StartsKeep, VerifierKeeps, ReproducerKeeps, KilledKeeps
<1>4. CASE UNCHANGED Go!vars
    BY <1>4 DEF Go!vars, GoInv, GoTypes, DirsOK, ProcOK, SeenOK, NumbersOK, Building, Apart,
         Holding, WholeOK, Whole, Go!OutputStays, Go!Swapping, ArchivesOK, PackOK, PackOf,
         VerifyOK, VerifyOf, Go!Targets
<1> QED
    BY <1>1, <1>2, <1>3, <1>4 DEF Go!Next

LEMMA OfGo ==
    ASSUME part = "go" => GoInv, [DeliverNext]_allVars
    PROVE  part' = "go" => GoInv'
<1>1. CASE part = "go" /\ Go!Next /\ UNCHANGED part
    BY <1>1, NextInv
<1>2. CASE part # "go" /\ UNCHANGED part
    BY <1>2
<1>3. CASE UNCHANGED allVars
    BY <1>3, NextInv DEF allVars, goVars, Go!vars
<1> QED
    BY <1>1, <1>2, <1>3 DEF DeliverNext

\* The output directory stands: what is in it is usable, it is missing only while it is being
\* replaced, and a verified release is of one build (OutputStands, build.ts replaceOutput).
THEOREM OutputAlwaysStands == DeliverSpec => []OutputStands
<1>1. DeliverInit => (part = "go" => GoInv)
    BY InitInv DEF DeliverInit
<1>2. (part = "go" => GoInv) /\ [DeliverNext]_allVars => (part = "go" => GoInv)'
    BY OfGo
<1>3. (part = "go" => GoInv) => OutputStands
    BY InvMeans DEF OutputStands
<1> QED
    BY <1>1, <1>2, <1>3, PTL DEF DeliverSpec

------------------------------------------------------------------------------
\* Lists that are joined

\* A property of the naturals up to n that is not true of all of them has a first exception.
LEMMA HasLeast ==
    ASSUME NEW K \in SUBSET Nat, K # {}
    PROVE  \E k \in K : \A m \in K : k <= m
<1> DEFINE R == {ss \in Nat \X Nat : ss[1] < ss[2]}
<1>1. IsWellFoundedOn(R, Nat) BY NatLessThanWellFounded DEF OpToRel
<1>2. PICK x \in K : \A y \in K : <<y, x>> \notin R
      <2> HIDE DEF R
      <2> QED BY <1>1, WFMin
<1>3. ASSUME NEW m \in K PROVE x <= m
      <2>1. ~(m < x) BY <1>2
      <2> QED BY <2>1
<1> QED BY <1>2, <1>3

\* The lists that FlattenSeq joins, one after the other.
Joins(s, f, n) == f = [i \in 1..n |-> IF i = 1 THEN s[i] ELSE f[i-1] \o s[i]]

LEMMA JoinsExists ==
    ASSUME NEW s, NEW l \in Nat
    PROVE  \A n \in 0..l : \E f : Joins(s, f, n)
<1> DEFINE K == {n \in 0..l : ~ \E f : Joins(s, f, n)}
<1>1. SUFFICES ASSUME K # {} PROVE FALSE OBVIOUS
<1>2. K \subseteq 0..l OBVIOUS
<1>3. PICK n \in K : \A m \in K : n <= m
      <2>1. K \subseteq Nat BY <1>2
      <2> HIDE DEF K
      <2> QED BY <1>1, <2>1, HasLeast
<1>4. n \in Nat /\ n <= l BY <1>2, <1>3
<1>5. n # 0
      <2>1. Joins(s, [i \in {} |-> 0], 0) BY 1..0 = {} DEF Joins
      <2> QED BY <2>1
<1>6. n - 1 \in 0..l /\ n - 1 \notin K
      <2>1. n - 1 \in 0..l /\ ~(n <= n - 1) BY <1>4, <1>5
      <2> HIDE DEF K
      <2> QED BY <1>3, <2>1
<1>7. PICK f : Joins(s, f, n - 1) BY <1>6
<1> DEFINE g == [i \in 1..n |-> IF i = n THEN (IF n = 1 THEN s[n] ELSE f[n-1] \o s[n]) ELSE f[i]]
<1>8. \A i \in 1..(n - 1) : g[i] = f[i] BY <1>4, <1>5
<1>9. \A i \in 1..(n - 1) : f[i] = IF i = 1 THEN s[i] ELSE f[i-1] \o s[i]
      BY <1>7 DEF Joins
<1>10. \A i \in 1..n : g[i] = IF i = 1 THEN s[i] ELSE g[i-1] \o s[i]
      <2> TAKE i \in 1..n
      <2>1. CASE i = n BY <1>4, <1>5, <1>8, <2>1
      <2>2. CASE i # n
            <3>1. i \in 1..(n-1) /\ (i # 1 => i - 1 \in 1..(n-1)) BY <1>4, <1>5, <2>2
            <3> QED BY <1>8, <1>9, <2>2, <3>1
      <2> QED BY <2>1, <2>2
<1>11. Joins(s, g, n)
      <2>1. g = [i \in 1..n |-> g[i]] OBVIOUS
      <2> HIDE DEF g
      <2> QED BY <1>10, <2>1 DEF Joins
<1> QED BY <1>3, <1>11

LEMMA FlattenJoins ==
    ASSUME NEW s, Len(s) \in Nat \ {0}
    PROVE  \E f : Joins(s, f, Len(s)) /\ FlattenSeq(s) = f[Len(s)]
<1> DEFINE F == CHOOSE f : f = [i \in 1..Len(s) |-> IF i = 1 THEN s[i] ELSE f[i-1] \o s[i]]
<1>1. Joins(s, F, Len(s))
      <2>1. \E f : f = [i \in 1..Len(s) |-> IF i = 1 THEN s[i] ELSE f[i-1] \o s[i]]
            <3>1. Len(s) \in 0..Len(s) OBVIOUS
            <3>2. \E f : Joins(s, f, Len(s)) BY <3>1, JoinsExists
            <3> QED BY <3>2 DEF Joins
      <2>2. F = [i \in 1..Len(s) |-> IF i = 1 THEN s[i] ELSE F[i-1] \o s[i]] BY <2>1
      <2> HIDE DEF F
      <2> QED BY <2>2 DEF Joins
<1>2. FlattenSeq(s) = F[Len(s)] BY DEF FlattenSeq
<1> HIDE DEF F
<1> QED BY <1>1, <1>2

LEMMA Concatenation ==
    ASSUME NEW S, NEW a \in Seq(S), NEW b \in Seq(S)
    PROVE  /\ a \o b \in Seq(S) /\ Range(a \o b) = Range(a) \cup Range(b)
           /\ IsInjective(a \o b) => IsInjective(a) /\ Range(a) \cap Range(b) = {}
<1>1. /\ a \o b \in Seq(S) /\ Len(a \o b) = Len(a) + Len(b)
      /\ DOMAIN a = 1..Len(a) /\ DOMAIN b = 1..Len(b) /\ DOMAIN (a \o b) = 1..(Len(a) + Len(b))
      /\ Len(a) \in Nat /\ Len(b) \in Nat
      OBVIOUS
<1>2. \A i \in 1..Len(a) : i \in DOMAIN (a \o b) /\ (a \o b)[i] = a[i] BY <1>1
<1>3. \A i \in 1..Len(b) : i + Len(a) \in DOMAIN (a \o b) /\ (a \o b)[i + Len(a)] = b[i] BY <1>1
<1>4. \A i \in DOMAIN (a \o b) : i \in 1..Len(a) \/ \E k \in 1..Len(b) : i = k + Len(a)
      <2> TAKE i \in DOMAIN (a \o b)
      <2>1. CASE i > Len(a)
            <3>1. i - Len(a) \in 1..Len(b) /\ i = (i - Len(a)) + Len(a) BY <1>1, <2>1
            <3> QED BY <3>1
      <2>2. CASE ~(i > Len(a)) BY <1>1, <2>2
      <2> QED BY <2>1, <2>2
<1>5. Range(a \o b) = Range(a) \cup Range(b)
      <2> DEFINE c == a \o b
      <2> HIDE DEF c
      <2>1. Range(c) \subseteq Range(a) \cup Range(b) BY <1>1, <1>2, <1>3, <1>4 DEF Range, c
      <2>2. Range(a) \subseteq Range(c) BY <1>1, <1>2 DEF Range, c
      <2>3. Range(b) \subseteq Range(c) BY <1>1, <1>3 DEF Range, c
      <2> QED BY <2>1, <2>2, <2>3 DEF c
<1>6. ASSUME IsInjective(a \o b)
      PROVE  IsInjective(a) /\ Range(a) \cap Range(b) = {}
      <2>1. \A i, k \in DOMAIN (a \o b) : (a \o b)[i] = (a \o b)[k] => i = k BY <1>6 DEF IsInjective
      <2>2. IsInjective(a) BY <1>1, <1>2, <2>1 DEF IsInjective
      <2>3. \A i \in 1..Len(a), k \in 1..Len(b) : i # k + Len(a) BY <1>1
      <2>4. \A i \in 1..Len(a), k \in 1..Len(b) : a[i] # b[k] BY <1>2, <1>3, <2>1, <2>3
      <2> QED BY <1>1, <2>2, <2>4 DEF Range
<1> QED BY <1>1, <1>5, <1>6

LEMMA Flattened ==
    ASSUME NEW S, NEW s \in Seq(Seq(S))
    PROVE  /\ FlattenSeq(s) \in Seq(S)
           /\ Range(FlattenSeq(s)) = UNION {Range(s[i]) : i \in 1..Len(s)}
           /\ IsInjective(FlattenSeq(s)) =>
                \A i, j \in 1..Len(s) : i # j => Range(s[i]) \cap Range(s[j]) = {}
<1>1. Len(s) \in Nat OBVIOUS
<1>2. CASE Len(s) = 0
      <2>1. FlattenSeq(s) = s /\ s = <<>> /\ 1..Len(s) = {} BY <1>2 DEF FlattenSeq
      <2>2. Range(s) = {} BY <2>1 DEF Range
      <2> QED BY <2>1, <2>2
<1>3. CASE Len(s) # 0
      <2>1. PICK f : Joins(s, f, Len(s)) /\ FlattenSeq(s) = f[Len(s)] BY <1>1, <1>3, FlattenJoins
      <2> DEFINE P(n) == /\ f[n] \in Seq(S)
                         /\ Range(f[n]) = UNION {Range(s[i]) : i \in 1..n}
                         /\ IsInjective(f[n]) =>
                              \A i, j \in 1..n : i # j => Range(s[i]) \cap Range(s[j]) = {}
                 K == {n \in 1..Len(s) : ~P(n)}
      <2>2. \A i \in 1..Len(s) : s[i] \in Seq(S) OBVIOUS
      <2>3. K = {}
            <3>1. SUFFICES ASSUME K # {} PROVE FALSE OBVIOUS
            <3>2. K \subseteq 1..Len(s) OBVIOUS
            <3>3. PICK n \in K : \A m \in K : n <= m
                  <4>1. K \subseteq Nat BY <3>2
                  <4> HIDE DEF K
                  <4> QED BY <3>1, <4>1, HasLeast
            <3>4. n \in 1..Len(s) BY <3>2, <3>3
            <3>5. f[n] = IF n = 1 THEN s[n] ELSE f[n-1] \o s[n] BY <2>1, <3>4 DEF Joins
            <3>6. n # 1
                  <4>1. SUFFICES ASSUME n = 1 PROVE P(1) BY <3>3
                  <4>2. f[1] = s[1] /\ 1..1 = {1} BY <3>5, <4>1
                  <4>3. s[1] \in Seq(S) BY <2>2, <3>4, <4>1
                  <4> QED BY <4>2, <4>3
            <3>7. n - 1 \in 1..Len(s) /\ n - 1 \notin K
                  <4>1. n - 1 \in 1..Len(s) /\ ~(n <= n - 1) BY <1>1, <3>4, <3>6
                  <4> HIDE DEF K
                  <4> QED BY <3>3, <4>1
            <3>8. P(n - 1) BY <3>7
            <3>9. f[n] = f[n-1] \o s[n] /\ s[n] \in Seq(S) BY <2>2, <3>4, <3>5, <3>6
            <3>10. /\ f[n] \in Seq(S) /\ Range(f[n]) = Range(f[n-1]) \cup Range(s[n])
                   /\ IsInjective(f[n]) =>
                        IsInjective(f[n-1]) /\ Range(f[n-1]) \cap Range(s[n]) = {}
                  <4> DEFINE a == f[n-1]
                             b == s[n]
                  <4>1. a \in Seq(S) /\ b \in Seq(S) BY <3>8, <3>9
                  <4> HIDE DEF a, b
                  <4>2. /\ a \o b \in Seq(S) /\ Range(a \o b) = Range(a) \cup Range(b)
                        /\ IsInjective(a \o b) => IsInjective(a) /\ Range(a) \cap Range(b) = {}
                        BY <4>1, Concatenation
                  <4> QED BY <3>9, <4>2 DEF a, b
            <3>11. 1..n = (1..(n - 1)) \cup {n} /\ n \notin 1..(n - 1) BY <1>1, <3>4
            <3>12. Range(f[n]) = UNION {Range(s[i]) : i \in 1..n} BY <3>8, <3>10, <3>11
            <3>13. ASSUME IsInjective(f[n]), NEW i \in 1..n, NEW j \in 1..n, i # j
                   PROVE  Range(s[i]) \cap Range(s[j]) = {}
                   <4>1. /\ \A k, l \in 1..(n - 1) : k # l => Range(s[k]) \cap Range(s[l]) = {}
                         /\ Range(f[n-1]) \cap Range(s[n]) = {}
                         BY <3>8, <3>10, <3>13
                   <4>2. \A k \in 1..(n - 1) : Range(s[k]) \subseteq Range(f[n-1]) BY <3>8
                   <4> QED BY <3>11, <3>13, <4>1, <4>2
            <3>14. P(n) BY <3>10, <3>12, <3>13
            <3> QED BY <3>3, <3>14
      <2>4. P(Len(s))
            <3>1. Len(s) \in 1..Len(s) BY <1>1, <1>3
            <3> QED BY <2>3, <3>1
      <2> HIDE DEF K
      <2> QED BY <2>1, <2>4
<1> QED BY <1>2, <1>3

------------------------------------------------------------------------------
\* Lists

LEMMA ListFacts ==
    ASSUME NEW s, IsList(s)
    PROVE  /\ Len(s) \in Nat /\ DOMAIN s = 1..Len(s)
           /\ Range(s) = {s[i] : i \in 1..Len(s)}
           /\ s = <<>> => Range(s) = {}
BY DEF IsList, Range

LEMMA SequenceIsList == ASSUME NEW S, NEW s \in Seq(S) PROVE IsList(s)
BY DEF IsList, Range

LEMMA TailOfList ==
    ASSUME NEW s, IsList(s), s # <<>>
    PROVE  /\ IsList(Tail(s)) /\ Head(s) \in Range(s)
           /\ Range(s) = {Head(s)} \cup Range(Tail(s))
<1>1. s \in Seq(Range(s)) /\ Tail(s) \in Seq(Range(s)) /\ Len(s) \in Nat \ {0} BY DEF IsList
<1>2. IsList(Tail(s)) BY <1>1, SequenceIsList
<1>3. DOMAIN s = 1..Len(s) /\ Head(s) = s[1] BY <1>1
<1>4. Len(Tail(s)) = Len(s) - 1 /\ DOMAIN Tail(s) = 1..(Len(s) - 1) BY <1>1
<1>5. \A i \in 1..(Len(s) - 1) : Tail(s)[i] = s[i+1] BY <1>1
<1> DEFINE u == Tail(s)
<1> HIDE DEF u
<1>6. Range(u) \subseteq Range(s)
      <2>1. \A i \in 1..(Len(s) - 1) : i + 1 \in 1..Len(s) BY <1>1
      <2> QED BY <1>3, <1>4, <1>5, <2>1 DEF Range, u
<1>7. Head(s) \in Range(s) BY <1>1, <1>3 DEF Range
<1>8. ASSUME NEW i \in 1..Len(s), i # 1 PROVE s[i] \in Range(u)
      <2>1. i - 1 \in 1..(Len(s) - 1) /\ (i - 1) + 1 = i BY <1>1, <1>8
      <2> QED BY <1>4, <1>5, <2>1 DEF Range, u
<1>9. Range(s) \subseteq {Head(s)} \cup Range(u) BY <1>3, <1>8 DEF Range
<1> QED BY <1>2, <1>6, <1>7, <1>9 DEF u

LEMMA AppendToList ==
    ASSUME NEW s, NEW x, IsList(s)
    PROVE  IsList(Append(s, x)) /\ Range(Append(s, x)) = Range(s) \cup {x}
<1> DEFINE S == Range(s) \cup {x}
           u == Append(s, x)
<1>1. s \in Seq(S) /\ DOMAIN s = 1..Len(s) /\ Len(s) \in Nat BY DEF IsList
<1> HIDE DEF S
<1>2. u \in Seq(S) /\ DOMAIN u = 1..(Len(s) + 1) BY <1>1 DEF S
<1>3. (\A i \in 1..Len(s) : u[i] = s[i]) /\ u[Len(s) + 1] = x BY <1>1 DEF S
<1>4. 1..(Len(s) + 1) = (1..Len(s)) \cup {Len(s) + 1} BY <1>1
<1>5. IsList(u) BY <1>2, SequenceIsList
<1> HIDE DEF u
<1>6. Range(u) = Range(s) \cup {x} BY <1>1, <1>2, <1>3, <1>4 DEF Range
<1> QED BY <1>5, <1>6 DEF u

\* What a filter leaves.
LEMMA KeptFacts ==
    ASSUME NEW list, IsList(list), NEW wanted
    PROVE  IsList(Kept(list, wanted)) /\ Range(Kept(list, wanted)) = Range(list) \cap wanted
<1> DEFINE S == Range(list)
           one == [k \in 1..Len(list) |-> IF list[k] \in wanted THEN <<list[k]>> ELSE <<>>]
<1>1. Len(list) \in Nat /\ \A k \in 1..Len(list) : list[k] \in S BY DEF IsList
<1>2. S = {list[k] : k \in 1..Len(list)} BY ListFacts
<1> HIDE DEF S
<1>3. \A k \in 1..Len(list) : one[k] \in Seq(S)
      <2>1. \A k \in 1..Len(list) : <<list[k]>> \in Seq(S) BY <1>1
      <2>2. <<>> \in Seq(S) OBVIOUS
      <2> QED BY <2>1, <2>2
<1>4. DOMAIN one = 1..Len(list) /\ one \in Seq(Seq(S)) /\ Len(one) = Len(list)
      BY <1>1, <1>3
<1>5. \A k \in 1..Len(list) : Range(one[k]) = {list[k]} \cap wanted
      <2> TAKE k \in 1..Len(list)
      <2>1. CASE list[k] \in wanted
            <3>1. one[k] = <<list[k]>> BY <2>1
            <3>2. Range(<<list[k]>>) = {list[k]} BY DEF Range
            <3> QED BY <2>1, <3>1, <3>2
      <2>2. CASE list[k] \notin wanted
            <3>1. one[k] = <<>> BY <2>2
            <3>2. Range(<<>>) = {} BY DEF Range
            <3> QED BY <2>2, <3>1, <3>2
      <2> QED BY <2>1, <2>2
<1> HIDE DEF one
<1>6. /\ FlattenSeq(one) \in Seq(S)
      /\ Range(FlattenSeq(one)) = UNION {Range(one[i]) : i \in 1..Len(one)}
      BY <1>4, Flattened
<1>7. IsList(FlattenSeq(one)) BY <1>6, SequenceIsList
<1>8. Range(FlattenSeq(one)) = S \cap wanted BY <1>2, <1>4, <1>5, <1>6
<1> QED BY <1>7, <1>8 DEF Kept, one, S

LEMMA SelectedFacts ==
    ASSUME NEW list, IsList(list), NEW wanted
    PROVE  /\ IsList(Selected(list, wanted))
           /\ Range(Selected(list, wanted)) = {x \in Range(list) : wanted = {} \/ x \in wanted}
<1>1. CASE wanted = {}
      <2>1. {x \in Range(list) : wanted = {} \/ x \in wanted} = Range(list) BY <1>1
      <2>2. Selected(list, wanted) = list BY <1>1 DEF Selected
      <2> QED BY <2>1, <2>2
<1>2. CASE wanted # {}
      <2>1. Selected(list, wanted) = Kept(list, wanted) BY <1>2 DEF Selected
      <2>2. {x \in Range(list) : wanted = {} \/ x \in wanted} = Range(list) \cap wanted BY <1>2
      <2> QED BY <2>1, <2>2, KeptFacts
<1> QED BY <1>1, <1>2

LEMMA SelectedRegistriesFacts ==
    ASSUME NEW list, IsList(list), NEW hosts
    PROVE  /\ IsList(SelectedRegistries(list, hosts))
           /\ Range(SelectedRegistries(list, hosts)) \subseteq Range(list)
<1>1. CASE hosts = {} BY <1>1 DEF SelectedRegistries
<1>2. CASE hosts # {} BY <1>2, KeptFacts DEF SelectedRegistries
<1> QED BY <1>1, <1>2

\* The references of one image.
RefRow(image, r, tags) == [t \in 1..Len(tags) |-> Reference(image, r, tags[t])]
RefSet(image, r, tags) == {Reference(image, r, t) : t \in Range(tags)}

LEMMA RowFacts ==
    ASSUME NEW image, NEW r, NEW tags, IsList(tags)
    PROVE  /\ IsList(RefRow(image, r, tags))
           /\ Range(RefRow(image, r, tags)) = RefSet(image, r, tags)
<1>1. Len(tags) \in Nat /\ Range(tags) = {tags[k] : k \in 1..Len(tags)} BY ListFacts
<1>2. RefRow(image, r, tags) \in Seq(RefSet(image, r, tags)) BY <1>1 DEF RefRow, RefSet
<1>3. Range(RefRow(image, r, tags)) = {Reference(image, r, tags[t]) : t \in 1..Len(tags)}
      BY DEF Range, RefRow
<1>4. @ = RefSet(image, r, tags) BY <1>1 DEF RefSet
<1> QED BY <1>2, <1>3, <1>4, SequenceIsList

LEMMA RefsInFacts ==
    ASSUME NEW image, NEW registries, NEW tags, IsList(registries), IsList(tags)
    PROVE  /\ IsList(RefsIn(image, registries, tags))
           /\ Range(RefsIn(image, registries, tags)) =
                UNION {RefSet(image, r, tags) : r \in Range(registries)}
<1> DEFINE S == UNION {RefSet(image, r, tags) : r \in Range(registries)}
           s == [k \in 1..Len(registries) |-> RefRow(image, registries[k], tags)]
<1>1. Len(registries) \in Nat /\ Range(registries) = {registries[k] : k \in 1..Len(registries)}
      BY ListFacts
<1>2. \A r \in Range(registries) : RefRow(image, r, tags) \in Seq(S)
      <2> TAKE r \in Range(registries)
      <2>1. RefRow(image, r, tags) \in Seq(RefSet(image, r, tags)) BY RowFacts DEF IsList
      <2>2. RefSet(image, r, tags) \subseteq S OBVIOUS
      <2> HIDE DEF S
      <2> QED BY <2>1, <2>2
<1>3. \A k \in 1..Len(registries) : Range(s[k]) = RefSet(image, registries[k], tags)
      BY RowFacts
<1>4. s \in Seq(Seq(S)) /\ Len(s) = Len(registries)
      <2> HIDE DEF S
      <2> QED BY <1>1, <1>2
<1>5. RefsIn(image, registries, tags) = FlattenSeq(s) BY DEF RefsIn, RefRow
<1> HIDE DEF s
<1>6. /\ FlattenSeq(s) \in Seq(S)
      /\ Range(FlattenSeq(s)) = UNION {Range(s[i]) : i \in 1..Len(s)}
      <2> HIDE DEF S
      <2> QED BY <1>4, Flattened
<1>7. IsList(FlattenSeq(s)) BY <1>6, SequenceIsList
<1>8. Range(FlattenSeq(s)) = S BY <1>1, <1>3, <1>4, <1>6
<1> QED BY <1>5, <1>7, <1>8

HasLists(c) == IsList(c.images) /\ IsList(c.registries) /\ IsList(c.tags)

\* The references of a configuration are those of its images, and when it was accepted no
\* two images share one (plan.ts resolveImages refuses a reference that comes twice).
LEMMA AllRefsFacts ==
    ASSUME NEW c, HasLists(c)
    PROVE  /\ IsList(AllRefs(c))
           /\ Range(AllRefs(c)) = UNION {Range(Refs(c, i)) : i \in Range(c.images)}
           /\ IsInjective(AllRefs(c)) =>
                \A i, j \in Range(c.images) : i # j => Range(Refs(c, i)) \cap Range(Refs(c, j)) = {}
<1> DEFINE R(k) == Refs(c, c.images[k])
           s == [k \in 1..Len(c.images) |-> R(k)]
           S == UNION {Range(R(k)) : k \in 1..Len(c.images)}
<1>1. Len(c.images) \in Nat /\ Range(c.images) = {c.images[k] : k \in 1..Len(c.images)}
      BY ListFacts DEF HasLists
<1>2. \A k \in 1..Len(c.images) : R(k) \in Seq(S)
      <2>1. \A k : IsList(R(k)) BY RefsInFacts DEF Refs, HasLists
      <2> HIDE DEF R
      <2>2. ASSUME NEW k \in 1..Len(c.images) PROVE R(k) \in Seq(S)
            <3>1. R(k) \in Seq(Range(R(k))) BY <2>1 DEF IsList
            <3>2. Range(R(k)) \subseteq S OBVIOUS
            <3> HIDE DEF S
            <3> QED BY <3>1, <3>2
      <2> QED BY <2>2
<1>3. AllRefs(c) = FlattenSeq(s) BY DEF AllRefs
<1>4. \A k \in 1..Len(c.images) : s[k] = R(k) OBVIOUS
<1>5. s \in Seq(Seq(S)) /\ Len(s) = Len(c.images)
      <2> HIDE DEF S, R
      <2> QED BY <1>1, <1>2
<1> HIDE DEF s
<1>6. /\ FlattenSeq(s) \in Seq(S)
      /\ Range(FlattenSeq(s)) = UNION {Range(s[i]) : i \in 1..Len(s)}
      /\ IsInjective(FlattenSeq(s)) =>
           \A i, j \in 1..Len(s) : i # j => Range(s[i]) \cap Range(s[j]) = {}
      <2> HIDE DEF S
      <2> QED BY <1>5, Flattened
<1>7. IsList(FlattenSeq(s)) BY <1>6, SequenceIsList
<1>8. Range(FlattenSeq(s)) = UNION {Range(Refs(c, i)) : i \in Range(c.images)}
      BY <1>1, <1>4, <1>5, <1>6
<1>9. ASSUME IsInjective(FlattenSeq(s)), NEW i \in Range(c.images), NEW j \in Range(c.images), i # j
      PROVE  Range(Refs(c, i)) \cap Range(Refs(c, j)) = {}
      <2>1. PICK k, l \in 1..Len(c.images) : i = c.images[k] /\ j = c.images[l] BY <1>1
      <2>2. k # l BY <1>9, <2>1
      <2> QED BY <1>4, <1>5, <1>6, <1>9, <2>1, <2>2
<1> QED BY <1>3, <1>7, <1>8, <1>9

\* What a run may rely on in its plan.
PlanOK(c, shown) ==
    /\ IsList(c.images) /\ IsList(AllRefs(c))
    /\ Range(AllRefs(c)) \subseteq shown \cap Ref
    /\ Range(c.images) \subseteq Image
    /\ Range(AllRefs(c)) = UNION {Range(Refs(c, i)) : i \in Range(c.images)}
    /\ \A i, j \in Range(c.images) : i # j => Range(Refs(c, i)) \cap Range(Refs(c, j)) = {}

LEMMA ConfigHasLists ==
    ASSUME NEW c \in Config
    PROVE  /\ HasLists(c)
           /\ c = [images |-> c.images, registries |-> c.registries, tags |-> c.tags,
                   platforms |-> c.platforms, custom |-> c.custom, export |-> c.export,
                   workers |-> c.workers, auth |-> c.auth, manifest |-> c.manifest,
                   verify |-> c.verify, strict |-> c.strict]
<1>1. ASSUME NEW f \in Files, c = Defaulted(f)
      PROVE  /\ HasLists(c)
             /\ c = [images |-> c.images, registries |-> c.registries, tags |-> c.tags,
                     platforms |-> c.platforms, custom |-> c.custom, export |-> c.export,
                     workers |-> c.workers, auth |-> c.auth, manifest |-> c.manifest,
                     verify |-> c.verify, strict |-> c.strict]
      BY <1>1, AssumptionOfDocker DEF DockerAssumption, Defaulted, Or, HasLists
<1>2. ASSUME NEW f \in Files, NEW a \in Answers, c = Answered(f, a)
      PROVE  /\ HasLists(c)
             /\ c = [images |-> c.images, registries |-> c.registries, tags |-> c.tags,
                     platforms |-> c.platforms, custom |-> c.custom, export |-> c.export,
                     workers |-> c.workers, auth |-> c.auth, manifest |-> c.manifest,
                     verify |-> c.verify, strict |-> c.strict]
      <2>1. /\ IsList(ImagesAnswered(f, a)) /\ IsList(RegistriesAnswered(f, a))
            /\ IsList(TagsAnswered(f, a))
            BY AssumptionOfDocker
            DEF DockerAssumption, ImagesAnswered, RegistriesAnswered, TagsAnswered, Or
      <2>2. f = [images |-> f.images, registries |-> f.registries, tags |-> f.tags,
                 platforms |-> f.platforms, custom |-> f.custom, export |-> f.export,
                 workers |-> f.workers, auth |-> f.auth, manifest |-> f.manifest,
                 verify |-> f.verify, strict |-> f.strict]
            BY AssumptionOfDocker DEF DockerAssumption
      <2> QED BY <1>2, <2>1, <2>2 DEF Answered, HasLists
<1> QED BY <1>1, <1>2 DEF Config

\* What is built, pushed and verified is what the user was shown, of files and answers that
\* were accepted as a whole.
LEMMA NarrowedIsPlanned ==
    ASSUME NEW c \in Config, Accepted(c), NEW f
    PROVE  PlanOK(Narrowed(c, f), Shown(c, f))
<1> DEFINE n == Narrowed(c, f)
           regs == SelectedRegistries(c.registries, f.hosts)
<1>1. HasLists(c) BY ConfigHasLists
<1>2. /\ n.images = Selected(c.images, f.images) /\ n.registries = regs /\ n.tags = c.tags
      <2> DEFINE im == Selected(c.images, f.images)
                 pl == Selected(c.platforms, f.platforms)
      <2>1. n = [c EXCEPT !.images = im, !.platforms = pl, !.registries = regs] BY DEF Narrowed
      <2> HIDE DEF n, regs, im, pl
      <2>2. n.images = im /\ n.registries = regs /\ n.tags = c.tags
            BY <2>1, ConfigHasLists
      <2> QED BY <2>2 DEF im
<1>3. /\ IsList(n.images)
      /\ Range(n.images) = {x \in Range(c.images) : f.images = {} \/ x \in f.images}
      BY <1>1, <1>2, SelectedFacts DEF HasLists
<1>4. IsList(regs) /\ Range(regs) \subseteq Range(c.registries)
      BY <1>1, SelectedRegistriesFacts DEF HasLists
<1> HIDE DEF regs
<1>5. HasLists(n) BY <1>1, <1>2, <1>3, <1>4 DEF HasLists
<1> HIDE DEF n
<1>6. \A i : Range(Refs(n, i)) \subseteq Range(Refs(c, i))
      <2> TAKE i
      <2>1. Range(Refs(n, i)) = UNION {RefSet(i, r, c.tags) : r \in Range(regs)}
            BY <1>1, <1>2, <1>4, RefsInFacts DEF Refs, HasLists
      <2>2. Range(Refs(c, i)) = UNION {RefSet(i, r, c.tags) : r \in Range(c.registries)}
            BY <1>1, RefsInFacts DEF Refs, HasLists
      <2> QED BY <1>4, <2>1, <2>2
<1>7. /\ IsList(AllRefs(n))
      /\ Range(AllRefs(n)) = UNION {Range(Refs(n, i)) : i \in Range(n.images)}
      BY <1>5, AllRefsFacts
<1>8. /\ Range(AllRefs(c)) = UNION {Range(Refs(c, i)) : i \in Range(c.images)}
      /\ \A i, j \in Range(c.images) : i # j => Range(Refs(c, i)) \cap Range(Refs(c, j)) = {}
      BY <1>1, AllRefsFacts DEF Accepted, ImagesAccepted
<1>9. Range(AllRefs(c)) \subseteq Ref /\ Range(c.images) \subseteq Image BY DEF Ref, Image
<1>10. Range(AllRefs(n)) \subseteq Ref /\ Range(n.images) \subseteq Image
      BY <1>3, <1>6, <1>7, <1>8, <1>9
<1>11. Range(AllRefs(n)) \subseteq Shown(c, f)
      <2>1. \A i : Refs(n, i) = RefsIn(i, regs, c.tags) BY <1>2 DEF Refs
      <2> QED BY <1>3, <1>7, <2>1 DEF Shown, regs
<1>12. \A i, j \in Range(n.images) : i # j => Range(Refs(n, i)) \cap Range(Refs(n, j)) = {}
      BY <1>3, <1>6, <1>8
<1> QED BY <1>3, <1>7, <1>10, <1>11, <1>12 DEF PlanOK, n

------------------------------------------------------------------------------
(***************************************************************************)
(* docker-publish.  DockerInv follows an image and a reference through a   *)
(* run: while a pool works, each waits for a worker, or is in the hands of *)
(* one, or is done, unless something failed; what is done stays done,      *)
(* but for references that others touched; and only a pool that is done    *)
(* lets the run go on.                                                     *)
(***************************************************************************)

Refused == {"idle", "failed"}
Planned == run.pc \notin Refused
AfterBuild ==
    \/ run.pc \in {"credentials", "push", "publish", "manifest", "expect", "verify", "ok"}
    \/ run.pc = "login" /\ ~run.ask

References == Range(AllRefs(run.conf))
Images == Range(run.conf.images)

RunFields == {"pc", "id", "conf", "shown", "ask", "ops", "logins", "result"}
IsRun(r) == r = [x \in RunFields |-> r[x]]
TaskFields == {"step", "on", "temp", "digest"}
IsTask(t) == t = [x \in TaskFields |-> t[x]]

DockerShape ==
    /\ IsRun(run)
    /\ pool = [todo |-> pool.todo, busy |-> pool.busy, failed |-> pool.failed]
    /\ IsList(run.result) /\ IsList(pool.todo) /\ pool.failed \in BOOLEAN
    /\ \A t \in pool.busy : IsTask(t)
    /\ local = [r \in Ref |-> local[r]] /\ registry = [r \in Ref |-> registry[r]]
    /\ exports = [i \in Image |-> exports[i]] /\ events \in Nat

PlanKept == Planned => PlanOK(run.conf, run.shown)

\* The pool is idle between the operations and works on what the operation is about.
Tasks(steps, things) ==
    /\ Range(pool.todo) \subseteq things
    /\ \A t \in pool.busy : t.step \in steps /\ t.on \in things

TasksOK ==
    /\ run.pc \notin {"build", "publish", "verify"} => pool.busy = {}
    /\ run.pc = "build" =>
         Tasks(IF run.conf.export THEN {"export"} ELSE {"build", "check", "untag"}, Images)
    /\ run.pc = "publish" => Tasks({"push", "inspect"}, References)
    /\ run.pc = "verify" => Tasks({"verify"}, References)

\* Nothing is pushed of a plan that exports; credentials that a user enters come first.
StageOK ==
    /\ run.pc = "ask" => run.ask
    /\ run.pc \in {"push", "publish", "manifest"} \/ (run.pc = "login" /\ ~run.ask)
         => ~run.conf.export
    /\ run.pc \in {"expect", "verify", "ok"} /\ "push" \in run.ops => ~run.conf.export

Waits(x) == x \in Range(pool.todo) \/ \E t \in pool.busy : t.on = x /\ t.step # "check"

ImageBuilt(i) ==
    /\ run.conf.export => \/ exports[i] = [by |-> run.id, valid |-> TRUE]
                          \/ \E j \in Images \ {i} : Inside(i, j)
    /\ ~run.conf.export /\ ~Multi(run.conf) =>
         \A r \in Range(Refs(run.conf, i)) \ disturbed : local[r] = Content(i)

BuildOK ==
    /\ run.pc = "build" /\ ~pool.failed => \A i \in Images : Waits(i) \/ ImageBuilt(i)
    /\ AfterBuild /\ "build" \in run.ops => \A i \in Images : ImageBuilt(i)

Pushed(r) ==
    r \notin disturbed => registry[r] = local[r] /\ <<r, registry[r]>> \in Range(run.result)

PublishOK ==
    /\ run.pc = "publish" /\ ~pool.failed => \A r \in References : Waits(r) \/ Pushed(r)
    /\ \A t \in pool.busy : t.step = "inspect" /\ t.on \notin disturbed =>
         registry[t.on] = local[t.on] /\ t.digest \in {None, local[t.on]}
    /\ run.pc = "manifest" \/ (run.pc \in {"expect", "verify", "ok"} /\ "push" \in run.ops) =>
         \A r \in References : Pushed(r)
    /\ run.pc \in {"expect", "verify", "ok"} /\ "push" \in run.ops /\ run.conf.manifest =>
         manifest = Range(run.result)

Checked(r) == r \notin disturbed => Verified(r)

ReferencesVerified ==
    /\ run.pc = "verify" /\ ~pool.failed => \A r \in References : Waits(r) \/ Checked(r)
    /\ run.pc = "ok" /\ "verify" \in run.ops => \A r \in References : Checked(r)

DockerInv ==
    /\ DockerShape /\ PlanKept /\ TasksOK /\ StageOK
    /\ BuildOK /\ PublishOK /\ ReferencesVerified

\* What the three parts of a run depend on.
LEMMA ImageBuiltStays ==
    ASSUME run'.conf = run.conf, run'.id = run.id, UNCHANGED <<local, exports, disturbed>>
    PROVE  \A i : ImageBuilt(i)' <=> ImageBuilt(i)
BY DEF ImageBuilt, Images, Content, Inside, Multi

LEMMA PushedStays ==
    ASSUME run'.result = run.result, UNCHANGED <<local, registry, disturbed>>
    PROVE  \A r : Pushed(r)' <=> Pushed(r)
BY DEF Pushed

LEMMA CheckedStays ==
    ASSUME run'.conf = run.conf, run'.ops = run.ops, run'.result = run.result,
           UNCHANGED <<registry, manifest, disturbed>>
    PROVE  \A r : Checked(r)' <=> Checked(r)
BY DEF Checked, Verified, PlatformsMatch, Expected, Multi

\* The same run at q: its plan and what it did stay.
SameRun(q) ==
    /\ IsRun(run')
    /\ run'.pc = q /\ run'.id = run.id /\ run'.conf = run.conf /\ run'.shown = run.shown
    /\ run'.ask = run.ask /\ run'.ops = run.ops /\ run'.result = run.result

LEMMA GotoFacts == ASSUME DockerShape, NEW q, Goto(q) PROVE SameRun(q)
BY DEF DockerShape, Goto, SameRun, IsRun, RunFields

LEMMA LoginFacts ==
    ASSUME DockerShape, NEW q, NEW l, run' = [run EXCEPT !.pc = q, !.logins = l]
    PROVE  SameRun(q)
BY DEF DockerShape, SameRun, IsRun, RunFields

LEMMA StaysFacts ==
    ASSUME DockerShape, UNCHANGED run \/ \E l : run' = [run EXCEPT !.logins = l]
    PROVE  SameRun(run.pc)
<1>1. CASE UNCHANGED run BY <1>1 DEF DockerShape, SameRun
<1>2. ASSUME NEW l, run' = [run EXCEPT !.logins = l] PROVE SameRun(run.pc)
      BY <1>2 DEF DockerShape, SameRun, IsRun, RunFields
<1> QED BY <1>1, <1>2

\* The run goes on to q, with its pool empty or filled for q.
LEMMA Advances ==
    ASSUME DockerInv, NEW q, SameRun(q), UNCHANGED <<local, registry, exports, disturbed, events>>,
           pool' = [todo |-> pool'.todo, busy |-> {}, failed |-> pool'.failed],
           IsList(pool'.todo), pool'.failed \in BOOLEAN,
           q \notin Refused => Planned,
           q = "build" => Range(pool'.todo) = Images,
           q \in {"publish", "verify"} => Range(pool'.todo) = References,
           q = "ask" => run.ask,
           q \in {"push", "publish", "manifest"} \/ (q = "login" /\ ~run.ask) => ~run.conf.export,
           q \in {"expect", "verify", "ok"} /\ "push" \in run.ops =>
             /\ ~run.conf.export /\ \A r \in References : Pushed(r)
             /\ run.conf.manifest => manifest' = Range(run.result),
           q \in {"credentials", "push", "publish", "manifest", "expect", "verify", "ok"}
               \/ (q = "login" /\ ~run.ask) =>
             ("build" \in run.ops => \A i \in Images : ImageBuilt(i)),
           q = "manifest" => \A r \in References : Pushed(r),
           q = "ok" /\ "verify" \in run.ops =>
             UNCHANGED manifest /\ \A r \in References : Checked(r)
    PROVE  DockerInv'
<1>1. /\ run'.pc = q /\ run'.conf = run.conf /\ run'.id = run.id /\ run'.shown = run.shown
      /\ run'.ask = run.ask /\ run'.ops = run.ops /\ run'.result = run.result
      BY DEF SameRun
<1>2. pool'.busy = {} OBVIOUS
<1>3. DockerShape' BY <1>1, <1>2 DEF DockerInv, DockerShape, SameRun
<1>4. PlanKept'
      <2>1. PlanOK(run.conf, run.shown)' <=> PlanOK(run.conf, run.shown)
            BY <1>1 DEF PlanOK
      <2> QED BY <1>1, <2>1 DEF DockerInv, PlanKept, Planned
<1>5. Images' = Images /\ References' = References BY <1>1 DEF Images, References
<1>6. TasksOK' BY <1>1, <1>2, <1>5 DEF TasksOK, Tasks
<1>7. StageOK' BY <1>1 DEF StageOK
<1>8. \A i : ImageBuilt(i)' <=> ImageBuilt(i) BY <1>1, ImageBuiltStays
<1>9. BuildOK'
      <2>1. AfterBuild' => q \in {"credentials", "push", "publish", "manifest", "expect", "verify", "ok"}
               \/ (q = "login" /\ ~run.ask)
            BY <1>1 DEF AfterBuild
      <2>2. \A i \in Images : q = "build" => Waits(i)' BY DEF Waits
      <2> QED BY <1>1, <1>5, <1>8, <2>1, <2>2 DEF BuildOK
<1>10. \A r : Pushed(r)' <=> Pushed(r) BY <1>1, PushedStays
<1>11. PublishOK'
      <2>1. \A r \in References : q = "publish" => Waits(r)' BY DEF Waits
      <2> QED BY <1>1, <1>2, <1>5, <1>10, <2>1 DEF PublishOK
<1>12. ReferencesVerified'
      <2>1. \A r \in References : q = "verify" => Waits(r)' BY DEF Waits
      <2>2. UNCHANGED manifest => \A r : Checked(r)' <=> Checked(r) BY <1>1, CheckedStays
      <2> QED BY <1>1, <1>5, <2>1, <2>2 DEF ReferencesVerified
<1> QED BY <1>3, <1>4, <1>6, <1>7, <1>9, <1>11, <1>12 DEF DockerInv

LEMMA PoolIdle ==
    ASSUME DockerInv, run.pc \notin {"build", "publish", "verify"}
    PROVE  /\ pool = [todo |-> pool.todo, busy |-> {}, failed |-> pool.failed]
           /\ IsList(pool.todo) /\ pool.failed \in BOOLEAN
<1>1. pool.busy = {} BY DEF DockerInv, TasksOK
<1> QED BY <1>1 DEF DockerInv, DockerShape

LEMMA NewPool ==
    ASSUME NEW s, IsList(s), pool' = Pool(s)
    PROVE  /\ pool' = [todo |-> pool'.todo, busy |-> {}, failed |-> pool'.failed]
           /\ pool'.todo = s /\ pool'.failed = FALSE
BY DEF Pool, NoPool

\* Where a run goes after the operation o.
LEMMA AfterFacts ==
    ASSUME NEW o
    PROVE  /\ After(o) \in {"build", "credentials", "expect", "ok"}
           /\ After(o) = "build" => o = "start" /\ "build" \in run.ops
           /\ After(o) = "credentials" => o \in {"start", "build"} /\ "push" \in run.ops
           /\ After(o) = "credentials" /\ o = "start" => "build" \notin run.ops
           /\ After(o) \in {"expect", "ok"} /\ "push" \in run.ops => o \notin {"start", "build"}
           /\ After(o) \in {"expect", "ok"} /\ "build" \in run.ops => o # "start"
           /\ After(o) = "ok" /\ "verify" \in run.ops => o = "verify"
<1> DEFINE builds == o = "start" /\ "build" \in run.ops
           push == o \in {"start", "build"} /\ "push" \in run.ops
           verify == o # "verify" /\ "verify" \in run.ops
<1>1. CASE builds
      <2>1. After(o) = "build" BY <1>1 DEF After
      <2> QED BY <1>1, <2>1
<1>2. CASE ~builds /\ push
      <2>1. After(o) = "credentials" BY <1>2 DEF After
      <2> QED BY <1>2, <2>1
<1>3. CASE ~builds /\ ~push /\ verify BY <1>3 DEF After
<1>4. CASE ~builds /\ ~push /\ ~verify BY <1>4 DEF After
<1> QED BY <1>1, <1>2, <1>3, <1>4

LEMMA AfterVerify == After("verify") = "ok"
<1>1. ~("verify" = "start" /\ "build" \in run.ops) OBVIOUS
<1>2. ~("verify" \in {"start", "build"} /\ "push" \in run.ops) OBVIOUS
<1>3. ~("verify" # "verify" /\ "verify" \in run.ops) OBVIOUS
<1> QED BY <1>1, <1>2, <1>3 DEF After

LEMMA AskKeeps == DockerInv /\ Ask => DockerInv'
<1> SUFFICES ASSUME DockerInv, Ask PROVE DockerInv' OBVIOUS
<1>1. DockerShape /\ run.pc = "ask" /\ run.ask /\ Planned
      BY DEF DockerInv, Ask, StageOK, Planned, Refused
<1>2. UNCHANGED <<local, registry, exports, manifest, disturbed, events, pool>> BY DEF Ask, Quiet, world
<1>3. \E q \in {"failed", "login", "start"} : SameRun(q)
      BY <1>1, GotoFacts, LoginFacts DEF Ask
<1>4. PICK q \in {"failed", "login", "start"} : SameRun(q) BY <1>3
<1> QED BY <1>1, <1>2, <1>4, Advances, PoolIdle

LEMMA LoginKeeps == DockerInv /\ Login => DockerInv'
<1> SUFFICES ASSUME DockerInv, Login PROVE DockerInv' OBVIOUS
<1>1. DockerShape /\ run.pc = "login" /\ Planned /\ (~run.ask => ~run.conf.export)
      BY DEF DockerInv, Login, StageOK, Planned, Refused
<1>2. UNCHANGED <<local, registry, exports, manifest, disturbed, events, pool>> BY DEF Login, Quiet, world
<1>3. ~run.ask /\ "build" \in run.ops => \A i \in Images : ImageBuilt(i)
      BY <1>1 DEF DockerInv, BuildOK, AfterBuild
<1>4. CASE \E q \in {"failed", "login"} : SameRun(q)
      BY <1>1, <1>2, <1>3, <1>4, Advances, PoolIdle
<1>5. CASE SameRun("start")
      BY <1>1, <1>2, <1>5, Advances, PoolIdle
<1>6. CASE ~run.ask /\ SameRun("push")
      BY <1>1, <1>2, <1>3, <1>6, Advances, PoolIdle
<1>7. \/ \E q \in {"failed", "login"} : SameRun(q)
      \/ SameRun("start") \/ (~run.ask /\ SameRun("push"))
      BY <1>1, GotoFacts, StaysFacts DEF Login
<1> QED BY <1>4, <1>5, <1>6, <1>7

LEMMA BeginKeepsPlan == DockerInv /\ Begin => DockerInv'
<1> SUFFICES ASSUME DockerInv, Begin PROVE DockerInv' OBVIOUS
<1>1. DockerShape /\ run.pc = "start" /\ Planned
      BY DEF DockerInv, Begin, Planned, Refused
<1>2. UNCHANGED <<local, registry, exports, manifest, disturbed, events>> BY DEF Begin, Quiet, world
<1>3. SameRun(After("start")) BY <1>1, GotoFacts DEF Begin
<1>4. /\ pool' = [todo |-> pool'.todo, busy |-> {}, failed |-> pool'.failed]
      /\ IsList(pool'.todo) /\ pool'.failed \in BOOLEAN
      /\ After("start") = "build" => Range(pool'.todo) = Images
      <2>1. CASE After("start") = "build"
            <3>1. IsList(run.conf.images) BY <1>1 DEF DockerInv, PlanKept, PlanOK
            <3>2. pool' = Pool(run.conf.images) BY <2>1 DEF Begin
            <3> QED BY <3>1, <3>2, NewPool DEF Images
      <2>2. CASE After("start") # "build"
            <3>1. pool' = pool BY <2>2 DEF Begin
            <3> QED BY <1>1, <2>2, <3>1, PoolIdle
      <2> QED BY <2>1, <2>2
<1> DEFINE q == After("start")
<1>5. /\ q \in {"build", "credentials", "expect", "ok"}
      /\ q = "credentials" => "build" \notin run.ops
      /\ q \in {"expect", "ok"} => "push" \notin run.ops /\ "build" \notin run.ops
      /\ q = "ok" => "verify" \notin run.ops
      BY AfterFacts
<1> HIDE DEF q
<1>6. /\ SameRun(q) /\ (q = "build" => Range(pool'.todo) = Images) BY <1>3, <1>4 DEF q
<1> QED BY <1>1, <1>2, <1>4, <1>5, <1>6, Advances

LEMMA CredentialsKeep == DockerInv /\ Credentials => DockerInv'
<1> SUFFICES ASSUME DockerInv, Credentials PROVE DockerInv' OBVIOUS
<1>1. DockerShape /\ run.pc = "credentials" /\ Planned
      BY DEF DockerInv, Credentials, Planned, Refused
<1>2. UNCHANGED <<local, registry, exports, manifest, disturbed, events, pool>>
      BY DEF Credentials, Quiet, world
<1>3. "build" \in run.ops => \A i \in Images : ImageBuilt(i)
      BY <1>1 DEF DockerInv, BuildOK, AfterBuild
<1>4. CASE SameRun("failed") BY <1>1, <1>2, <1>4, Advances, PoolIdle
<1>5. CASE ~run.conf.export /\ SameRun("push")
      BY <1>1, <1>2, <1>3, <1>5, Advances, PoolIdle
<1>6. CASE ~run.conf.export /\ SameRun("login")
      BY <1>1, <1>2, <1>3, <1>6, Advances, PoolIdle
<1>7. \/ SameRun("failed") \/ (~run.conf.export /\ SameRun("push"))
      \/ (~run.conf.export /\ SameRun("login"))
      BY <1>1, GotoFacts, LoginFacts DEF Credentials
<1> QED BY <1>4, <1>5, <1>6, <1>7

LEMMA BeginPushKeeps == DockerInv /\ BeginPush => DockerInv'
<1> SUFFICES ASSUME DockerInv, BeginPush PROVE DockerInv' OBVIOUS
<1>1. DockerShape /\ run.pc = "push" /\ Planned /\ ~run.conf.export
      BY DEF DockerInv, BeginPush, Planned, Refused, StageOK
<1>2. UNCHANGED <<local, registry, exports, manifest, disturbed, events>> BY DEF BeginPush, Quiet, world
<1>3. SameRun("publish") BY <1>1, GotoFacts DEF BeginPush
<1>4. IsList(AllRefs(run.conf)) BY <1>1 DEF DockerInv, PlanKept, PlanOK
<1>5. /\ pool' = [todo |-> pool'.todo, busy |-> {}, failed |-> pool'.failed]
      /\ IsList(pool'.todo) /\ pool'.failed \in BOOLEAN /\ Range(pool'.todo) = References
      BY <1>4, NewPool DEF BeginPush, References
<1>6. "build" \in run.ops => \A i \in Images : ImageBuilt(i)
      BY <1>1 DEF DockerInv, BuildOK, AfterBuild
<1> QED BY <1>1, <1>2, <1>3, <1>5, <1>6, Advances

LEMMA BeginVerifyKeeps == DockerInv /\ BeginVerify => DockerInv'
<1> SUFFICES ASSUME DockerInv, BeginVerify PROVE DockerInv' OBVIOUS
<1>1. DockerShape /\ run.pc = "expect" /\ Planned
      BY DEF DockerInv, BeginVerify, Planned, Refused
<1>2. UNCHANGED <<local, registry, exports, manifest, disturbed, events>> BY DEF BeginVerify, Quiet, world
<1>3. CASE SameRun("failed") /\ pool' = pool
      BY <1>1, <1>2, <1>3, Advances, PoolIdle
<1>4. CASE SameRun("verify") /\ pool' = Pool(AllRefs(run.conf))
      <2>1. IsList(AllRefs(run.conf)) BY <1>1 DEF DockerInv, PlanKept, PlanOK
      <2>2. /\ pool' = [todo |-> pool'.todo, busy |-> {}, failed |-> pool'.failed]
            /\ IsList(pool'.todo) /\ pool'.failed \in BOOLEAN /\ Range(pool'.todo) = References
            BY <1>4, <2>1, NewPool DEF References
      <2>3. "build" \in run.ops => \A i \in Images : ImageBuilt(i)
            BY <1>1 DEF DockerInv, BuildOK, AfterBuild
      <2>4. "push" \in run.ops => /\ ~run.conf.export /\ \A r \in References : Pushed(r)
                                  /\ run.conf.manifest => manifest = Range(run.result)
            BY <1>1 DEF DockerInv, PublishOK, StageOK
      <2> QED BY <1>1, <1>2, <1>4, <2>2, <2>3, <2>4, Advances
<1>5. (SameRun("failed") /\ pool' = pool) \/ (SameRun("verify") /\ pool' = Pool(AllRefs(run.conf)))
      BY <1>1, GotoFacts DEF BeginVerify
<1> QED BY <1>3, <1>4, <1>5

LEMMA WriteManifestKeeps == DockerInv /\ WriteManifest => DockerInv'
<1> SUFFICES ASSUME DockerInv, WriteManifest PROVE DockerInv' OBVIOUS
<1>1. DockerShape /\ run.pc = "manifest" /\ Planned /\ ~run.conf.export
      BY DEF DockerInv, WriteManifest, Planned, Refused, StageOK
<1>2. UNCHANGED <<local, registry, exports, disturbed, events, pool>> BY DEF WriteManifest
<1>3. CASE SameRun("failed") BY <1>1, <1>2, <1>3, Advances, PoolIdle
<1>4. CASE /\ SameRun(After("publish"))
           /\ manifest' = IF run.conf.manifest THEN Range(run.result) ELSE manifest
      <2> DEFINE q == After("publish")
      <2>1. q \in {"expect", "ok"} /\ (q = "ok" => "verify" \notin run.ops) BY AfterFacts
      <2> HIDE DEF q
      <2>2. SameRun(q) BY <1>4 DEF q
      <2>3. "build" \in run.ops => \A i \in Images : ImageBuilt(i)
            BY <1>1 DEF DockerInv, BuildOK, AfterBuild
      <2>4. \A r \in References : Pushed(r) BY <1>1 DEF DockerInv, PublishOK
      <2>5. run.conf.manifest => manifest' = Range(run.result) BY <1>4
      <2> QED BY <1>1, <1>2, <2>1, <2>2, <2>3, <2>4, <2>5, Advances, PoolIdle
<1>5. \/ SameRun("failed")
      \/ /\ SameRun(After("publish"))
         /\ manifest' = IF run.conf.manifest THEN Range(run.result) ELSE manifest
      BY <1>1, GotoFacts DEF WriteManifest
<1> QED BY <1>3, <1>4, <1>5

\* A pool that ends without a failure has done everything.
LEMMA PoolEndsKeeps == DockerInv /\ PoolEnds => DockerInv'
<1> SUFFICES ASSUME DockerInv, PoolEnds PROVE DockerInv' OBVIOUS
<1>1. DockerShape /\ run.pc \in {"build", "publish", "verify"} /\ Planned
      BY DEF DockerInv, PoolEnds, Planned, Refused
<1>2. UNCHANGED <<local, registry, exports, manifest, disturbed, events, pool>>
      BY DEF PoolEnds, Quiet, world
<1>3. pool.busy = {} /\ (pool.failed \/ pool.todo = <<>>) BY DEF PoolEnds, Settled
<1>4. /\ pool' = [todo |-> pool'.todo, busy |-> {}, failed |-> pool'.failed]
      /\ IsList(pool'.todo) /\ pool'.failed \in BOOLEAN
      BY <1>1, <1>2, <1>3 DEF DockerShape
<1>5. CASE pool.failed
      <2>1. SameRun("failed") BY <1>1, <1>5, GotoFacts DEF PoolEnds
      <2> QED BY <1>1, <1>2, <1>4, <2>1, Advances
<1>6. CASE ~pool.failed
      <2>1. \A x : ~Waits(x)
            <3>1. Range(pool.todo) = {} BY <1>1, <1>3, <1>6, ListFacts DEF DockerShape
            <3> QED BY <1>3, <3>1 DEF Waits
      <2>2. run.pc = "build" => \A i \in Images : ImageBuilt(i)
            BY <1>6, <2>1 DEF DockerInv, BuildOK
      <2>3. run.pc = "publish" => \A r \in References : Pushed(r)
            BY <1>6, <2>1 DEF DockerInv, PublishOK
      <2>4. run.pc = "verify" => \A r \in References : Checked(r)
            BY <1>6, <2>1 DEF DockerInv, ReferencesVerified
      <2>5. run.pc \in {"publish", "verify"} /\ "build" \in run.ops => \A i \in Images : ImageBuilt(i)
            BY DEF DockerInv, BuildOK, AfterBuild
      <2>6. CASE run.pc = "publish"
            <3>1. SameRun("manifest") BY <1>1, <1>6, <2>6, GotoFacts DEF PoolEnds
            <3>2. ~run.conf.export BY <2>6 DEF DockerInv, StageOK
            <3> QED BY <1>1, <1>2, <1>4, <2>3, <2>5, <2>6, <3>1, <3>2, Advances
      <2>7. CASE run.pc = "build"
            <3> DEFINE q == After("build")
            <3>1. /\ q \in {"credentials", "expect", "ok"}
                  /\ q \in {"expect", "ok"} => "push" \notin run.ops
                  /\ q = "ok" => "verify" \notin run.ops
                  BY AfterFacts
            <3>2. SameRun(q) BY <1>1, <1>6, <2>7, GotoFacts DEF PoolEnds
            <3> HIDE DEF q
            <3> QED BY <1>1, <1>2, <1>4, <2>2, <2>7, <3>1, <3>2, Advances
      <2>8. CASE run.pc = "verify"
            <3>1. After("verify") = "ok" BY AfterVerify
            <3>2. SameRun("ok") BY <1>1, <1>6, <2>8, <3>1, GotoFacts DEF PoolEnds
            <3>3. "push" \in run.ops => /\ ~run.conf.export /\ \A r \in References : Pushed(r)
                                        /\ run.conf.manifest => manifest = Range(run.result)
                  BY <2>8 DEF DockerInv, PublishOK, StageOK
            <3> QED BY <1>1, <1>2, <1>4, <2>4, <2>5, <2>8, <3>2, <3>3, Advances
      <2> QED BY <1>1, <2>6, <2>7, <2>8
<1> QED BY <1>5, <1>6

\* The run stands still while its pool works.
LEMMA PoolWorks ==
    ASSUME DockerInv, run.pc \in {"build", "publish", "verify"}, SameRun(run.pc)
    PROVE  /\ Planned /\ PlanKept' /\ StageOK'
           /\ Images' = Images /\ References' = References
           /\ PlanOK(run.conf, run.shown)
<1>1. PlanOK(run.conf, run.shown) BY DEF DockerInv, PlanKept, Planned, Refused
<1>2. PlanOK(run.conf, run.shown)' <=> PlanOK(run.conf, run.shown) BY DEF PlanOK, SameRun
<1> QED BY <1>1, <1>2 DEF DockerInv, PlanKept, Planned, StageOK, SameRun, Images, References, Refused

\* A step of a worker that builds.
LEMMA BuildStep ==
    ASSUME DockerInv, run.pc = "build", UNCHANGED <<run, registry, manifest, disturbed, events>>,
           pool' = [todo |-> pool'.todo, busy |-> pool'.busy, failed |-> pool'.failed],
           IsList(pool'.todo), pool'.failed \in BOOLEAN,
           \A t \in pool'.busy : IsTask(t),
           local' = [r \in Ref |-> local'[r]], exports' = [i \in Image |-> exports'[i]],
           Tasks(IF run.conf.export THEN {"export"} ELSE {"build", "check", "untag"}, Images)',
           ~pool'.failed => \A i \in Images : Waits(i)' \/ ImageBuilt(i)'
    PROVE  DockerInv'
<1>1. SameRun(run.pc) /\ run'.pc = "build" BY StaysFacts DEF DockerInv
<1>2. PlanKept' /\ StageOK' /\ Images' = Images BY <1>1, PoolWorks
<1>3. DockerShape' BY DEF DockerInv, DockerShape
<1>4. TasksOK' BY <1>1 DEF TasksOK
<1>5. BuildOK' BY <1>1, <1>2 DEF BuildOK, AfterBuild
<1>6. PublishOK'
      <2>1. \A t \in pool'.busy : t.step # "inspect" BY DEF Tasks
      <2> QED BY <1>1, <2>1 DEF PublishOK
<1>7. ReferencesVerified' BY <1>1 DEF ReferencesVerified
<1> QED BY <1>2, <1>3, <1>4, <1>5, <1>6, <1>7 DEF DockerInv

\* A step of a worker that pushes, or inspects, or verifies.
LEMMA ReferenceStep ==
    ASSUME DockerInv, run.pc \in {"publish", "verify"}, SameRun(run.pc) \/ run.pc = "publish",
           IsRun(run'), run'.pc = run.pc, run'.id = run.id, run'.conf = run.conf,
           run'.shown = run.shown, run'.ask = run.ask, run'.ops = run.ops,
           IsList(run'.result),
           UNCHANGED <<local, exports, manifest, disturbed, events>>,
           pool' = [todo |-> pool'.todo, busy |-> pool'.busy, failed |-> pool'.failed],
           IsList(pool'.todo), pool'.failed \in BOOLEAN,
           \A t \in pool'.busy : IsTask(t),
           registry' = [r \in Ref |-> registry'[r]],
           run.pc = "publish" => Tasks({"push", "inspect"}, References)',
           run.pc = "verify" => Tasks({"verify"}, References)' /\ UNCHANGED <<run, registry>>,
           run.pc = "publish" /\ ~pool'.failed => \A r \in References : Waits(r)' \/ Pushed(r)',
           run.pc = "verify" /\ ~pool'.failed => \A r \in References : Waits(r)' \/ Checked(r),
           \A t \in pool'.busy : t.step = "inspect" /\ t.on \notin disturbed =>
             registry'[t.on] = local[t.on] /\ t.digest \in {None, local[t.on]}
    PROVE  DockerInv'
<1>1. /\ run'.pc = run.pc /\ run'.id = run.id /\ run'.conf = run.conf /\ run'.shown = run.shown
      /\ run'.ask = run.ask /\ run'.ops = run.ops
      OBVIOUS
<1>2. Images' = Images /\ References' = References BY <1>1 DEF Images, References
<1>3. PlanKept'
      <2>1. PlanOK(run.conf, run.shown)' <=> PlanOK(run.conf, run.shown) BY <1>1 DEF PlanOK
      <2> QED BY <1>1, <2>1 DEF DockerInv, PlanKept, Planned
<1>4. DockerShape' BY <1>1 DEF DockerInv, DockerShape
<1>5. TasksOK' BY <1>1 DEF TasksOK
<1>6. StageOK' BY <1>1 DEF DockerInv, StageOK
<1>7. BuildOK'
      <2>1. \A i : ImageBuilt(i)' <=> ImageBuilt(i) BY <1>1, ImageBuiltStays
      <2> QED BY <1>1, <1>2, <2>1 DEF DockerInv, BuildOK, AfterBuild
<1>8. CASE run.pc = "publish"
      <2>1. PublishOK' BY <1>1, <1>2, <1>8 DEF PublishOK
      <2>2. ReferencesVerified' BY <1>1, <1>8 DEF ReferencesVerified
      <2> QED BY <1>3, <1>4, <1>5, <1>6, <1>7, <2>1, <2>2 DEF DockerInv
<1>9. CASE run.pc = "verify"
      <2>1. \A r : Pushed(r)' <=> Pushed(r) BY <1>9, PushedStays
      <2>2. PublishOK' BY <1>1, <1>2, <1>9, <2>1 DEF DockerInv, PublishOK
      <2>3. \A r : Checked(r)' <=> Checked(r) BY <1>9, CheckedStays
      <2>4. ReferencesVerified' BY <1>1, <1>2, <1>9, <2>3 DEF ReferencesVerified
      <2> QED BY <1>3, <1>4, <1>5, <1>6, <1>7, <2>2, <2>4 DEF DockerInv
<1> QED BY <1>8, <1>9

\* What the steps of a task do to the pool.
LEMMA PoolMoves ==
    ASSUME DockerShape, NEW t \in pool.busy
    PROVE  /\ Done(t) => pool' = [todo |-> pool.todo, busy |-> pool.busy \ {t}, failed |-> pool.failed]
           /\ Fails(t) => pool' = [todo |-> pool.todo, busy |-> pool.busy \ {t}, failed |-> TRUE]
           /\ \A u : GoOn(t, u) => pool' = [todo |-> pool.todo, busy |-> (pool.busy \ {t}) \cup {u},
                                            failed |-> pool.failed]
BY DEF DockerShape, Done, Fails, GoOn

LEMMA TaskMoves ==
    ASSUME NEW t, IsTask(t), NEW s
    PROVE  LET u == [t EXCEPT !.step = s]
           IN  IsTask(u) /\ u.step = s /\ u.on = t.on /\ u.temp = t.temp /\ u.digest = t.digest
BY DEF IsTask, TaskFields

LEMMA TaskLoses ==
    ASSUME NEW t, IsTask(t)
    PROVE  LET u == [t EXCEPT !.temp = FALSE]
           IN  IsTask(u) /\ u.step = t.step /\ u.on = t.on /\ u.temp = FALSE /\ u.digest = t.digest
BY DEF IsTask, TaskFields

\* In which operation a task is worked on.
LEMMA TaskStage ==
    ASSUME DockerInv, NEW t \in pool.busy
    PROVE  /\ t.step \in {"build", "check", "untag", "export"} => run.pc = "build" /\ t.on \in Images
           /\ t.step \in {"push", "inspect"} => run.pc = "publish" /\ t.on \in References
           /\ t.step = "verify" => run.pc = "verify" /\ t.on \in References
           /\ t.step = "export" => run.conf.export
           /\ t.step \in {"build", "check", "untag"} => ~run.conf.export
<1>1. run.pc \in {"build", "publish", "verify"} BY DEF DockerInv, TasksOK
<1>2. CASE run.pc = "build" /\ run.conf.export BY <1>2 DEF DockerInv, TasksOK, Tasks
<1>3. CASE run.pc = "build" /\ ~run.conf.export BY <1>3 DEF DockerInv, TasksOK, Tasks
<1>4. CASE run.pc \in {"publish", "verify"} BY <1>4 DEF DockerInv, TasksOK, Tasks
<1> QED BY <1>1, <1>2, <1>3, <1>4

LEMMA StartTaskKeeps == DockerInv /\ StartTask => DockerInv'
<1> SUFFICES ASSUME DockerInv, StartTask PROVE DockerInv' OBVIOUS
<1> DEFINE u == [step |-> Begun[run.pc], on |-> Head(pool.todo), temp |-> run.conf.export,
                 digest |-> None]
<1>1. DockerShape /\ run.pc \in {"build", "publish", "verify"} /\ pool.todo # <<>> /\ ~pool.failed
      BY DEF DockerInv, StartTask, CanTake
<1>2. UNCHANGED <<run, local, registry, exports, manifest, disturbed, events>>
      BY DEF StartTask, Quiet, world
<1>3. pool' = [todo |-> Tail(pool.todo), busy |-> pool.busy \cup {u}, failed |-> pool.failed]
      BY <1>1 DEF StartTask, Take, DockerShape
<1>4. /\ u.on = Head(pool.todo) /\ IsTask(u)
      /\ run.pc = "build" => u.step = IF run.conf.export THEN "export" ELSE "build"
      /\ run.pc = "publish" => u.step = "push"
      /\ run.pc = "verify" => u.step = "verify"
      BY DEF Begun, IsTask, TaskFields
<1> HIDE DEF u
<1>5. /\ IsList(Tail(pool.todo)) /\ Head(pool.todo) \in Range(pool.todo)
      /\ Range(pool.todo) = {Head(pool.todo)} \cup Range(Tail(pool.todo))
      BY <1>1, TailOfList DEF DockerShape
<1>6. SameRun(run.pc) /\ Images' = Images /\ References' = References
      BY <1>1, <1>2, StaysFacts, PoolWorks
<1>7. u.step # "check" /\ u.step # "inspect" BY <1>1, <1>4
<1>8. \A x : Waits(x) => Waits(x)'
      <2>1. pool'.todo = Tail(pool.todo) /\ pool'.busy = pool.busy \cup {u} BY <1>3
      <2> QED BY <1>4, <1>5, <1>7, <2>1 DEF Waits
<1>9. /\ pool' = [todo |-> pool'.todo, busy |-> pool'.busy, failed |-> pool'.failed]
      /\ IsList(pool'.todo) /\ pool'.failed = FALSE /\ pool'.busy = pool.busy \cup {u}
      /\ Range(pool'.todo) \subseteq Range(pool.todo) /\ u.on \in Range(pool.todo)
      /\ \A t \in pool'.busy : IsTask(t)
      BY <1>1, <1>3, <1>4, <1>5 DEF DockerShape
<1>10. \A steps, things : Tasks(steps, things) /\ u.step \in steps
            => /\ Range(pool'.todo) \subseteq things
               /\ \A t \in pool'.busy : t.step \in steps /\ t.on \in things
       BY <1>9 DEF Tasks
<1>11. CASE run.pc = "build"
       <2> DEFINE steps == IF run.conf.export THEN {"export"} ELSE {"build", "check", "untag"}
       <2>1. Tasks(steps, Images) /\ u.step \in steps BY <1>4, <1>11 DEF DockerInv, TasksOK
       <2>2. steps' = steps BY <1>2
       <2> HIDE DEF steps
       <2>3. Tasks(steps, Images)' BY <1>6, <1>10, <2>1, <2>2 DEF Tasks
       <2>4. \A i : ImageBuilt(i)' <=> ImageBuilt(i) BY <1>2, ImageBuiltStays
       <2>5. \A i \in Images : Waits(i)' \/ ImageBuilt(i)'
             BY <1>1, <1>8, <1>11, <2>4 DEF DockerInv, BuildOK
       <2>6. local' = [r \in Ref |-> local'[r]] /\ exports' = [i \in Image |-> exports'[i]]
             BY <1>1, <1>2 DEF DockerShape
       <2> QED BY <1>2, <1>9, <1>11, <2>3, <2>5, <2>6, BuildStep DEF steps
<1>12. CASE run.pc \in {"publish", "verify"}
       <2>1. run.pc = "publish" => Tasks({"push", "inspect"}, References)'
             BY <1>4, <1>6, <1>10 DEF DockerInv, TasksOK, Tasks
       <2>2. run.pc = "verify" => Tasks({"verify"}, References)'
             BY <1>4, <1>6, <1>10 DEF DockerInv, TasksOK, Tasks
       <2>3. \A r : Pushed(r)' <=> Pushed(r) BY <1>2, PushedStays
       <2>4. run.pc = "publish" => \A r \in References : Waits(r)' \/ Pushed(r)'
             BY <1>1, <1>8, <2>3 DEF DockerInv, PublishOK
       <2>5. run.pc = "verify" => \A r \in References : Waits(r)' \/ Checked(r)
             BY <1>1, <1>8 DEF DockerInv, ReferencesVerified
       <2>6. \A t \in pool'.busy : t.step = "inspect" /\ t.on \notin disturbed =>
               registry'[t.on] = local[t.on] /\ t.digest \in {None, local[t.on]}
             BY <1>2, <1>7, <1>9 DEF DockerInv, PublishOK
       <2>7. /\ IsRun(run')
             /\ IsList(run'.result) /\ registry' = [r \in Ref |-> registry'[r]]
             BY <1>1, <1>2 DEF DockerShape
       <2> QED BY <1>2, <1>6, <1>9, <1>12, <2>1, <2>2, <2>4, <2>5, <2>6, <2>7, ReferenceStep
<1> QED BY <1>1, <1>11, <1>12

\* The references and images of a plan.
LEMMA PlanRefs ==
    ASSUME DockerInv, Planned
    PROVE  /\ \A i \in Images : Range(Refs(run.conf, i)) \subseteq References
           /\ References \subseteq Ref /\ References \subseteq run.shown /\ Images \subseteq Image
           /\ \A r \in References : \E i \in Images : r \in Range(Refs(run.conf, i))
           /\ \A i, j \in Images :
                i # j => Range(Refs(run.conf, i)) \cap Range(Refs(run.conf, j)) = {}
BY DEF DockerInv, PlanKept, PlanOK, Images, References

LEMMA RetagFacts ==
    ASSUME DockerInv, Planned, NEW i \in Images, NEW c
    PROVE  /\ Retag(i, c) = [r \in Ref |-> Retag(i, c)[r]]
           /\ \A r \in Range(Refs(run.conf, i)) : Retag(i, c)[r] = c
           /\ \A j \in Images \ {i} : \A r \in Range(Refs(run.conf, j)) : Retag(i, c)[r] = local[r]
BY PlanRefs DEF Retag

\* A worker that builds moves on from t.
BuildSteps == IF run.conf.export THEN {"export"} ELSE {"build", "check", "untag"}

LEMMA BuildMove ==
    ASSUME DockerInv, run.pc = "build", NEW t \in pool.busy,
           UNCHANGED <<run, registry, manifest, disturbed, events>>,
           local' = [r \in Ref |-> local'[r]], exports' = [i \in Image |-> exports'[i]],
           NEW B, NEW f \in BOOLEAN, pool' = [todo |-> pool.todo, busy |-> B, failed |-> f],
           ~f => ~pool.failed,
           \A u \in B : IsTask(u) /\ u.on \in Images /\ u.step \in BuildSteps,
           \A v \in pool.busy \ {t} : \E u \in B : u.on = v.on /\ u.step = v.step,
           ~f => \A i \in Images : i # t.on /\ ImageBuilt(i) => ImageBuilt(i)',
           ~f => \/ t.step = "check" /\ (ImageBuilt(t.on) => ImageBuilt(t.on)')
                 \/ ImageBuilt(t.on)'
                 \/ \E u \in B : u.on = t.on /\ u.step # "check"
    PROVE  DockerInv'
<1>1. /\ pool'.todo = pool.todo /\ pool'.busy = B /\ pool'.failed = f
      /\ pool' = [todo |-> pool'.todo, busy |-> pool'.busy, failed |-> pool'.failed]
      OBVIOUS
<1>2. IsList(pool'.todo) BY <1>1 DEF DockerInv, DockerShape
<1>3. Tasks(BuildSteps, Images) BY DEF DockerInv, TasksOK, BuildSteps
<1>4. BuildSteps' = BuildSteps /\ Images' = Images BY DEF BuildSteps, Images
<1>5. Tasks(BuildSteps, Images)' BY <1>1, <1>3, <1>4 DEF Tasks
<1>6. ASSUME ~f, NEW i \in Images PROVE Waits(i)' \/ ImageBuilt(i)'
      <2>1. Waits(i) \/ ImageBuilt(i) BY <1>6 DEF DockerInv, BuildOK
      <2>2. CASE i # t.on
            <3>1. Waits(i) => Waits(i)' BY <1>1, <2>2 DEF Waits
            <3> QED BY <1>6, <2>1, <2>2, <3>1
      <2>3. CASE i = t.on /\ t.step = "check" /\ (ImageBuilt(i) => ImageBuilt(i)')
            <3>1. Waits(i) => Waits(i)' BY <1>1, <2>3 DEF Waits
            <3> QED BY <2>1, <2>3, <3>1
      <2>4. CASE i = t.on /\ \E u \in B : u.on = t.on /\ u.step # "check"
            BY <1>1, <2>4 DEF Waits
      <2> QED BY <1>6, <2>2, <2>3, <2>4
<1> QED BY <1>1, <1>2, <1>5, <1>6, BuildStep DEF BuildSteps

LEMMA BuildTask ==
    ASSUME DockerInv, NEW t \in pool.busy, t.step \in {"build", "check", "untag", "export"}
    PROVE  /\ run.pc = "build" /\ Planned /\ DockerShape /\ t.on \in Images /\ IsTask(t)
           /\ pool.failed \in BOOLEAN
           /\ \A u \in pool.busy : IsTask(u) /\ u.on \in Images /\ u.step \in BuildSteps
<1>1. run.pc = "build" /\ t.on \in Images BY TaskStage
<1>2. Planned BY <1>1 DEF Planned, Refused
<1> QED BY <1>1, <1>2 DEF DockerInv, DockerShape, TasksOK, Tasks, BuildSteps

LEMMA BuildImageKeeps == ASSUME DockerInv, NEW t \in pool.busy, BuildImage(t) PROVE DockerInv'
<1>1. /\ run.pc = "build" /\ Planned /\ DockerShape /\ t.on \in Images /\ IsTask(t)
      /\ pool.failed \in BOOLEAN
      /\ \A u \in pool.busy : IsTask(u) /\ u.on \in Images /\ u.step \in BuildSteps
      BY BuildTask DEF BuildImage
<1>2. ~run.conf.export BY TaskStage DEF BuildImage
<1>3. PICK tagged, ok \in BOOLEAN :
        /\ ok => tagged \/ Multi(run.conf)
        /\ local' = IF tagged THEN Retag(t.on, Content(t.on)) ELSE local
        /\ GoOn(t, [t EXCEPT !.step = IF ok THEN "check" ELSE "untag"])
      BY DEF BuildImage
<1>4. UNCHANGED <<registry, exports, manifest, run, disturbed, events>> BY DEF BuildImage
<1> DEFINE s == IF ok THEN "check" ELSE "untag"
           u == [t EXCEPT !.step = s]
<1>5. s \in {"check", "untag"} /\ (s = "check" => ok) OBVIOUS
<1> HIDE DEF s
<1>6. IsTask(u) /\ u.step = s /\ u.on = t.on BY <1>1, TaskMoves
<1>7. GoOn(t, u) BY <1>3 DEF s
<1> HIDE DEF u
<1> DEFINE B == (pool.busy \ {t}) \cup {u}
<1>8. pool' = [todo |-> pool.todo, busy |-> B, failed |-> pool.failed] BY <1>1, <1>7, PoolMoves
<1>9. \A x \in B : IsTask(x) /\ x.on \in Images /\ x.step \in BuildSteps
      BY <1>1, <1>2, <1>5, <1>6 DEF BuildSteps
<1>10. \A v \in pool.busy \ {t} : \E x \in B : x.on = v.on /\ x.step = v.step OBVIOUS
<1>11. u \in B OBVIOUS
<1> HIDE DEF B
<1> DEFINE L == Retag(t.on, Content(t.on))
<1>12. /\ L = [r \in Ref |-> L[r]]
       /\ \A r \in Range(Refs(run.conf, t.on)) : L[r] = Content(t.on)
       /\ \A j \in Images \ {t.on} : \A r \in Range(Refs(run.conf, j)) : L[r] = local[r]
       BY <1>1, RetagFacts
<1> HIDE DEF L
<1>13. local' = [r \in Ref |-> local'[r]]
       <2>1. local' = L \/ local' = local BY <1>3 DEF L
       <2> QED BY <1>1, <1>12, <2>1 DEF DockerShape
<1>14. exports' = [i \in Image |-> exports'[i]] BY <1>1, <1>4 DEF DockerShape
<1>15. \A i : Content(i)' = Content(i) /\ (Multi(run.conf)' <=> Multi(run.conf))
       BY <1>4 DEF Content, Multi
<1>16. \A i : Refs(run.conf, i)' = Refs(run.conf, i) BY <1>4
<1>17. ASSUME NEW i \in Images, i # t.on, ImageBuilt(i) PROVE ImageBuilt(i)'
       <2>1. \A r \in Range(Refs(run.conf, i)) : local'[r] = local[r]
             <3>1. local' = L \/ local' = local BY <1>3 DEF L
             <3> QED BY <1>12, <1>17, <3>1
       <2> QED BY <1>2, <1>4, <1>15, <1>16, <1>17, <2>1 DEF ImageBuilt
<1>18. ASSUME ok PROVE ImageBuilt(t.on)'
       <2>1. Multi(run.conf) \/ local' = L BY <1>3, <1>18 DEF L
       <2> QED BY <1>2, <1>4, <1>12, <1>15, <1>16, <2>1 DEF ImageBuilt
<1>19. ImageBuilt(t.on)' \/ \E x \in B : x.on = t.on /\ x.step # "check"
       BY <1>5, <1>6, <1>11, <1>18
<1>20. UNCHANGED <<run, registry, manifest, disturbed, events>> BY <1>4
<1> QED BY <1>1, <1>8, <1>9, <1>10, <1>13, <1>14, <1>17, <1>19, <1>20, BuildMove

LEMMA CheckTagsKeeps == ASSUME DockerInv, NEW t \in pool.busy, CheckTags(t) PROVE DockerInv'
<1>1. /\ run.pc = "build" /\ DockerShape /\ t.on \in Images /\ IsTask(t)
      /\ pool.failed \in BOOLEAN
      /\ \A u \in pool.busy : IsTask(u) /\ u.on \in Images /\ u.step \in BuildSteps
      BY BuildTask DEF CheckTags
<1>2. ~run.conf.export /\ t.step = "check" BY TaskStage DEF CheckTags
<1>3. UNCHANGED <<local, registry, exports, manifest, run, disturbed, events>>
      BY DEF CheckTags, Quiet, world
<1>4. local' = [r \in Ref |-> local'[r]] /\ exports' = [i \in Image |-> exports'[i]]
      BY <1>1, <1>3 DEF DockerShape
<1>5. \A i : ImageBuilt(i)' <=> ImageBuilt(i) BY <1>3, ImageBuiltStays
<1> DEFINE u == [t EXCEPT !.step = "untag"]
<1>6. IsTask(u) /\ u.step = "untag" /\ u.on = t.on BY <1>1, TaskMoves
<1>7. Done(t) \/ GoOn(t, u) BY DEF CheckTags
<1> HIDE DEF u
<1>8. CASE Done(t)
      <2> DEFINE B == pool.busy \ {t}
      <2>1. pool' = [todo |-> pool.todo, busy |-> B, failed |-> pool.failed]
            BY <1>1, <1>8, PoolMoves
      <2>2. \A x \in B : IsTask(x) /\ x.on \in Images /\ x.step \in BuildSteps BY <1>1
      <2>3. \A v \in pool.busy \ {t} : \E x \in B : x.on = v.on /\ x.step = v.step OBVIOUS
      <2> HIDE DEF B
      <2> QED BY <1>1, <1>2, <1>3, <1>4, <1>5, <2>1, <2>2, <2>3, BuildMove
<1>9. CASE GoOn(t, u)
      <2> DEFINE B == (pool.busy \ {t}) \cup {u}
      <2>1. pool' = [todo |-> pool.todo, busy |-> B, failed |-> pool.failed]
            BY <1>1, <1>9, PoolMoves
      <2>2. \A x \in B : IsTask(x) /\ x.on \in Images /\ x.step \in BuildSteps
            BY <1>1, <1>2, <1>6 DEF BuildSteps
      <2>3. \A v \in pool.busy \ {t} : \E x \in B : x.on = v.on /\ x.step = v.step OBVIOUS
      <2> HIDE DEF B
      <2> QED BY <1>1, <1>2, <1>3, <1>4, <1>5, <2>1, <2>2, <2>3, BuildMove
<1> QED BY <1>7, <1>8, <1>9

LEMMA UntagKeeps == ASSUME DockerInv, NEW t \in pool.busy, Untag(t) PROVE DockerInv'
<1>1. /\ run.pc = "build" /\ Planned /\ DockerShape /\ t.on \in Images
      /\ \A u \in pool.busy : IsTask(u) /\ u.on \in Images /\ u.step \in BuildSteps
      BY BuildTask DEF Untag
<1>2. UNCHANGED <<registry, exports, manifest, run, disturbed, events>> BY DEF Untag
<1>3. local' = [r \in Ref |-> local'[r]]
      <2>1. local' = local \/ local' = Retag(t.on, None) BY DEF Untag
      <2> QED BY <1>1, <2>1, RetagFacts DEF DockerShape
<1>4. exports' = [i \in Image |-> exports'[i]] BY <1>1, <1>2 DEF DockerShape
<1> DEFINE B == pool.busy \ {t}
<1>5. pool' = [todo |-> pool.todo, busy |-> B, failed |-> TRUE] BY <1>1, PoolMoves DEF Untag
<1>6. \A x \in B : IsTask(x) /\ x.on \in Images /\ x.step \in BuildSteps BY <1>1
<1>7. \A v \in pool.busy \ {t} : \E x \in B : x.on = v.on /\ x.step = v.step OBVIOUS
<1> HIDE DEF B
<1> QED BY <1>1, <1>2, <1>3, <1>4, <1>5, <1>6, <1>7, BuildMove

\* The directories that lie inside of the one that is replaced go with it.
LEMMA ExportImageKeeps == ASSUME DockerInv, NEW t \in pool.busy, ExportImage(t) PROVE DockerInv'
<1>1. /\ run.pc = "build" /\ Planned /\ DockerShape /\ t.on \in Images
      /\ pool.failed \in BOOLEAN
      /\ \A u \in pool.busy : IsTask(u) /\ u.on \in Images /\ u.step \in BuildSteps
      BY BuildTask DEF ExportImage
<1>2. run.conf.export BY TaskStage DEF ExportImage
<1>3. UNCHANGED <<local, registry, manifest, run, disturbed, events>> BY DEF ExportImage
<1>4. local' = [r \in Ref |-> local'[r]] BY <1>1, <1>3 DEF DockerShape
<1>5. CASE Fails(t) /\ UNCHANGED exports
      <2> DEFINE B == pool.busy \ {t}
      <2>1. pool' = [todo |-> pool.todo, busy |-> B, failed |-> TRUE] BY <1>1, <1>5, PoolMoves
      <2>2. \A x \in B : IsTask(x) /\ x.on \in Images /\ x.step \in BuildSteps BY <1>1
      <2>3. \A v \in pool.busy \ {t} : \E x \in B : x.on = v.on /\ x.step = v.step OBVIOUS
      <2> HIDE DEF B
      <2>4. exports' = [i \in Image |-> exports'[i]] BY <1>1, <1>5 DEF DockerShape
      <2> QED BY <1>1, <1>3, <1>4, <2>1, <2>2, <2>3, <2>4, BuildMove
<1>6. ASSUME NEW valid \in BOOLEAN,
             exports' = [i \in Image |->
                   IF i = t.on /\ t.temp THEN [by |-> run.id, valid |-> valid]
                   ELSE IF Inside(i, t.on) THEN None ELSE exports[i]],
             pool' = [pool EXCEPT !.busy = TempsAfter(t),
                                  !.failed = @ \/ ~t.temp \/ ~LayoutAccepted(valid)]
      PROVE  DockerInv'
      <2> DEFINE B == TempsAfter(t)
                 f == pool.failed \/ ~t.temp \/ ~LayoutAccepted(valid)
      <2>1. ~f => ~pool.failed /\ t.temp /\ valid BY DEF LayoutAccepted
      <2>2. f \in BOOLEAN OBVIOUS
      <2>3. pool' = [pool EXCEPT !.busy = B, !.failed = f] BY <1>6
      <2> HIDE DEF B, f
      <2>4. pool' = [todo |-> pool.todo, busy |-> B, failed |-> f] BY <1>1, <2>3 DEF DockerShape
      <2>5. \A v \in pool.busy : LET u == [v EXCEPT !.temp = FALSE]
                                 IN  IsTask(u) /\ u.step = v.step /\ u.on = v.on
            BY <1>1, TaskLoses
      <2>6. \A x \in B : IsTask(x) /\ x.on \in Images /\ x.step \in BuildSteps
            BY <1>1, <2>5 DEF B, TempsAfter
      <2>7. \A v \in pool.busy \ {t} : \E x \in B : x.on = v.on /\ x.step = v.step
            BY <1>1, <2>5 DEF B, TempsAfter
      <2>8. exports' = [i \in Image |-> exports'[i]] BY <1>6
      <2>9. t.on \in Image /\ Images \subseteq Image BY <1>1, PlanRefs
      <2>10. ASSUME ~f PROVE ImageBuilt(t.on)'
             <3>1. exports'[t.on] = [by |-> run.id, valid |-> TRUE] BY <1>6, <2>1, <2>9, <2>10
             <3> QED BY <1>2, <1>3, <3>1 DEF ImageBuilt
      <2>11. ASSUME NEW i \in Images, i # t.on, ImageBuilt(i) PROVE ImageBuilt(i)'
             <3>1. Images' = Images BY <1>3 DEF Images
             <3>2. exports'[i] = IF Inside(i, t.on) THEN None ELSE exports[i]
                   BY <1>6, <2>9, <2>11
             <3>3. CASE Inside(i, t.on)
                   BY <1>1, <1>2, <1>3, <2>11, <3>1, <3>3 DEF ImageBuilt, Inside
             <3>4. CASE ~Inside(i, t.on)
                   BY <1>2, <1>3, <2>11, <3>1, <3>2, <3>4 DEF ImageBuilt, Inside
             <3> QED BY <3>3, <3>4
      <2> QED BY <1>1, <1>3, <1>4, <2>1, <2>2, <2>4, <2>6, <2>7, <2>8, <2>10, <2>11, BuildMove
<1> QED BY <1>5, <1>6 DEF ExportImage

\* A worker that pushes, or inspects, or verifies, moves on from t.
ReferenceSteps == IF run.pc = "publish" THEN {"push", "inspect"} ELSE {"verify"}

LEMMA ReferenceTask ==
    ASSUME DockerInv, NEW t \in pool.busy, t.step \in {"push", "inspect", "verify"}
    PROVE  /\ run.pc = IF t.step = "verify" THEN "verify" ELSE "publish"
           /\ Planned /\ DockerShape /\ t.on \in References /\ t.on \in Ref /\ IsTask(t)
           /\ pool.failed \in BOOLEAN
           /\ \A u \in pool.busy : IsTask(u) /\ u.on \in References /\ u.step \in ReferenceSteps
<1>1. run.pc = (IF t.step = "verify" THEN "verify" ELSE "publish") /\ t.on \in References
      BY TaskStage
<1>2. Planned BY <1>1 DEF Planned, Refused
<1>3. t.on \in Ref BY <1>1, <1>2, PlanRefs
<1> QED BY <1>1, <1>2, <1>3 DEF DockerInv, DockerShape, TasksOK, Tasks, ReferenceSteps

LEMMA ReferenceMove ==
    ASSUME DockerInv, run.pc \in {"publish", "verify"}, NEW t \in pool.busy,
           IsRun(run'), run'.pc = run.pc, run'.id = run.id, run'.conf = run.conf,
           run'.shown = run.shown, run'.ask = run.ask, run'.ops = run.ops,
           IsList(run'.result), UNCHANGED <<local, exports, manifest, disturbed, events>>,
           registry' = [r \in Ref |-> registry'[r]],
           run.pc = "verify" => UNCHANGED <<run, registry>>,
           NEW B, NEW f \in BOOLEAN, pool' = [todo |-> pool.todo, busy |-> B, failed |-> f],
           ~f => ~pool.failed,
           \A u \in B : IsTask(u) /\ u.on \in References /\ u.step \in ReferenceSteps,
           \A v \in pool.busy \ {t} : v \in B,
           \A r : Pushed(r) => Pushed(r)',
           run.pc = "publish" /\ ~f => Pushed(t.on)' \/ \E u \in B : u.on = t.on,
           run.pc = "verify" /\ ~f => Checked(t.on),
           \A u \in B : u.step = "inspect" /\ u.on \notin disturbed =>
             registry'[u.on] = local[u.on] /\ u.digest \in {None, local[u.on]}
    PROVE  DockerInv'
<1>1. /\ pool'.todo = pool.todo /\ pool'.busy = B /\ pool'.failed = f
      /\ pool' = [todo |-> pool'.todo, busy |-> pool'.busy, failed |-> pool'.failed]
      OBVIOUS
<1>2. IsList(pool'.todo) BY <1>1 DEF DockerInv, DockerShape
<1>3. References' = References BY DEF References
<1>4. Range(pool.todo) \subseteq References BY DEF DockerInv, TasksOK, Tasks
<1>5. run.pc = "publish" => Tasks({"push", "inspect"}, References)'
      BY <1>1, <1>3, <1>4 DEF Tasks, ReferenceSteps
<1>6. run.pc = "verify" => Tasks({"verify"}, References)'
      BY <1>1, <1>3, <1>4 DEF Tasks, ReferenceSteps
<1>7. \A u \in B : u.step # "check" BY DEF ReferenceSteps
<1>8. \A r : r # t.on /\ Waits(r) => Waits(r)' BY <1>1 DEF Waits
<1>9. (\E u \in B : u.on = t.on) => Waits(t.on)' BY <1>1, <1>7 DEF Waits
<1>10. ASSUME run.pc = "publish", ~f, NEW r \in References PROVE Waits(r)' \/ Pushed(r)'
       <2>1. Waits(r) \/ Pushed(r) BY <1>10 DEF DockerInv, PublishOK
       <2> QED BY <1>8, <1>9, <1>10, <2>1
<1>11. ASSUME run.pc = "verify", ~f, NEW r \in References PROVE Waits(r)' \/ Checked(r)
       <2>1. Waits(r) \/ Checked(r) BY <1>11 DEF DockerInv, ReferencesVerified
       <2> QED BY <1>8, <1>11, <2>1
<1>12. SameRun(run.pc) \/ run.pc = "publish"
       BY DEF SameRun
<1> QED BY <1>1, <1>2, <1>5, <1>6, <1>10, <1>11, <1>12, ReferenceStep

LEMMA FailsKeeps ==
    ASSUME DockerInv, NEW t \in pool.busy, t.step \in {"push", "inspect", "verify"}, Fails(t),
           UNCHANGED <<local, exports, manifest, disturbed, events, run>>,
           registry' = [r \in Ref |-> registry'[r]],
           run.pc = "verify" => UNCHANGED registry,
           \A r : Pushed(r) => Pushed(r)',
           \A u \in pool.busy : u.step = "inspect" /\ u.on \notin disturbed =>
             registry'[u.on] = local[u.on]
    PROVE  DockerInv'
<1>1. /\ run.pc \in {"publish", "verify"} /\ DockerShape
      /\ \A u \in pool.busy : IsTask(u) /\ u.on \in References /\ u.step \in ReferenceSteps
      BY ReferenceTask
<1> DEFINE B == pool.busy \ {t}
<1>2. pool' = [todo |-> pool.todo, busy |-> B, failed |-> TRUE] BY <1>1, PoolMoves
<1>3. \A u \in B : IsTask(u) /\ u.on \in References /\ u.step \in ReferenceSteps BY <1>1
<1>4. \A v \in pool.busy \ {t} : v \in B OBVIOUS
<1>5. \A u \in B : u.step = "inspect" /\ u.on \notin disturbed =>
        registry'[u.on] = local[u.on] /\ u.digest \in {None, local[u.on]}
      BY DEF DockerInv, PublishOK
<1> HIDE DEF B
<1>6. IsRun(run') /\ IsList(run'.result) BY <1>1 DEF DockerShape
<1> QED BY <1>1, <1>2, <1>3, <1>4, <1>5, <1>6, ReferenceMove

LEMMA PushKeeps == ASSUME DockerInv, NEW t \in pool.busy, Push(t) PROVE DockerInv'
<1>1. /\ run.pc = "publish" /\ DockerShape /\ t.on \in References /\ t.on \in Ref /\ IsTask(t)
      /\ pool.failed \in BOOLEAN
      /\ \A u \in pool.busy : IsTask(u) /\ u.on \in References /\ u.step \in ReferenceSteps
      BY ReferenceTask DEF Push
<1>2. UNCHANGED <<local, exports, manifest, run, events, disturbed>> /\ t.step = "push"
      BY DEF Push
<1>3. CASE Fails(t) /\ UNCHANGED registry
      <2>1. registry' = [r \in Ref |-> registry'[r]] BY <1>1, <1>3 DEF DockerShape
      <2>2. \A r : Pushed(r)' <=> Pushed(r) BY <1>2, <1>3, PushedStays
      <2>3. \A u \in pool.busy : u.step = "inspect" /\ u.on \notin disturbed =>
              registry'[u.on] = local[u.on]
            BY <1>3 DEF DockerInv, PublishOK
      <2> QED BY <1>2, <1>3, <2>1, <2>2, <2>3, FailsKeeps
<1>4. ASSUME registry' = [registry EXCEPT ![t.on] = local[t.on]] PROVE
        /\ registry' = [r \in Ref |-> registry'[r]]
        /\ registry'[t.on] = local[t.on]
        /\ \A r : Pushed(r) => Pushed(r)'
        /\ \A u \in pool.busy : u.step = "inspect" /\ u.on \notin disturbed =>
             registry'[u.on] = local[u.on]
      <2>1. registry = [r \in Ref |-> registry[r]] BY <1>1 DEF DockerShape
      <2>2. registry' = [r \in Ref |-> IF r = t.on THEN local[r] ELSE registry[r]]
            BY <1>4, <2>1
      <2>3. \A r : registry[r] = local[r] => registry'[r] = local[r]
            <3>1. TAKE r
            <3>2. CASE r \in Ref BY <2>2, <3>2
            <3>3. CASE r \notin Ref
                  <4>1. registry'[r] = registry[r] BY <1>1, <1>4, <2>1, <3>3
                  <4> QED BY <4>1
            <3> QED BY <3>2, <3>3
      <2>4. \A r : Pushed(r) => Pushed(r)' BY <1>2, <2>3 DEF Pushed
      <2>5. registry'[t.on] = local[t.on] BY <1>1, <2>2
      <2>6. \A u \in pool.busy : u.step = "inspect" /\ u.on \notin disturbed =>
              registry'[u.on] = local[u.on]
            BY <2>3 DEF DockerInv, PublishOK
      <2> QED BY <2>2, <2>4, <2>5, <2>6
<1>5. CASE Fails(t) /\ registry' = [registry EXCEPT ![t.on] = local[t.on]]
      BY <1>1, <1>2, <1>4, <1>5, FailsKeeps
<1>6. ASSUME registry' = [registry EXCEPT ![t.on] = local[t.on]], NEW d \in PushDigests(t.on),
             GoOn(t, [t EXCEPT !.step = "inspect", !.digest = d])
      PROVE  DockerInv'
      <2> DEFINE u == [t EXCEPT !.step = "inspect", !.digest = d]
      <2>1. IsTask(u) /\ u.step = "inspect" /\ u.on = t.on /\ u.digest = d
            BY <1>1 DEF IsTask, TaskFields
      <2>2. GoOn(t, u) BY <1>6
      <2> HIDE DEF u
      <2> DEFINE B == (pool.busy \ {t}) \cup {u}
      <2>3. pool' = [todo |-> pool.todo, busy |-> B, failed |-> pool.failed]
            BY <1>1, <2>2, PoolMoves
      <2>4. \A x \in B : IsTask(x) /\ x.on \in References /\ x.step \in ReferenceSteps
            BY <1>1, <2>1 DEF ReferenceSteps
      <2>5. (\A v \in pool.busy \ {t} : v \in B) /\ u \in B OBVIOUS
      <2>6. \A x \in B : x.step = "inspect" /\ x.on \notin disturbed =>
              registry'[x.on] = local[x.on] /\ x.digest \in {None, local[x.on]}
            BY <1>4, <1>6, <2>1 DEF DockerInv, PublishOK, PushDigests
      <2> HIDE DEF B
      <2>7. IsRun(run') /\ IsList(run'.result) BY <1>1, <1>2 DEF DockerShape
      <2> QED BY <1>1, <1>2, <1>4, <1>6, <2>1, <2>3, <2>4, <2>5, <2>6, <2>7, ReferenceMove
<1> QED BY <1>3, <1>5, <1>6 DEF Push

LEMMA InspectKeeps == ASSUME DockerInv, NEW t \in pool.busy, Inspect(t) PROVE DockerInv'
<1>1. /\ run.pc = "publish" /\ DockerShape /\ t.on \in References /\ t.on \in Ref /\ IsTask(t)
      /\ pool.failed \in BOOLEAN
      /\ \A u \in pool.busy : IsTask(u) /\ u.on \in References /\ u.step \in ReferenceSteps
      BY ReferenceTask DEF Inspect
<1>2. UNCHANGED <<local, registry, exports, manifest, events, disturbed>> /\ t.step = "inspect"
      BY DEF Inspect, Quiet, world
<1>3. registry' = [r \in Ref |-> registry'[r]] BY <1>1, <1>2 DEF DockerShape
<1>4. \A u \in pool.busy : u.step = "inspect" /\ u.on \notin disturbed =>
        registry'[u.on] = local[u.on] /\ u.digest \in {None, local[u.on]}
      BY <1>2 DEF DockerInv, PublishOK
<1>5. CASE Fails(t) /\ UNCHANGED run
      <2>1. \A r : Pushed(r)' <=> Pushed(r) BY <1>2, <1>5, PushedStays
      <2> QED BY <1>2, <1>3, <1>4, <1>5, <2>1, FailsKeeps
<1>6. ASSUME NEW told \in InspectDigests(t.on), DigestAgrees(t.digest, told), Done(t),
             run' = [run EXCEPT !.result =
                        Append(@, <<t.on, IF t.digest # None THEN t.digest ELSE told>>)]
      PROVE  DockerInv'
      <2> DEFINE d == IF t.digest # None THEN t.digest ELSE told
                 l == Append(run.result, <<t.on, d>>)
                 B == pool.busy \ {t}
      <2>1. t.on \notin disturbed => d = registry[t.on]
            BY <1>2, <1>4, <1>6 DEF InspectDigests, DigestAgrees
      <2>2. IsList(l) /\ Range(l) = Range(run.result) \cup {<<t.on, d>>}
            BY <1>1, AppendToList DEF DockerShape
      <2>3. run' = [run EXCEPT !.result = l] BY <1>6
      <2> HIDE DEF l, d
      <2>4. /\ IsRun(run') /\ run'.pc = run.pc /\ run'.id = run.id /\ run'.conf = run.conf
            /\ run'.shown = run.shown /\ run'.ask = run.ask /\ run'.ops = run.ops
            /\ run'.result = l
            BY <1>1, <2>3 DEF DockerShape, IsRun, RunFields
      <2>5. \A r : Pushed(r) => Pushed(r)' BY <1>2, <2>2, <2>4 DEF Pushed
      <2>6. Pushed(t.on)'
            BY <1>2, <1>4, <2>1, <2>2, <2>4 DEF Pushed
      <2>7. pool' = [todo |-> pool.todo, busy |-> B, failed |-> pool.failed]
            BY <1>1, <1>6, PoolMoves
      <2>8. \A x \in B : IsTask(x) /\ x.on \in References /\ x.step \in ReferenceSteps BY <1>1
      <2>9. \A v \in pool.busy \ {t} : v \in B OBVIOUS
      <2>10. \A u \in B : u.step = "inspect" /\ u.on \notin disturbed =>
               registry'[u.on] = local[u.on] /\ u.digest \in {None, local[u.on]}
             BY <1>4
      <2> HIDE DEF B
      <2> QED BY <1>1, <1>2, <1>3, <2>2, <2>4, <2>5, <2>6, <2>7, <2>8, <2>9, <2>10, ReferenceMove
<1> QED BY <1>5, <1>6 DEF Inspect

LEMMA VerifyRefKeeps == ASSUME DockerInv, NEW t \in pool.busy, VerifyRef(t) PROVE DockerInv'
<1>1. /\ run.pc = "verify" /\ DockerShape
      /\ pool.failed \in BOOLEAN /\ IsRun(run) /\ IsList(run.result)
      /\ \A u \in pool.busy : IsTask(u) /\ u.on \in References /\ u.step \in ReferenceSteps
      BY ReferenceTask DEF VerifyRef, DockerShape
<1>2. UNCHANGED <<local, registry, exports, manifest, run, events, disturbed>>
      BY DEF VerifyRef, Quiet, world
<1>3. registry' = [r \in Ref |-> registry'[r]] BY <1>1, <1>2 DEF DockerShape
<1>4. \A r : Pushed(r)' <=> Pushed(r) BY <1>2, PushedStays
<1>5. \A u \in pool.busy : u.step = "inspect" /\ u.on \notin disturbed =>
        registry'[u.on] = local[u.on] /\ u.digest \in {None, local[u.on]}
      BY <1>2 DEF DockerInv, PublishOK
<1>6. CASE Fails(t) BY <1>2, <1>3, <1>4, <1>5, <1>6, FailsKeeps DEF VerifyRef
<1>7. CASE Verified(t.on) /\ Done(t)
      <2> DEFINE B == pool.busy \ {t}
      <2>1. pool' = [todo |-> pool.todo, busy |-> B, failed |-> pool.failed]
            BY <1>1, <1>7, PoolMoves
      <2>2. \A x \in B : IsTask(x) /\ x.on \in References /\ x.step \in ReferenceSteps BY <1>1
      <2>3. \A v \in pool.busy \ {t} : v \in B OBVIOUS
      <2>4. \A u \in B : u.step = "inspect" /\ u.on \notin disturbed =>
              registry'[u.on] = local[u.on] /\ u.digest \in {None, local[u.on]}
            BY <1>5
      <2>5. Checked(t.on) BY <1>7 DEF Checked
      <2> HIDE DEF B
      <2> QED BY <1>1, <1>2, <1>3, <1>4, <2>1, <2>2, <2>3, <2>4, <2>5, ReferenceMove
<1> QED BY <1>6, <1>7 DEF VerifyRef

\* What others do is known to have happened to the reference.
LEMMA OthersActKeep == ASSUME DockerInv, NEW x \in Ref, OthersAct(x) PROVE DockerInv'
<1>1. DockerShape BY DEF DockerInv
<1>2. /\ UNCHANGED <<exports, manifest, run, pool>> /\ disturbed' = disturbed \cup {x}
      /\ events' \in Nat
      BY <1>1 DEF OthersAct, DockerShape
<1>3. /\ local' = [r \in Ref |-> local'[r]] /\ registry' = [r \in Ref |-> registry'[r]]
      /\ \A r : r # x => local'[r] = local[r] /\ registry'[r] = registry[r]
      <2>1. local = [r \in Ref |-> local[r]] /\ registry = [r \in Ref |-> registry[r]]
            BY <1>1 DEF DockerShape
      <2>2. CASE local' = [local EXCEPT ![x] = Others] /\ UNCHANGED registry BY <2>1, <2>2
      <2>3. CASE registry' = [registry EXCEPT ![x] = Others] /\ UNCHANGED local BY <2>1, <2>3
      <2> QED BY <2>2, <2>3 DEF OthersAct
<1>4. DockerShape' BY <1>1, <1>2, <1>3 DEF DockerShape
<1>5. PlanKept'
      <2>1. PlanOK(run.conf, run.shown)' <=> PlanOK(run.conf, run.shown) BY <1>2 DEF PlanOK
      <2> QED BY <1>2, <2>1 DEF DockerInv, PlanKept, Planned
<1>6. TasksOK' BY <1>2 DEF DockerInv, TasksOK, Tasks, Images, References
<1>7. StageOK' BY <1>2 DEF DockerInv, StageOK
<1>8. Images' = Images /\ References' = References BY <1>2 DEF Images, References
<1>9. \A y : Waits(y)' <=> Waits(y) BY <1>2 DEF Waits
<1>10. \A i : ImageBuilt(i) => ImageBuilt(i)'
       <2>1. \A i : Content(i)' = Content(i) /\ (Multi(run.conf)' <=> Multi(run.conf))
                    /\ Refs(run.conf, i)' = Refs(run.conf, i)
             BY <1>2 DEF Content, Multi
       <2> QED BY <1>2, <1>3, <1>8, <2>1 DEF ImageBuilt, Inside
<1>11. \A r : Pushed(r) => Pushed(r)' BY <1>2, <1>3 DEF Pushed
<1>12. \A r : Checked(r) => Checked(r)'
       <2>1. Expected' = Expected BY <1>2 DEF Expected
       <2> QED BY <1>2, <1>3, <2>1 DEF Checked, Verified, PlatformsMatch, Multi
<1>13. BuildOK' BY <1>2, <1>8, <1>9, <1>10 DEF DockerInv, BuildOK, AfterBuild
<1>14. PublishOK'
       <2>1. \A t \in pool'.busy : t.step = "inspect" /\ t.on \notin disturbed' =>
               registry'[t.on] = local'[t.on] /\ t.digest \in {None, local'[t.on]}
             BY <1>2, <1>3 DEF DockerInv, PublishOK
       <2>2. run'.pc = "publish" /\ ~pool'.failed => \A r \in References' : Waits(r)' \/ Pushed(r)'
             BY <1>2, <1>8, <1>9, <1>11 DEF DockerInv, PublishOK
       <2>3. run'.pc = "manifest" \/ (run'.pc \in {"expect", "verify", "ok"} /\ "push" \in run'.ops)
               => \A r \in References' : Pushed(r)'
             BY <1>2, <1>8, <1>11 DEF DockerInv, PublishOK
       <2>4. run'.pc \in {"expect", "verify", "ok"} /\ "push" \in run'.ops /\ run'.conf.manifest =>
               manifest' = Range(run'.result)
             BY <1>2 DEF DockerInv, PublishOK
       <2> QED BY <2>1, <2>2, <2>3, <2>4 DEF PublishOK
<1>15. ReferencesVerified' BY <1>2, <1>8, <1>9, <1>12 DEF DockerInv, ReferencesVerified
<1> QED BY <1>4, <1>5, <1>6, <1>7, <1>13, <1>14, <1>15 DEF DockerInv

LEMMA RefusedRun ==
    ASSUME NEW n, NEW u, u = [[Idle EXCEPT !.id = n] EXCEPT !.pc = "failed"]
    PROVE  IsRun(u) /\ u.pc = "failed" /\ u.result = <<>>
BY DEF Idle, IsRun, RunFields

LEMMA NothingYet == IsList(<<>>) /\ Range(<<>>) = {}
BY DEF IsList, Range

\* A run that is at its begin, or that ended at once.
LEMMA Fresh ==
    ASSUME IsRun(run'), run'.result = <<>>, run'.pc \in {"idle", "failed", "ask", "start"},
           run'.pc \in {"ask", "start"} => PlanOK(run'.conf, run'.shown),
           run'.pc = "ask" => run'.ask,
           pool' = NoPool, events' \in Nat,
           local' = [r \in Ref |-> local'[r]], registry' = [r \in Ref |-> registry'[r]],
           exports' = [i \in Image |-> exports'[i]]
    PROVE  DockerInv'
<1>1. pool' = [todo |-> <<>>, busy |-> {}, failed |-> FALSE] BY DEF NoPool
<1>2. /\ pool' = [todo |-> pool'.todo, busy |-> pool'.busy, failed |-> pool'.failed]
      /\ pool'.todo = <<>> /\ pool'.busy = {} /\ pool'.failed \in BOOLEAN
      BY <1>1
<1>3. DockerShape' BY <1>2, NothingYet DEF DockerShape
<1>4. PlanKept' BY DEF PlanKept, Planned, Refused
<1>5. TasksOK' BY <1>2 DEF TasksOK
<1>6. StageOK' BY DEF StageOK
<1>7. BuildOK' BY DEF BuildOK, AfterBuild
<1>8. PublishOK' BY <1>2 DEF PublishOK
<1>9. ReferencesVerified' BY DEF ReferencesVerified
<1> QED BY <1>3, <1>4, <1>5, <1>6, <1>7, <1>8, <1>9 DEF DockerInv

LEMMA StartKeeps == DockerInv /\ Start => DockerInv'
<1> SUFFICES ASSUME DockerInv, Start PROVE DockerInv' OBVIOUS
<1>1. DockerShape /\ UNCHANGED <<world, events>> /\ pool' = NoPool BY DEF DockerInv, Start
<1>2. /\ local' = [r \in Ref |-> local'[r]] /\ registry' = [r \in Ref |-> registry'[r]]
      /\ exports' = [i \in Image |-> exports'[i]] /\ events' \in Nat
      BY <1>1 DEF DockerShape, world
<1>3. PICK file \in Files, a \in Answers, f \in Filters, ask \in BOOLEAN, paths \in BOOLEAN,
           ops \in Operations :
         LET c == IF ask THEN Answered(file, a) ELSE Defaulted(file)
             begun == [Idle EXCEPT !.id = run.id + 1]
         IN  IF paths /\ Accepted(c) /\ FilterAccepted(c, f)
             THEN run' = [begun EXCEPT !.pc = IF ask THEN "ask" ELSE "start", !.conf = Narrowed(c, f),
                                       !.shown = Shown(c, f), !.ask = ask, !.ops = Selection(ops)]
             ELSE run' = [begun EXCEPT !.pc = "failed"]
      BY DEF Start
<1> DEFINE c == IF ask THEN Answered(file, a) ELSE Defaulted(file)
           n == run.id + 1
           p == IF ask THEN "ask" ELSE "start"
           k == Narrowed(c, f)
           s == Shown(c, f)
           o == Selection(ops)
           full == [[Idle EXCEPT !.id = n] EXCEPT !.pc = p, !.conf = k, !.shown = s, !.ask = ask,
                                                  !.ops = o]
           none == [[Idle EXCEPT !.id = n] EXCEPT !.pc = "failed"]
<1>4. \/ Accepted(c) /\ run' = full
      \/ run' = none
      BY <1>3
<1>5. c \in Config BY DEF Config
<1>6. Accepted(c) => PlanOK(k, s) BY <1>5, NarrowedIsPlanned
<1>7. p \in {"ask", "start"} /\ (p = "ask" => ask) OBVIOUS
<1> HIDE DEF c, n, p, k, s, o
<1>8. CASE Accepted(c) /\ run' = full
      <2>1. /\ IsRun(run') /\ run'.pc = p /\ run'.conf = k /\ run'.shown = s /\ run'.ask = ask
            /\ run'.result = <<>>
            BY <1>8 DEF Idle, IsRun, RunFields
      <2>2. PlanOK(run'.conf, run'.shown) BY <1>6, <1>8, <2>1
      <2> HIDE DEF full
      <2> QED BY <1>1, <1>2, <1>7, <2>1, <2>2, Fresh
<1>9. CASE run' = none
      <2>1. run'.pc = "failed" /\ IsRun(run') /\ run'.result = <<>> BY <1>9, RefusedRun
      <2> HIDE DEF none
      <2> QED BY <1>1, <1>2, <2>1, Fresh
<1> QED BY <1>4, <1>8, <1>9

LEMMA DockerBegins == Init => DockerInv
<1> SUFFICES ASSUME Init PROVE DockerInv OBVIOUS
<1>1. /\ run = Idle /\ pool = [todo |-> <<>>, busy |-> {}, failed |-> FALSE] /\ events \in Nat
      BY AssumptionOfDocker DEF Init, DockerAssumption, NoPool
<1>2. run.pc = "idle" /\ IsRun(run) /\ run.result = <<>> BY <1>1 DEF Idle, IsRun, RunFields
<1>3. /\ pool = [todo |-> pool.todo, busy |-> pool.busy, failed |-> pool.failed]
      /\ pool.todo = <<>> /\ pool.busy = {} /\ pool.failed \in BOOLEAN
      BY <1>1
<1>4. /\ local = [r \in Ref |-> local[r]] /\ registry = [r \in Ref |-> registry[r]]
      /\ exports = [i \in Image |-> exports[i]]
      BY DEF Init
<1>5. DockerShape BY <1>1, <1>2, <1>3, <1>4, NothingYet DEF DockerShape
<1>6. PlanKept BY <1>2 DEF PlanKept, Planned, Refused
<1>7. TasksOK /\ PublishOK BY <1>2, <1>3 DEF TasksOK, PublishOK
<1>8. StageOK /\ BuildOK /\ ReferencesVerified BY <1>2 DEF StageOK, BuildOK, AfterBuild, ReferencesVerified
<1> QED BY <1>5, <1>6, <1>7, <1>8 DEF DockerInv

LEMMA DockerStutters == DockerInv /\ UNCHANGED vars => DockerInv'
<1> SUFFICES ASSUME DockerInv, UNCHANGED vars PROVE DockerInv' OBVIOUS
<1>1. UNCHANGED <<local, registry, exports, manifest, run, pool, events, disturbed>> BY DEF vars
<1>2. DockerShape' BY <1>1 DEF DockerInv, DockerShape
<1>3. PlanKept' BY <1>1 DEF DockerInv, PlanKept, Planned, PlanOK
<1>4. TasksOK' /\ StageOK' BY <1>1 DEF DockerInv, TasksOK, Tasks, StageOK, Images, References
<1>5. \A i : ImageBuilt(i)' <=> ImageBuilt(i) BY <1>1, ImageBuiltStays
<1>6. \A r : (Pushed(r)' <=> Pushed(r)) /\ (Checked(r)' <=> Checked(r))
      BY <1>1, PushedStays, CheckedStays
<1>7. \A x : Waits(x)' <=> Waits(x) BY <1>1 DEF Waits
<1>8. Images' = Images /\ References' = References BY <1>1 DEF Images, References
<1>9. BuildOK' BY <1>1, <1>5, <1>7, <1>8 DEF DockerInv, BuildOK, AfterBuild
<1>10. PublishOK' BY <1>1, <1>6, <1>7, <1>8 DEF DockerInv, PublishOK
<1>11. ReferencesVerified' BY <1>1, <1>6, <1>7, <1>8 DEF DockerInv, ReferencesVerified
<1> QED BY <1>2, <1>3, <1>4, <1>9, <1>10, <1>11 DEF DockerInv

LEMMA DockerKeeps == DockerInv /\ [Next]_vars => DockerInv'
<1> SUFFICES ASSUME DockerInv, [Next]_vars PROVE DockerInv' OBVIOUS
<1>1. CASE Worker
      BY <1>1, BuildImageKeeps, CheckTagsKeeps, UntagKeeps, ExportImageKeeps, PushKeeps,
         InspectKeeps, VerifyRefKeeps DEF Worker
<1>2. CASE \E r \in Ref : OthersAct(r) BY <1>2, OthersActKeep
<1>3. CASE UNCHANGED vars BY <1>3, DockerStutters
<1> QED BY <1>1, <1>2, <1>3, StartKeeps, AskKeeps, LoginKeeps, BeginKeepsPlan, CredentialsKeep,
           BeginPushKeeps, StartTaskKeeps, PoolEndsKeeps, WriteManifestKeeps, BeginVerifyKeeps
        DEF Next

LEMMA ResultFollows == DockerInv => ResultStands
<1> SUFFICES ASSUME DockerInv, run.pc = "ok" PROVE ResultStands
    BY DEF ResultStands, SuccessIsPublished, ExportsStand
<1>1. Planned BY DEF Planned, Refused
<1>2. "build" \in run.ops => \A i \in Images : ImageBuilt(i) BY DEF DockerInv, BuildOK, AfterBuild
<1>3. "push" \in run.ops => /\ ~run.conf.export /\ \A r \in References : Pushed(r)
                            /\ run.conf.manifest => manifest = Range(run.result)
      BY DEF DockerInv, PublishOK, StageOK
<1>4. "verify" \in run.ops => \A r \in References : Checked(r) BY DEF DockerInv, ReferencesVerified
<1>5. ASSUME NEW r \in References \ disturbed
      PROVE  /\ {"build", "push"} \subseteq run.ops /\ ~Multi(run.conf) => registry[r] = Content(Owner(r))
             /\ "push" \in run.ops => <<r, registry[r]>> \in Range(run.result)
             /\ "push" \in run.ops /\ run.conf.manifest => <<r, registry[r]>> \in manifest
             /\ "verify" \in run.ops => registry[r].multi = Multi(run.conf)
             /\ "verify" \in run.ops /\ run.conf.strict => <<r, registry[r]>> \in Expected
      <2>1. Owner(r) \in Images /\ r \in Range(Refs(run.conf, Owner(r)))
            <3>1. \E i \in Images : r \in Range(Refs(run.conf, i)) BY <1>1, PlanRefs
            <3> QED BY <3>1 DEF Owner, Images
      <2>2. "push" \in run.ops => registry[r] = local[r] /\ <<r, registry[r]>> \in Range(run.result)
            BY <1>3 DEF Pushed
      <2>3. {"build", "push"} \subseteq run.ops /\ ~Multi(run.conf) => local[r] = Content(Owner(r))
            BY <1>2, <1>3, <2>1 DEF ImageBuilt
      <2>4. "verify" \in run.ops => Verified(r) BY <1>4 DEF Checked
      <2>5. "verify" \in run.ops => registry[r].multi = Multi(run.conf)
            BY <2>4 DEF Verified, PlatformsMatch
      <2>6. "verify" \in run.ops /\ run.conf.strict => <<r, registry[r]>> \in Expected
            BY <2>4 DEF Verified
      <2> QED BY <1>3, <2>2, <2>3, <2>5, <2>6
<1>6. SuccessIsPublished BY <1>5 DEF SuccessIsPublished, References
<1>7. ExportsStand BY <1>2 DEF ExportsStand, ImageBuilt, Images
<1> QED BY <1>6, <1>7 DEF ResultStands

LEMMA StepStaysWithin == DockerInv /\ [Next]_vars => WithinThePlan
<1> SUFFICES ASSUME DockerInv, [Next]_vars PROVE WithinThePlan OBVIOUS
<1>1. ASSUME NEW t \in pool.busy, Push(t) PROVE WithinThePlan
      <2>1. run.pc = "publish" /\ Planned /\ t.on \in References
            BY <1>1, ReferenceTask DEF Push
      <2>2. t.on \in run.shown BY <2>1, PlanRefs
      <2>3. \A r \in Ref : registry'[r] # registry[r] => r = t.on
            <3>1. registry = [r \in Ref |-> registry[r]] BY DEF DockerInv, DockerShape
            <3> QED BY <1>1, <3>1 DEF Push
      <2> QED BY <2>1, <2>2, <2>3 DEF WithinThePlan, Ended
<1>2. CASE Worker /\ ~\E t \in pool.busy : Push(t)
      <2>1. UNCHANGED registry
            BY <1>2 DEF Worker, BuildImage, CheckTags, Untag, ExportImage, Inspect, VerifyRef,
                        Quiet, world
      <2>2. pool.busy # {} BY <1>2 DEF Worker
      <2>3. ~Ended BY <2>2 DEF Ended, DockerInv, TasksOK
      <2> QED BY <2>1, <2>3 DEF WithinThePlan
<1>3. ASSUME NEW x \in Ref, OthersAct(x) PROVE WithinThePlan
      <2>1. events' # events BY <1>3 DEF OthersAct, DockerInv, DockerShape
      <2> QED BY <2>1 DEF WithinThePlan
<1>4. CASE WriteManifest
      BY <1>4 DEF WriteManifest, WithinThePlan, Ended
<1>5. CASE UNCHANGED world BY <1>5 DEF WithinThePlan, world
<1>6. CASE UNCHANGED vars BY <1>6 DEF WithinThePlan, world, vars
<1>7. CASE \/ Start \/ Ask \/ Login \/ Begin \/ Credentials \/ BeginPush \/ StartTask \/ PoolEnds
           \/ BeginVerify
      <2>1. UNCHANGED world
            BY <1>7 DEF Start, Ask, Login, Begin, Credentials, BeginPush, StartTask, PoolEnds,
                        BeginVerify, Quiet
      <2> QED BY <1>5, <2>1
<1>8. CASE Worker BY <1>1, <1>2, <1>8
<1> QED BY <1>3, <1>4, <1>6, <1>7, <1>8 DEF Next

LEMMA OfDocker ==
    ASSUME part = "docker" => DockerInv, [DeliverNext]_allVars
    PROVE  /\ part' = "docker" => DockerInv'
           /\ part = "docker" => WithinThePlan
<1>1. CASE part # "docker" /\ UNCHANGED part BY <1>1
<1>2. CASE part = "docker" /\ Next /\ UNCHANGED part
      BY <1>2, DockerKeeps, StepStaysWithin
<1>3. CASE UNCHANGED allVars
      <2>1. part' = part /\ UNCHANGED vars BY <1>3 DEF allVars
      <2> QED BY <2>1, DockerKeeps, StepStaysWithin
<1> QED BY <1>1, <1>2, <1>3 DEF DeliverNext

\* A run that reports success has published, exported and verified what it says (DockerStands,
\* publish.ts publishDockerImages, build.ts buildOneImageExport, verify.ts verifyOneReference).
THEOREM DockerAlwaysStands == DeliverSpec => []DockerStands
<1>1. DeliverInit => (part = "docker" => DockerInv) BY DockerBegins DEF DeliverInit
<1>2. (part = "docker" => DockerInv) /\ [DeliverNext]_allVars
        => (part = "docker" => DockerInv)'
      BY OfDocker
<1>3. (part = "docker" => DockerInv) => DockerStands BY ResultFollows DEF DockerStands
<1> QED BY <1>1, <1>2, <1>3, PTL DEF DeliverSpec

\* A run changes in a registry only references of the plan that the user was shown, and nothing
\* after its end (DockerStaysWithinThePlan, cli-filter.ts deriveFilteredPlan, runner.ts
\* runWithConcurrency).
THEOREM DockerAlwaysStays == DeliverSpec => DockerStaysWithinThePlan
<1>1. DeliverInit => (part = "docker" => DockerInv) BY DockerBegins DEF DeliverInit
<1>2. (part = "docker" => DockerInv) /\ [DeliverNext]_allVars
        => (part = "docker" => DockerInv)'
      BY OfDocker
<1>3. (part = "docker" => DockerInv) /\ [DeliverNext]_allVars
        => [part = "docker" => WithinThePlan]_allVars
      BY OfDocker
<1> QED BY <1>1, <1>2, <1>3, PTL DEF DeliverSpec, DockerStaysWithinThePlan

------------------------------------------------------------------------------
\* The archive

\* The fields of a tree, of the build and of a client.
TreeFields == {"version", "packages", "modules", "root", "manifest"}
BuildFields == {"pc", "opt", "commands", "dirs"}
ClientFields == {"pc", "op", "version", "skip", "force", "temp"}
ArtifactShape ==
    /\ \E n \in Nat : DOMAIN packages = 1..n
    /\ \A d \in DOMAIN packages : DOMAIN packages[d] = Artifact!PackageFields
    /\ tree = [x \in TreeFields |-> tree[x]]
    /\ build = [x \in BuildFields |-> build[x]]
    /\ client = [c \in Client |-> client[c]]
    /\ \A c \in Client : client[c] = [x \in ClientFields |-> client[c][x]]
    /\ DOMAIN archive = Artifact!Version

\* Two states of a workspace, or of the packages in a tree, that differ in files alone.
Alike(p, q) ==
    /\ DOMAIN p = DOMAIN q
    /\ \A d \in DOMAIN p : p[d].name = q[d].name /\ p[d].deps = q[d].deps

\* What a build has planned, and what is in its tree.
BundleOK ==
    build.pc \in {"copy", "modules", "manifest", "tar"} =>
        /\ build.dirs \subseteq DOMAIN packages /\ Artifact!Serves(packages, build.dirs)
        /\ \A c \in build.commands : c.dir \in build.dirs

\* The dependencies of a production build: what the packages ask for can be merged.
Merges(t) == t.root # <<>> => Artifact!Agree(t)

TreeOK ==
    /\ build.pc \in {"modules", "manifest", "tar"} => Alike(tree.packages, packages)
    /\ build.pc \in {"manifest", "tar"} =>
         Merges(tree) /\ (tree.root # <<>> => tree.modules = build.dirs)
    /\ build.pc = "tar" => tree.manifest = build.commands

\* What a client has verified is what it installs.
Complete(t) == t.manifest # {} /\ \A c \in t.manifest : c.name \in t.packages[c.dir].files
ClientsOK == \A c \in Client : client[c].pc \in {"remove", "removed", "rename"} => Complete(client[c].temp)

ArtifactInv ==
    ArtifactShape /\ BundleOK /\ TreeOK /\ ClientsOK /\ Artifact!BuiltIsClosed /\ Artifact!InstalledIsComplete

LEMMA AlikeServe ==
    ASSUME NEW p, NEW q, Alike(p, q), NEW ds, ds \subseteq DOMAIN p, Artifact!Serves(p, ds)
    PROVE  Artifact!Serves(q, ds)
BY DEF Alike, Artifact!Serves

\* collectCommandPackageClosure leaves out no package of a name that one of its packages needs.
LEMMA ClosureServes ==
    ASSUME NEW D, D \subseteq DOMAIN packages, NEW n \in Nat, DOMAIN packages = 1..n
    PROVE  /\ D \subseteq Artifact!Closure(D) /\ Artifact!Closure(D) \subseteq DOMAIN packages
           /\ Artifact!Serves(packages, Artifact!Closure(D))
<1> DEFINE C == Artifact!Closure(D)
<1>1. D \subseteq C /\ C \subseteq DOMAIN packages
    BY DEF Artifact!Closure, Artifact!Dirs
<1>2. ASSUME NEW d \in C, NEW e \in DOMAIN packages, packages[e].name \in DOMAIN packages[d].deps
      PROVE  \E f \in C : packages[f].name = packages[e].name
  <2> DEFINE K == {x \in DOMAIN packages : packages[x].name = packages[e].name}
  <2>1. PICK f \in K : \A x \in K : f <= x
    <3>1. K \in SUBSET Nat /\ K # {}
        OBVIOUS
    <3> HIDE DEF K
    <3> QED
        BY <3>1, HasLeast
  <2>2. f \in Artifact!InternalDir(packages[e].name)
    <3>1. \A x \in 1..(f - 1) : x \in DOMAIN packages /\ ~(f <= x)
        BY <2>1
    <3> QED
        BY <2>1, <3>1 DEF Artifact!InternalDir, Artifact!Dirs
  <2>3. ASSUME NEW s \in SUBSET DOMAIN packages, D \subseteq s, Artifact!Closed(s) PROVE f \in s
      BY <1>2, <2>2, <2>3 DEF Artifact!Closure, Artifact!Closed, Artifact!Dirs
  <2> QED
      BY <2>1, <2>3 DEF Artifact!Closure, Artifact!Dirs
<1> QED
    BY <1>1, <1>2 DEF Artifact!Serves

LEMMA ArtifactInitInv == Artifact!Init => ArtifactInv
<1> SUFFICES ASSUME Artifact!Init PROVE ArtifactInv
    OBVIOUS
<1>1. (\E n \in Nat : DOMAIN packages = 1..n) /\ \A d \in DOMAIN packages : DOMAIN packages[d] = Artifact!PackageFields
  <2>1. packages \in Seq(Range(packages)) /\ \A d \in DOMAIN packages : DOMAIN packages[d] = Artifact!PackageFields
      BY AssumptionOfArtifact DEF Artifact!Init, Artifact!ArtifactAssumption, Artifact!Range, Range
  <2>2. DOMAIN packages = 1..Len(packages) /\ Len(packages) \in Nat
      BY <2>1
  <2> QED
      BY <2>1, <2>2
<1>2. /\ tree = [x \in TreeFields |-> tree[x]] /\ build = [x \in BuildFields |-> build[x]]
      /\ build.pc = "idle"
  <2>1. tree = Artifact!NoTree /\ build = Artifact!NoBuild
      BY DEF Artifact!Init
  <2>2. tree = [x \in TreeFields |-> tree[x]]
      BY <2>1 DEF Artifact!NoTree, TreeFields
  <2>3. build = [x \in BuildFields |-> build[x]] /\ build.pc = "idle"
    <3>1. PICK o : o = CHOOSE b \in Builds : TRUE
        OBVIOUS
    <3>2. build = [pc |-> "idle", opt |-> o, commands |-> {}, dirs |-> {}]
        BY <2>1, <3>1 DEF Artifact!NoBuild
    <3> QED
        BY <3>2 DEF BuildFields
  <2> QED
      BY <2>2, <2>3
<1>3. /\ client = [c \in Client |-> client[c]]
      /\ \A c \in Client : client[c] = [x \in ClientFields |-> client[c][x]] /\ client[c].pc = "idle"
    BY DEF Artifact!Init, Artifact!NoClient, ClientFields
<1>4. /\ DOMAIN archive = Artifact!Version /\ \A v \in Artifact!Version : archive[v].state = "absent"
      /\ install.state \in {"absent", "foreign"}
    BY DEF Artifact!Init, Artifact!Holds
<1>5. ArtifactShape
    BY <1>1, <1>2, <1>3, <1>4 DEF ArtifactShape
<1>6. Artifact!BuiltIsClosed /\ Artifact!InstalledIsComplete
    BY <1>4 DEF Artifact!BuiltIsClosed, Artifact!InstalledIsComplete, Artifact!Whole
<1> QED
    BY <1>2, <1>3, <1>5, <1>6 DEF ArtifactInv, BundleOK, TreeOK, ClientsOK

LEMMA StartBuildInv == ArtifactInv /\ Artifact!StartBuild => ArtifactInv'
<1> SUFFICES ASSUME ArtifactInv, Artifact!StartBuild PROVE ArtifactInv'
    OBVIOUS
<1>1. UNCHANGED <<packages, client, install>>
    BY DEF Artifact!StartBuild
<1>2. ClientsOK' /\ Artifact!InstalledIsComplete'
    BY <1>1 DEF ArtifactInv, ClientsOK, Artifact!InstalledIsComplete
<1>3. PICK o \in Builds :
         IF Artifact!CommandsAccepted /\ Artifact!RootFilesAccepted(o.files) /\ Artifact!ModeAccepted(o)
         THEN /\ build' = [pc |-> "copy", opt |-> [o EXCEPT !.mode = Artifact!Mode(o)],
                           commands |-> Artifact!Commands, dirs |-> Artifact!CommandDirs]
              /\ tree' = [Artifact!NoTree EXCEPT !.version = o.version]
              /\ archive' = [archive EXCEPT ![o.version] = Artifact!Holds("absent")]
         ELSE build' = [Artifact!NoBuild EXCEPT !.pc = "failed"] /\ UNCHANGED <<tree, archive>>
    BY DEF Artifact!StartBuild
<1>4. CASE /\ build' = [pc |-> "copy", opt |-> [o EXCEPT !.mode = Artifact!Mode(o)],
                        commands |-> Artifact!Commands, dirs |-> Artifact!CommandDirs]
           /\ tree' = [Artifact!NoTree EXCEPT !.version = o.version]
           /\ archive' = [archive EXCEPT ![o.version] = Artifact!Holds("absent")]
  <2>1. /\ build' = [x \in BuildFields |-> build'[x]]
        /\ build'.pc = "copy" /\ build'.commands = Artifact!Commands /\ build'.dirs = Artifact!CommandDirs
      BY <1>4 DEF BuildFields
  <2>2. tree' = [x \in TreeFields |-> tree'[x]]
      BY <1>4 DEF TreeFields, Artifact!NoTree
  <2>3. /\ DOMAIN archive' = DOMAIN archive
        /\ \A v \in DOMAIN archive : archive'[v] = archive[v] \/ archive'[v].state = "absent"
      BY <1>4 DEF Artifact!Holds
  <2>4. ArtifactShape'
      BY <1>1, <2>1, <2>2, <2>3 DEF ArtifactInv, ArtifactShape, Artifact!Version
  <2>5. Artifact!BuiltIsClosed'
      BY <2>3 DEF ArtifactInv, ArtifactShape, Artifact!BuiltIsClosed, Artifact!Whole, Artifact!Version
  <2>6. BundleOK'
    <3>1. PICK n \in Nat : DOMAIN packages = 1..n
        BY DEF ArtifactInv, ArtifactShape
    <3> DEFINE D == {c.dir : c \in Artifact!Commands}
    <3>2. D \subseteq DOMAIN packages
        BY DEF Artifact!Commands, Artifact!Dirs
    <3>3. Artifact!CommandDirs = Artifact!Closure(D)
        BY DEF Artifact!CommandDirs
    <3>4. /\ D \subseteq Artifact!CommandDirs /\ Artifact!CommandDirs \subseteq DOMAIN packages
          /\ Artifact!Serves(packages, Artifact!CommandDirs)
        BY <3>1, <3>2, <3>3, ClosureServes
    <3>5. packages' = packages /\ build'.commands = Artifact!Commands /\ build'.dirs = Artifact!CommandDirs
        BY <1>1, <2>1
    <3> QED
        BY <3>4, <3>5 DEF BundleOK, Artifact!Serves
  <2> QED
      BY <1>2, <2>1, <2>4, <2>5, <2>6 DEF ArtifactInv, TreeOK
<1>5. CASE build' = [Artifact!NoBuild EXCEPT !.pc = "failed"] /\ UNCHANGED <<tree, archive>>
  <2>1. build' = [x \in BuildFields |-> build'[x]] /\ build'.pc = "failed"
      BY <1>5 DEF BuildFields, Artifact!NoBuild
  <2> QED
      BY <1>1, <1>2, <1>5, <2>1 DEF ArtifactInv, ArtifactShape, BundleOK, TreeOK, Artifact!BuiltIsClosed,
         Artifact!Whole, Artifact!Version
<1> QED
    BY <1>3, <1>4, <1>5

\* A step of the build leaves the workspace and the clients alone.
Bundling ==
    /\ UNCHANGED <<packages, client, install>>
    /\ \E pc : build' = [build EXCEPT !.pc = pc]

LEMMA BundlingFacts ==
    ASSUME ArtifactInv, Bundling
    PROVE  /\ build' = [x \in BuildFields |-> build'[x]]
           /\ build'.dirs = build.dirs /\ build'.commands = build.commands
           /\ ClientsOK' /\ Artifact!InstalledIsComplete'
           /\ build.pc \in {"copy", "modules", "manifest", "tar"} => BundleOK'
<1>1. PICK pc : build' = [build EXCEPT !.pc = pc]
    BY DEF Bundling
<1>2. /\ build' = [x \in BuildFields |-> build'[x]]
      /\ build'.dirs = build.dirs /\ build'.commands = build.commands
    BY <1>1 DEF ArtifactInv, ArtifactShape, BuildFields
<1> QED
    BY <1>2 DEF Bundling, ArtifactInv, ClientsOK, Artifact!InstalledIsComplete, BundleOK, Artifact!Serves

LEMMA BuildFailsInv ==
    ASSUME ArtifactInv, UNCHANGED <<packages, client, install, tree, archive>>, Artifact!BuildEnds("failed")
    PROVE  ArtifactInv'
<1>1. build' = [x \in BuildFields |-> build'[x]] /\ build'.pc = "failed"
    BY DEF ArtifactInv, ArtifactShape, BuildFields, Artifact!BuildEnds
<1> QED
    BY <1>1 DEF ArtifactInv, ArtifactShape, BundleOK, TreeOK, ClientsOK, Artifact!BuiltIsClosed, Artifact!Whole,
       Artifact!Version, Artifact!InstalledIsComplete

LEMMA CopyPackagesInv == ArtifactInv /\ Artifact!CopyPackages => ArtifactInv'
<1> SUFFICES ASSUME ArtifactInv, Artifact!CopyPackages PROVE ArtifactInv'
    OBVIOUS
<1>1. UNCHANGED <<packages, archive, client, install>> /\ build.pc = "copy"
    BY DEF Artifact!CopyPackages
<1>2. CASE Artifact!BuildEnds("failed") /\ UNCHANGED tree
    BY <1>1, <1>2, BuildFailsInv
<1>3. CASE /\ tree' = [tree EXCEPT !.packages =
                          [d \in Artifact!Dirs |-> Artifact!Copied(packages[d], build.opt.excluded)]]
           /\ Artifact!BuildEnds("modules")
  <2>1. Bundling /\ build'.pc = "modules"
      BY <1>1, <1>3 DEF Bundling, Artifact!BuildEnds, ArtifactInv, ArtifactShape, BuildFields
  <2> DEFINE copies == [d \in Artifact!Dirs |-> Artifact!Copied(packages[d], build.opt.excluded)]
  <2>2. Alike(copies, packages)
    <3>1. ASSUME NEW d \in DOMAIN packages
          PROVE  copies[d].name = packages[d].name /\ copies[d].deps = packages[d].deps
        BY DEF ArtifactInv, ArtifactShape, Artifact!PackageFields, Artifact!Copied, Artifact!Dirs
    <3> QED
        BY <3>1 DEF Alike, Artifact!Dirs
  <2>3. tree' = [x \in TreeFields |-> tree'[x]] /\ tree'.packages = copies
      BY <1>3 DEF ArtifactInv, ArtifactShape, TreeFields
  <2> HIDE DEF copies
  <2>4. ArtifactShape' /\ Artifact!BuiltIsClosed'
      BY <1>1, <2>1, <2>3, BundlingFacts DEF ArtifactInv, ArtifactShape, Artifact!BuiltIsClosed, Artifact!Whole,
         Artifact!Version
  <2>5. TreeOK'
      BY <1>1, <2>1, <2>2, <2>3 DEF TreeOK
  <2> QED
      BY <1>1, <2>1, <2>4, <2>5, BundlingFacts DEF ArtifactInv
<1> QED
    BY <1>2, <1>3 DEF Artifact!CopyPackages

\* mergeClosureDependencies: two packages of the closure do not ask for two major versions.
LEMMA MergeableAgrees ==
    ASSUME NEW ds, Artifact!Mergeable(ds), NEW dep,
           NEW r \in Artifact!Asked(ds, dep), NEW s \in Artifact!Asked(ds, dep)
    PROVE  (r.op = "workspace" /\ s.op = "workspace") \/ r.major = s.major
<1>1. dep \in Artifact!AskedFor(ds)
    BY DEF Artifact!Asked, Artifact!AskedFor
<1> QED
    BY <1>1 DEF Artifact!Mergeable, Artifact!Intersectable

LEMMA InstallModulesInv == ArtifactInv /\ Artifact!InstallModules => ArtifactInv'
<1> SUFFICES ASSUME ArtifactInv, Artifact!InstallModules PROVE ArtifactInv'
    OBVIOUS
<1>1. UNCHANGED <<packages, archive, client, install>> /\ build.pc = "modules"
    BY DEF Artifact!InstallModules
<1>2. CASE Artifact!BuildEnds("failed") /\ UNCHANGED tree
    BY <1>1, <1>2, BuildFailsInv
<1>3. CASE /\ build.opt.mode = "production" => Artifact!Mergeable(build.dirs)
           /\ tree' = [tree EXCEPT
                 !.root = IF build.opt.mode = "production" THEN Artifact!Merged(build.dirs) ELSE <<>>,
                 !.modules = CASE build.opt.mode = "production" -> build.dirs
                               [] build.opt.mode = "copy" -> DOMAIN tree.packages
                               [] OTHER -> {}]
           /\ Artifact!BuildEnds("manifest")
  <2>1. Bundling /\ build'.pc = "manifest"
      BY <1>1, <1>3 DEF Bundling, Artifact!BuildEnds, ArtifactInv, ArtifactShape, BuildFields
  <2>2. /\ tree' = [x \in TreeFields |-> tree'[x]] /\ tree'.packages = tree.packages
        /\ tree'.root # <<>> => build.opt.mode = "production"
        /\ build.opt.mode = "production" => tree'.modules = build.dirs
    <3>1. PICK rt : rt = IF build.opt.mode = "production" THEN Artifact!Merged(build.dirs) ELSE <<>>
        OBVIOUS
    <3>2. PICK ms : ms = CASE build.opt.mode = "production" -> build.dirs
                               [] build.opt.mode = "copy" -> DOMAIN tree.packages
                               [] OTHER -> {}
        OBVIOUS
    <3>3. tree' = [tree EXCEPT !.root = rt, !.modules = ms]
        BY <1>3, <3>1, <3>2
    <3>4. /\ tree' = [x \in TreeFields |-> tree'[x]] /\ tree'.packages = tree.packages
          /\ tree'.root = rt /\ tree'.modules = ms
        BY <3>3 DEF ArtifactInv, ArtifactShape, TreeFields
    <3>5. (rt # <<>> => build.opt.mode = "production") /\ (build.opt.mode = "production" => ms = build.dirs)
        BY <3>1, <3>2
    <3> QED
        BY <3>4, <3>5
  <2>3. Merges(tree')
    <3> SUFFICES ASSUME tree'.root # <<>>, NEW dep, NEW r \in Artifact!Ranges(tree', dep), NEW s \in Artifact!Ranges(tree', dep)
                 PROVE  (r.op = "workspace" /\ s.op = "workspace") \/ r.major = s.major
        BY DEF Merges, Artifact!Agree
    <3>2. build.dirs \subseteq DOMAIN packages /\ Alike(tree.packages, packages)
        BY <1>1 DEF ArtifactInv, BundleOK, TreeOK
    <3>3. tree'.modules = build.dirs /\ Artifact!Mergeable(build.dirs)
        BY <1>3, <2>2
    <3>4. Artifact!Ranges(tree', dep) \subseteq Artifact!Asked(build.dirs, dep)
        BY <2>2, <3>2, <3>3 DEF Artifact!Ranges, Alike, Artifact!Asked
    <3> QED
        BY <3>3, <3>4, MergeableAgrees
  <2>4. ArtifactShape' /\ Artifact!BuiltIsClosed'
      BY <1>1, <2>1, <2>2, BundlingFacts DEF ArtifactInv, ArtifactShape, Artifact!BuiltIsClosed, Artifact!Whole,
         Artifact!Version
  <2>5. TreeOK'
    <3>1. Alike(tree', packages') <=> Alike(tree', packages)
        BY <1>1
    <3> QED
        BY <1>1, <2>1, <2>2, <2>3, BundlingFacts DEF TreeOK, ArtifactInv, Merges, Artifact!Agree, Artifact!Ranges, Alike
  <2> QED
      BY <1>1, <2>1, <2>4, <2>5, BundlingFacts DEF ArtifactInv
<1> QED
    BY <1>2, <1>3 DEF Artifact!InstallModules

LEMMA WriteManifestInv == ArtifactInv /\ Artifact!WriteManifest => ArtifactInv'
<1> SUFFICES ASSUME ArtifactInv, Artifact!WriteManifest PROVE ArtifactInv'
    OBVIOUS
<1>1. /\ UNCHANGED <<packages, client, install>> /\ build.pc = "manifest"
      /\ tree' = [tree EXCEPT !.manifest = build.commands]
      /\ archive' = [archive EXCEPT ![build.opt.version] = Artifact!Holds("partial")]
      /\ Artifact!BuildEnds("tar")
    BY DEF Artifact!WriteManifest, Artifact!Required
<1>2. Bundling /\ build'.pc = "tar"
    BY <1>1 DEF Bundling, Artifact!BuildEnds, ArtifactInv, ArtifactShape, BuildFields
<1>3. /\ tree' = [x \in TreeFields |-> tree'[x]] /\ tree'.packages = tree.packages /\ tree'.root = tree.root
      /\ tree'.modules = tree.modules /\ tree'.manifest = build.commands
    BY <1>1 DEF ArtifactInv, ArtifactShape, TreeFields
<1>4. /\ DOMAIN archive' = DOMAIN archive
      /\ \A v \in DOMAIN archive : archive'[v] = archive[v] \/ archive'[v].state = "partial"
    BY <1>1 DEF Artifact!Holds
<1>5. ArtifactShape'
    BY <1>1, <1>2, <1>3, <1>4, BundlingFacts DEF ArtifactInv, ArtifactShape, Artifact!Version
<1>6. Artifact!BuiltIsClosed'
    BY <1>4 DEF ArtifactInv, ArtifactShape, Artifact!BuiltIsClosed, Artifact!Whole, Artifact!Version
<1>7. TreeOK'
    BY <1>1, <1>2, <1>3, BundlingFacts DEF TreeOK, ArtifactInv, Merges, Artifact!Agree, Artifact!Ranges, Alike
<1> QED
    BY <1>1, <1>2, <1>5, <1>6, <1>7, BundlingFacts DEF ArtifactInv

LEMMA PackArchiveInv == ArtifactInv /\ Artifact!PackArchive => ArtifactInv'
<1> SUFFICES ASSUME ArtifactInv, Artifact!PackArchive PROVE ArtifactInv'
    OBVIOUS
<1>1. UNCHANGED <<packages, tree, client, install>> /\ build.pc = "tar"
    BY DEF Artifact!PackArchive
<1>2. CASE Artifact!BuildEnds("failed") /\ UNCHANGED archive
    BY <1>1, <1>2, BuildFailsInv
<1>3. CASE /\ archive' = [archive EXCEPT ![build.opt.version] = [state |-> "whole", tree |-> tree]]
           /\ Artifact!BuildEnds("done")
  <2>1. Bundling /\ build'.pc = "done"
      BY <1>1, <1>3 DEF Bundling, Artifact!BuildEnds, ArtifactInv, ArtifactShape, BuildFields
  <2>2. /\ DOMAIN archive' = DOMAIN archive
        /\ \A v \in DOMAIN archive : archive'[v] = archive[v] \/ archive'[v].tree = tree
      BY <1>3
  <2>3. /\ tree.root # <<>> => /\ \A c \in tree.manifest : c.dir \in tree.modules
                               /\ Artifact!Serves(tree.packages, tree.modules)
        /\ Merges(tree)
    <3>1. /\ Merges(tree) /\ (tree.root # <<>> => tree.modules = build.dirs)
          /\ tree.manifest = build.commands /\ Alike(packages, tree.packages)
          /\ build.dirs \subseteq DOMAIN packages /\ Artifact!Serves(packages, build.dirs)
          /\ \A c \in build.commands : c.dir \in build.dirs
        BY <1>1 DEF ArtifactInv, BundleOK, TreeOK, Alike
    <3>2. Artifact!Serves(tree.packages, build.dirs)
        BY <3>1, AlikeServe
    <3> QED
        BY <3>1, <3>2
  <2>4. Artifact!BuiltIsClosed'
      BY <2>2, <2>3 DEF ArtifactInv, ArtifactShape, Artifact!BuiltIsClosed, Artifact!Whole, Artifact!Version,
         Artifact!IsClosed, Merges
  <2>5. ArtifactShape'
      BY <1>1, <2>1, <2>2, BundlingFacts DEF ArtifactInv, ArtifactShape, Artifact!Version
  <2>6. TreeOK'
      BY <2>1 DEF TreeOK
  <2> QED
      BY <1>1, <2>1, <2>4, <2>5, <2>6, BundlingFacts DEF ArtifactInv
<1> QED
    BY <1>2, <1>3 DEF Artifact!PackArchive

LEMMA EditInv == ArtifactInv /\ Artifact!Edit => ArtifactInv'
<1> SUFFICES ASSUME ArtifactInv, Artifact!Edit PROVE ArtifactInv'
    OBVIOUS
<1>1. UNCHANGED <<tree, archive, build, client, install>>
    BY DEF Artifact!Edit
<1>2. PICK d, files : d \in DOMAIN packages /\ packages' = [packages EXCEPT ![d].files = files]
    BY DEF Artifact!Edit, Artifact!Dirs
<1>3. /\ DOMAIN packages' = DOMAIN packages
      /\ \A e \in DOMAIN packages : /\ DOMAIN packages'[e] = DOMAIN packages[e]
                                    /\ packages'[e].name = packages[e].name /\ packages'[e].deps = packages[e].deps
    BY <1>2 DEF ArtifactInv, ArtifactShape, Artifact!PackageFields
<1>4. Alike(packages, packages')
    BY <1>3 DEF Alike
<1>5. ArtifactShape'
    BY <1>1, <1>3 DEF ArtifactInv, ArtifactShape, Artifact!Version
<1>6. BundleOK'
    BY <1>1, <1>3 DEF ArtifactInv, BundleOK, Artifact!Serves
<1>7. TreeOK'
    BY <1>1, <1>3 DEF ArtifactInv, TreeOK, Alike
<1> QED
    BY <1>1, <1>5, <1>6, <1>7 DEF ArtifactInv, ClientsOK, Artifact!BuiltIsClosed, Artifact!Whole, Artifact!Version,
       Artifact!InstalledIsComplete

\* A step of a client leaves the builds alone, and installs what it verified.
LEMMA ClientStepInv ==
    ASSUME ArtifactInv, NEW c \in Client, UNCHANGED <<packages, tree, archive, build>>,
           client' = [client EXCEPT ![c] = client'[c]],
           client'[c] = [x \in ClientFields |-> client'[c][x]],
           client'[c].pc \in {"remove", "removed", "rename"} => Complete(client'[c].temp),
           Artifact!InstalledIsComplete'
    PROVE  ArtifactInv'
<1>1. client' = [d \in Client |-> client'[d]] /\ \A d \in Client \ {c} : client'[d] = client[d]
    BY DEF ArtifactInv, ArtifactShape
<1>2. ArtifactShape'
    BY <1>1 DEF ArtifactInv, ArtifactShape, Artifact!Version
<1>3. ClientsOK'
    BY <1>1 DEF ArtifactInv, ClientsOK
<1> QED
    BY <1>2, <1>3 DEF ArtifactInv, BundleOK, TreeOK, Artifact!BuiltIsClosed, Artifact!Whole, Artifact!Version

\* Step changes where a client is.
LEMMA StepFacts ==
    ASSUME ArtifactInv, NEW c \in Client, NEW pc, Artifact!Step(c, pc)
    PROVE  /\ client' = [client EXCEPT ![c] = client'[c]] /\ client'[c] = [x \in ClientFields |-> client'[c][x]]
           /\ client'[c].pc = pc /\ client'[c].temp = client[c].temp
<1>1. PICK r : r = [client[c] EXCEPT !.pc = pc]
    OBVIOUS
<1>2. client' = [client EXCEPT ![c] = r]
    BY <1>1 DEF Artifact!Step
<1>3. client[c] = [x \in ClientFields |-> client[c][x]] /\ client = [d \in Client |-> client[d]]
    BY DEF ArtifactInv, ArtifactShape
<1>4. r = [x \in ClientFields |-> r[x]] /\ r.pc = pc /\ r.temp = client[c].temp
    BY <1>1, <1>3 DEF ClientFields
<1>5. client'[c] = r
    BY <1>2, <1>3
<1> QED
    BY <1>2, <1>4, <1>5

LEMMA ClientInv ==
    ASSUME ArtifactInv, NEW c \in Client,
           \/ Artifact!StartClient(c) \/ Artifact!ListArchive(c) \/ Artifact!Extract(c) \/ Artifact!Check(c)
           \/ Artifact!RemoveOld(c) \/ Artifact!Removed(c) \/ Artifact!Rename(c) \/ Artifact!ClientKilled(c)
    PROVE  ArtifactInv'
<1> DEFINE Installing == {"remove", "removed", "rename"}
<1>1. /\ client[c] = [x \in ClientFields |-> client[c][x]] /\ client = [d \in Client |-> client[d]]
      /\ client[c].pc \in Installing => Complete(client[c].temp)
      /\ Artifact!InstalledIsComplete
    BY DEF ArtifactInv, ArtifactShape, ClientsOK
<1>2. ASSUME install' = install PROVE Artifact!InstalledIsComplete'
    BY <1>1, <1>2 DEF Artifact!InstalledIsComplete
<1>3. CASE Artifact!StartClient(c)
  <2>1. UNCHANGED <<packages, tree, archive, build, install>>
      BY <1>3 DEF Artifact!StartClient
  <2>2. PICK r : /\ r = [x \in ClientFields |-> r[x]] /\ r.pc \in {"failed", "list"}
                 /\ client' = [client EXCEPT ![c] = r]
    <3> DEFINE At(op, v, force) ==
                 IF archive[v].state = "absent" \/ (op = "install" /\ install.state # "absent" /\ ~force)
                 THEN "failed" ELSE "list"
    <3>0. PICK op \in {"verify", "install"}, v \in Artifact!Version, skip \in BOOLEAN, force \in BOOLEAN :
             client' = [client EXCEPT ![c] = [pc |-> At(op, v, force), op |-> op, version |-> v, skip |-> skip,
                                              force |-> force, temp |-> Artifact!NoTree]]
        BY <1>3 DEF Artifact!StartClient
    <3>1. PICK pc : pc \in {"failed", "list"} /\ pc = At(op, v, force)
        OBVIOUS
    <3> HIDE DEF At
    <3>2. PICK r : r = [pc |-> pc, op |-> op, version |-> v, skip |-> skip, force |-> force,
                        temp |-> Artifact!NoTree]
        OBVIOUS
    <3>3. r = [x \in ClientFields |-> r[x]] /\ r.pc = pc
        BY <3>2 DEF ClientFields
    <3>4. client' = [client EXCEPT ![c] = r]
        BY <3>0, <3>1, <3>2
    <3> QED
        BY <3>1, <3>3, <3>4
  <2>3. client'[c] = r
      BY <1>1, <2>2
  <2>4. client' = [client EXCEPT ![c] = client'[c]] /\ client'[c] = [x \in ClientFields |-> client'[c][x]]
        /\ client'[c].pc \notin Installing
      BY <2>2, <2>3
  <2> QED
      BY <1>2, <2>1, <2>4, ClientStepInv
<1>4. CASE Artifact!ListArchive(c)
  <2>1. UNCHANGED <<packages, tree, archive, build, install>>
      BY <1>4 DEF Artifact!ListArchive
  <2>2. PICK pc \in {"extract", "failed"} : Artifact!Step(c, pc)
      BY <1>4 DEF Artifact!ListArchive
  <2>3. client'[c].pc \notin Installing
      BY <2>2, StepFacts
  <2> QED
      BY <1>2, <2>1, <2>2, <2>3, StepFacts, ClientStepInv
<1>5. CASE Artifact!Extract(c)
  <2>1. UNCHANGED <<packages, tree, archive, build, install>>
      BY <1>5 DEF Artifact!Extract
  <2> DEFINE whole == Artifact!Whole(client[c].version)
  <2>a. PICK pc : pc \in {"check", "failed"} /\ pc = IF whole THEN "check" ELSE "failed"
      OBVIOUS
  <2>b. PICK t : t = IF whole THEN archive[client[c].version].tree ELSE Artifact!NoTree
      OBVIOUS
  <2>2. client' = [client EXCEPT ![c].pc = pc, ![c].temp = t]
      BY <1>5, <2>a, <2>b DEF Artifact!Extract
  <2>3. PICK q : q = [client[c] EXCEPT !.pc = pc]
      OBVIOUS
  <2>4. q = [x \in ClientFields |-> q[x]] /\ q.pc = pc
      BY <1>1, <2>3 DEF ClientFields
  <2>5. PICK r : r = [q EXCEPT !.temp = t]
      OBVIOUS
  <2>6. r = [x \in ClientFields |-> r[x]] /\ r.pc = pc
      BY <2>4, <2>5 DEF ClientFields
  <2>7. client' = [client EXCEPT ![c] = r]
      BY <1>1, <2>2, <2>3, <2>5
  <2>8. client'[c] = r
      BY <1>1, <2>7
  <2>9. client' = [client EXCEPT ![c] = client'[c]] /\ client'[c] = [x \in ClientFields |-> client'[c][x]]
        /\ client'[c].pc \notin Installing
      BY <2>a, <2>6, <2>7, <2>8
  <2> QED
      BY <1>2, <2>1, <2>9, ClientStepInv
<1>6. CASE Artifact!Check(c)
  <2>1. UNCHANGED <<packages, tree, archive, build, install>>
      BY <1>6 DEF Artifact!Check
  <2>2. CASE Artifact!Step(c, "failed")
    <3>1. client'[c].pc \notin Installing
      <4>1. PICK pc \in {"failed"} : Artifact!Step(c, pc)
          BY <2>2
      <4> QED
          BY <4>1, StepFacts
    <3> QED
        BY <1>2, <2>1, <2>2, <3>1, StepFacts, ClientStepInv
  <2>3. CASE /\ Artifact!Verified(client[c].temp, client[c].version, client[c].skip)
             /\ \E pc : Artifact!Step(c, pc)
    <3>1. PICK pc : Artifact!Step(c, pc)
        BY <2>3
    <3>2. Complete(client[c].temp)
        BY <2>3 DEF Artifact!Verified, Artifact!ManifestAccepted, Complete
    <3>3. Complete(client'[c].temp)
        BY <3>1, <3>2, StepFacts
    <3> QED
        BY <1>2, <2>1, <3>1, <3>3, StepFacts, ClientStepInv
  <2> QED
      BY <1>6, <2>2, <2>3 DEF Artifact!Check
<1>7. CASE Artifact!RemoveOld(c)
  <2>1. UNCHANGED <<packages, tree, archive, build>> /\ install'.state = "broken" /\ Artifact!Step(c, "removed")
        /\ Complete(client[c].temp)
      BY <1>1, <1>7 DEF Artifact!RemoveOld, Artifact!Holds
  <2>2. Artifact!InstalledIsComplete' /\ Complete(client'[c].temp)
      BY <2>1, StepFacts DEF Artifact!InstalledIsComplete
  <2> QED
      BY <2>1, <2>2, StepFacts, ClientStepInv
<1>8. CASE Artifact!Removed(c)
  <2>1. /\ UNCHANGED <<packages, tree, archive, build>> /\ Artifact!Step(c, "rename")
        /\ install' = install \/ install'.state \in {"broken", "absent"}
        /\ Complete(client[c].temp)
      BY <1>1, <1>8 DEF Artifact!Removed, Artifact!Holds
  <2>2. Artifact!InstalledIsComplete' /\ Complete(client'[c].temp)
      BY <1>2, <2>1, StepFacts DEF Artifact!InstalledIsComplete
  <2> QED
      BY <2>1, <2>2, StepFacts, ClientStepInv
<1>9. CASE Artifact!Rename(c)
  <2>1. UNCHANGED <<packages, tree, archive, build>> /\ Complete(client[c].temp)
      BY <1>1, <1>9 DEF Artifact!Rename
  <2>2. CASE install' = [state |-> "whole", tree |-> client[c].temp] /\ Artifact!Step(c, "ok")
    <3>1. Artifact!InstalledIsComplete'
        BY <2>1, <2>2 DEF Artifact!InstalledIsComplete, Complete
    <3> QED
        BY <2>1, <2>2, <3>1, StepFacts, ClientStepInv
  <2>3. CASE Artifact!Step(c, "failed") /\ UNCHANGED install
      BY <1>2, <2>1, <2>3, StepFacts, ClientStepInv
  <2> QED
      BY <1>9, <2>2, <2>3 DEF Artifact!Rename
<1>10. CASE Artifact!ClientKilled(c)
  <2>1. UNCHANGED <<packages, tree, archive, build, install>> /\ Artifact!Step(c, "failed")
      BY <1>10 DEF Artifact!ClientKilled
  <2>2. client'[c].pc \notin Installing
    <3>1. PICK pc \in {"failed"} : Artifact!Step(c, pc)
        BY <2>1
    <3> QED
        BY <3>1, StepFacts
  <2> QED
      BY <1>2, <2>1, <2>2, StepFacts, ClientStepInv
<1> QED
    BY <1>3, <1>4, <1>5, <1>6, <1>7, <1>8, <1>9, <1>10

LEMMA ArtifactNextInv == ArtifactInv /\ [Artifact!Next]_artifactVars => ArtifactInv'
<1> SUFFICES ASSUME ArtifactInv, [Artifact!Next]_artifactVars PROVE ArtifactInv'
    OBVIOUS
<1>1. CASE Artifact!StartBuild \/ Artifact!CopyPackages \/ Artifact!InstallModules
    BY <1>1, StartBuildInv, CopyPackagesInv, InstallModulesInv
<1>2. CASE Artifact!WriteManifest \/ Artifact!PackArchive \/ Artifact!Edit
    BY <1>2, WriteManifestInv, PackArchiveInv, EditInv
<1>3. CASE Artifact!BuildKilled
  <2>1. UNCHANGED <<packages, client, install, tree, archive>> /\ Artifact!BuildEnds("failed")
      BY <1>3 DEF Artifact!BuildKilled
  <2> QED
      BY <2>1, BuildFailsInv
<1>4. CASE \E c \in Client :
              \/ Artifact!StartClient(c) \/ Artifact!ListArchive(c) \/ Artifact!Extract(c) \/ Artifact!Check(c)
              \/ Artifact!RemoveOld(c) \/ Artifact!Removed(c) \/ Artifact!Rename(c) \/ Artifact!ClientKilled(c)
    BY <1>4, ClientInv
<1>5. CASE UNCHANGED artifactVars
    BY <1>5 DEF artifactVars, ArtifactInv, ArtifactShape, BundleOK, TreeOK, ClientsOK, Artifact!Version,
       Artifact!BuiltIsClosed, Artifact!Whole, Artifact!InstalledIsComplete
<1> QED
    BY <1>1, <1>2, <1>3, <1>4, <1>5 DEF Artifact!Next

LEMMA OfArtifact ==
    ASSUME part = "artifact" => ArtifactInv, [DeliverNext]_allVars
    PROVE  part' = "artifact" => ArtifactInv'
<1>1. CASE part = "artifact" /\ Artifact!Next /\ UNCHANGED part
    BY <1>1, ArtifactNextInv
<1>2. CASE part # "artifact" /\ UNCHANGED part
    BY <1>2
<1>3. CASE UNCHANGED allVars
    BY <1>3, ArtifactNextInv DEF allVars
<1> QED
    BY <1>1, <1>2, <1>3 DEF DeliverNext

\* Whatever the packages need, are named and ask for, and whatever is killed, edited, rebuilt or
\* installed at once: what is packed has the dependencies of its commands, and what an installation
\* leaves has their entries (ArtifactStands, index.ts buildReleaseArtifact, installReleaseArtifact).
THEOREM ArtifactAlwaysStands == DeliverSpec => []ArtifactStands
<1>1. DeliverInit => (part = "artifact" => ArtifactInv)
    BY ArtifactInitInv DEF DeliverInit
<1>2. (part = "artifact" => ArtifactInv) /\ [DeliverNext]_allVars => (part = "artifact" => ArtifactInv)'
    BY OfArtifact
<1>3. (part = "artifact" => ArtifactInv) => ArtifactStands
    BY DEF ArtifactStands, Artifact!ArtifactStands, ArtifactInv
<1> QED
    BY <1>1, <1>2, <1>3, PTL DEF DeliverSpec

------------------------------------------------------------------------------
\* The order of a release

\* No package of a list needs one that is not before it.
InOrder(s) == \A i, j \in DOMAIN s : i <= j => s[j].name \notin Package!Dependencies(s[i])

\* The states of the visits: no package is visited or ordered twice, and what a package needs is
\* ordered before it.
Distinct(s) == \A i, j \in DOMAIN s : s[i] = s[j] => i = j
VisitFields == {"visiting", "ordered", "cyclic"}
Ahead(o) == \A i \in DOMAIN o : \A b \in Package!Needs(o[i]) : \E k \in 1..(i - 1) : o[k] = b
ListsOK(vis, o) ==
    /\ vis \in Seq(DOMAIN workspace) /\ Distinct(vis)
    /\ o \in Seq(DOMAIN workspace) /\ Distinct(o) /\ Ahead(o)
    /\ \A i \in DOMAIN vis, j \in DOMAIN o : vis[i] # o[j]
VisitOK(w) == w = [x \in VisitFields |-> w[x]] /\ ListsOK(w.visiting, w.ordered)

LEMMA AppendDistinct ==
    ASSUME NEW S, NEW s \in Seq(S), Distinct(s), NEW x \in S, \A i \in DOMAIN s : s[i] # x
    PROVE  /\ Append(s, x) \in Seq(S) /\ Distinct(Append(s, x))
           /\ DOMAIN Append(s, x) = 1..(Len(s) + 1) /\ DOMAIN s = 1..Len(s) /\ Len(s) \in Nat
           /\ \A i \in 1..Len(s) : Append(s, x)[i] = s[i]
           /\ Append(s, x)[Len(s) + 1] = x
<1>1. /\ Append(s, x) \in Seq(S) /\ DOMAIN Append(s, x) = 1..(Len(s) + 1) /\ DOMAIN s = 1..Len(s)
      /\ Len(s) \in Nat
      /\ \A i \in 1..Len(s) : Append(s, x)[i] = s[i]
      /\ Append(s, x)[Len(s) + 1] = x
    OBVIOUS
<1>2. ASSUME NEW i \in 1..(Len(s) + 1), NEW j \in 1..(Len(s) + 1), Append(s, x)[i] = Append(s, x)[j]
      PROVE  i = j
  <2>1. \A k \in 1..(Len(s) + 1) : k \in 1..Len(s) \/ k = Len(s) + 1
      BY <1>1
  <2> QED
      BY <1>1, <1>2, <2>1 DEF Distinct
<1> QED
    BY <1>1, <1>2 DEF Distinct

\* visit goes on to a package that is neither visited nor ordered.
LEMMA VisitGoesOn ==
    ASSUME NEW vis, NEW o, ListsOK(vis, o), NEW f \in DOMAIN workspace,
           \A i \in DOMAIN vis : vis[i] # f, \A i \in DOMAIN o : o[i] # f
    PROVE  ListsOK(Append(vis, f), o)
<1>1. vis \in Seq(DOMAIN workspace) /\ Distinct(vis) /\ \A i \in DOMAIN vis, j \in DOMAIN o : vis[i] # o[j]
    BY DEF ListsOK
<1> DEFINE s == Append(vis, f)
<1>2. /\ s \in Seq(DOMAIN workspace) /\ Distinct(s)
      /\ DOMAIN s = 1..(Len(vis) + 1) /\ DOMAIN vis = 1..Len(vis) /\ Len(vis) \in Nat
      /\ \A i \in 1..Len(vis) : s[i] = vis[i]
      /\ s[Len(vis) + 1] = f
    BY <1>1, AppendDistinct
<1> HIDE DEF s
<1>3. ASSUME NEW i \in DOMAIN s, NEW j \in DOMAIN o PROVE s[i] # o[j]
  <2>1. i \in 1..Len(vis) \/ i = Len(vis) + 1
      BY <1>2
  <2> QED
      BY <1>1, <1>2, <2>1
<1>4. ListsOK(s, o)
    BY <1>2, <1>3 DEF ListsOK
<1> QED
    BY <1>4 DEF s

LEMMA OneLess == ASSUME NEW n \in Nat PROVE \A i \in 1..(n - 1) : i # n
OBVIOUS

\* visit returns when all that the package needs is ordered.
LEMMA VisitReturns ==
    ASSUME NEW vis, NEW o, ListsOK(vis, o), vis # <<>>,
           \A b \in Package!Needs(vis[Len(vis)]) : \E k \in DOMAIN o : o[k] = b
    PROVE  ListsOK(SubSeq(vis, 1, Len(vis) - 1), Append(o, vis[Len(vis)]))
<1> DEFINE l == Len(vis)
           top == vis[l]
           s == SubSeq(vis, 1, l - 1)
           a == Append(o, top)
<1>1. /\ vis \in Seq(DOMAIN workspace) /\ Distinct(vis) /\ Ahead(o)
      /\ o \in Seq(DOMAIN workspace) /\ Distinct(o) /\ \A i \in DOMAIN vis, j \in DOMAIN o : vis[i] # o[j]
    BY DEF ListsOK
<1>2. l \in Nat \ {0} /\ DOMAIN vis = 1..l /\ l \in 1..l
    BY <1>1
<1>3. /\ s \in Seq(DOMAIN workspace) /\ DOMAIN s = 1..(l - 1)
      /\ \A i \in 1..(l - 1) : s[i] = vis[i] /\ i \in 1..l
    BY <1>1, <1>2
<1>4. top \in DOMAIN workspace /\ \A j \in DOMAIN o : o[j] # top
    BY <1>1, <1>2
<1>5. Distinct(s) /\ \A i \in DOMAIN s : s[i] # top /\ i \in DOMAIN vis
  <2>1. \A i \in 1..(l - 1) : i # l
      BY <1>2, OneLess
  <2> QED
      BY <1>1, <1>2, <1>3, <2>1 DEF Distinct
<1>6. \A b \in Package!Needs(top) : \E k \in DOMAIN o : o[k] = b
    OBVIOUS
<1> HIDE DEF s, top
<1>7. /\ a \in Seq(DOMAIN workspace) /\ Distinct(a)
      /\ DOMAIN a = 1..(Len(o) + 1) /\ DOMAIN o = 1..Len(o) /\ Len(o) \in Nat
      /\ \A i \in 1..Len(o) : a[i] = o[i]
      /\ a[Len(o) + 1] = top
    BY <1>1, <1>4, AppendDistinct
<1> HIDE DEF a
<1>8. ASSUME NEW i \in DOMAIN a PROVE i \in DOMAIN o \/ i = Len(o) + 1
    BY <1>7
<1>9. ASSUME NEW i \in DOMAIN s, NEW j \in DOMAIN a PROVE s[i] # a[j]
    BY <1>1, <1>3, <1>5, <1>7, <1>8
<1>10. ASSUME NEW i \in DOMAIN a, NEW b \in Package!Needs(a[i]) PROVE \E k \in 1..(i - 1) : a[k] = b
  <2>1. CASE i \in DOMAIN o
    <3>1. a[i] = o[i] /\ i \in 1..Len(o)
        BY <1>7, <2>1
    <3>2. PICK k \in 1..(i - 1) : o[k] = b
        BY <1>1, <1>10, <2>1, <3>1 DEF Ahead
    <3>3. k \in 1..Len(o)
        BY <1>7, <3>1
    <3> QED
        BY <1>7, <3>2, <3>3
  <2>2. CASE i = Len(o) + 1
    <3>1. a[i] = top
        BY <1>7, <2>2
    <3>2. PICK k \in DOMAIN o : o[k] = b
        BY <1>6, <1>10, <3>1
    <3>3. k \in 1..(i - 1)
        BY <1>7, <2>2
    <3> QED
        BY <1>7, <3>2, <3>3
  <2> QED
      BY <1>8, <2>1, <2>2
<1>11. ListsOK(s, a)
    BY <1>3, <1>5, <1>7, <1>9, <1>10 DEF ListsOK, Ahead
<1> QED
    BY <1>11 DEF s, a, top

LEMMA VisitKeeps ==
    ASSUME NEW w, VisitOK(w), NEW n \in Nat, DOMAIN workspace = 1..n
    PROVE  VisitOK(Package!Visit(w))
<1> SUFFICES ASSUME NEW v, v = Package!Visit(w) PROVE VisitOK(v)
    OBVIOUS
<1>1. PICK vis, o : vis = w.visiting /\ o = w.ordered
    OBVIOUS
<1>2. w = [x \in VisitFields |-> w[x]] /\ ListsOK(vis, o)
    BY <1>1 DEF VisitOK
<1> DEFINE top == vis[Len(vis)]
           rest == (IF vis = <<>> THEN DOMAIN workspace ELSE Package!Needs(top)) \ Package!Range(o)
           f == Package!First(rest)
<1>3. v = IF rest # {}
          THEN IF f \in Package!Range(vis) THEN [w EXCEPT !.cyclic = TRUE]
               ELSE [w EXCEPT !.visiting = Append(vis, f)]
          ELSE IF vis = <<>> THEN w
          ELSE [w EXCEPT !.visiting = SubSeq(vis, 1, Len(vis) - 1), !.ordered = Append(o, top)]
    BY <1>1 DEF Package!Visit
<1>4. CASE rest # {} /\ f \in Package!Range(vis)
  <2>1. v = [w EXCEPT !.cyclic = TRUE]
      BY <1>3, <1>4
  <2>2. v = [x \in VisitFields |-> v[x]] /\ v.visiting = vis /\ v.ordered = o
      BY <1>1, <1>2, <2>1 DEF VisitFields
  <2> QED
      BY <1>2, <2>2 DEF VisitOK
<1>5. CASE rest # {} /\ f \notin Package!Range(vis)
  <2>1. f \in rest
    <3>1. rest \subseteq Nat
        BY DEF Package!Needs
    <3> HIDE DEF rest
    <3>2. \E k \in rest : \A m \in rest : k <= m
        BY <1>5, <3>1, HasLeast
    <3> QED
        BY <3>2 DEF Package!First
  <2>2. f \in DOMAIN workspace /\ (\A j \in DOMAIN o : o[j] # f) /\ \A j \in DOMAIN vis : vis[j] # f
      BY <1>5, <2>1 DEF Package!Needs, Package!Range
  <2>3. v = [w EXCEPT !.visiting = Append(vis, f)]
      BY <1>3, <1>5
  <2> HIDE DEF f
  <2>4. PICK s : s = Append(vis, f)
      OBVIOUS
  <2>5. ListsOK(s, o)
      BY <1>2, <2>2, <2>4, VisitGoesOn
  <2>6. v = [x \in VisitFields |-> v[x]] /\ v.visiting = s /\ v.ordered = o
      BY <1>1, <1>2, <2>3, <2>4 DEF VisitFields
  <2> QED
      BY <2>5, <2>6 DEF VisitOK
<1>6. CASE rest = {} /\ vis = <<>>
    BY <1>3, <1>6
<1>7. CASE rest = {} /\ vis # <<>>
  <2>1. v = [w EXCEPT !.visiting = SubSeq(vis, 1, Len(vis) - 1), !.ordered = Append(o, top)]
      BY <1>3, <1>7
  <2>2. PICK s, a : s = SubSeq(vis, 1, Len(vis) - 1) /\ a = Append(o, top)
      OBVIOUS
  <2>3. \A b \in Package!Needs(top) : \E k \in DOMAIN o : o[k] = b
      BY <1>7 DEF Package!Range
  <2>4. ListsOK(s, a)
      BY <1>2, <1>7, <2>2, <2>3, VisitReturns
  <2>5. v = [w EXCEPT !.visiting = s, !.ordered = a]
      BY <2>1, <2>2
  <2>6. v = [x \in VisitFields |-> v[x]] /\ v.visiting = s /\ v.ordered = a
      BY <1>2, <2>5 DEF VisitFields
  <2> QED
      BY <2>4, <2>6 DEF VisitOK
<1> QED
    BY <1>4, <1>5, <1>6, <1>7

\* The visits, as far as the m-th.
VisitsTo(f, m) ==
    f = [k \in 0..m |-> IF k = 0 THEN Package!Unvisited ELSE Package!Visit(f[k - 1])]

LEMMA VisitsExist ==
    ASSUME NEW l \in Nat
    PROVE  \E f : VisitsTo(f, l)
<1> DEFINE K == {m \in Nat : ~ \E f : VisitsTo(f, m)}
<1>1. SUFFICES ASSUME K # {} PROVE FALSE
    OBVIOUS
<1>2. PICK m \in K : \A k \in K : m <= k
  <2>1. K \subseteq Nat
      OBVIOUS
  <2> HIDE DEF K
  <2> QED
      BY <1>1, <2>1, HasLeast
<1>3. m \in Nat
    OBVIOUS
<1>4. m # 0
  <2>1. VisitsTo([k \in {0} |-> Package!Unvisited], 0)
    <3>1. 0..0 = {0}
        OBVIOUS
    <3> QED
        BY <3>1 DEF VisitsTo
  <2> QED
      BY <2>1
<1>5. m - 1 \in Nat /\ m - 1 \notin K
  <2>1. m - 1 \in Nat /\ ~(m <= m - 1)
      BY <1>3, <1>4
  <2> HIDE DEF K
  <2> QED
      BY <1>2, <2>1
<1>6. PICK f : VisitsTo(f, m - 1)
    BY <1>5
<1> DEFINE g == [k \in 0..m |-> IF k = m THEN Package!Visit(f[m - 1]) ELSE f[k]]
<1>7. \A k \in 0..(m - 1) : g[k] = f[k] /\ f[k] = IF k = 0 THEN Package!Unvisited ELSE Package!Visit(f[k - 1])
    BY <1>3, <1>4, <1>6 DEF VisitsTo
<1>8. ASSUME NEW k \in 0..m
      PROVE  g[k] = IF k = 0 THEN Package!Unvisited ELSE Package!Visit(g[k - 1])
  <2>1. CASE k = m
    <3>1. m - 1 \in 0..(m - 1) /\ m \in 0..m
        BY <1>3, <1>4
    <3> QED
        BY <1>4, <1>7, <2>1, <3>1
  <2>2. CASE k # m
    <3>1. k \in 0..(m - 1) /\ (k # 0 => k - 1 \in 0..(m - 1))
        BY <1>3, <2>2
    <3> QED
        BY <1>7, <3>1
  <2> QED
      BY <2>1, <2>2
<1>9. VisitsTo(g, m)
  <2>1. g = [k \in 0..m |-> g[k]]
      OBVIOUS
  <2> HIDE DEF g
  <2> QED
      BY <1>8, <2>1 DEF VisitsTo
<1> QED
    BY <1>2, <1>9

LEMMA VisitedOK ==
    ASSUME NEW n \in Nat, DOMAIN workspace = 1..n, Len(workspace) = n
    PROVE  VisitOK(Package!Visited)
<1> DEFINE m == 2 * Len(workspace)
           f == Package!Visits
<1>1. m \in Nat
    OBVIOUS
<1>2. VisitsTo(f, m)
  <2>1. \E g : g = [k \in 0..m |-> IF k = 0 THEN Package!Unvisited ELSE Package!Visit(g[k - 1])]
      BY <1>1, VisitsExist DEF VisitsTo
  <2> QED
      BY <2>1 DEF VisitsTo, Package!Visits
<1> HIDE DEF f, m
<1> DEFINE K == {k \in 0..m : ~VisitOK(f[k])}
<1>3. K = {}
  <2>1. SUFFICES ASSUME K # {} PROVE FALSE
      OBVIOUS
  <2>2. PICK k \in K : \A j \in K : k <= j
    <3>1. K \subseteq Nat
        BY <1>1
    <3> HIDE DEF K
    <3> QED
        BY <2>1, <3>1, HasLeast
  <2>3. k \in 0..m /\ ~VisitOK(f[k])
      OBVIOUS
  <2>4. f[k] = IF k = 0 THEN Package!Unvisited ELSE Package!Visit(f[k - 1])
      BY <1>2, <2>3 DEF VisitsTo
  <2>5. k # 0
    <3>1. VisitOK(Package!Unvisited)
      <4>1. <<>> \in Seq(DOMAIN workspace) /\ DOMAIN <<>> = {}
          OBVIOUS
      <4> QED
          BY <4>1 DEF VisitOK, ListsOK, Ahead, VisitFields, Distinct, Package!Unvisited
    <3> QED
        BY <2>3, <2>4, <3>1
  <2>6. k - 1 \in 0..m /\ k - 1 \notin K
    <3>1. k - 1 \in 0..m /\ ~(k <= k - 1)
        BY <1>1, <2>3, <2>5
    <3> HIDE DEF K
    <3> QED
        BY <2>2, <3>1
  <2>7. VisitOK(f[k - 1])
      BY <2>6
  <2> HIDE DEF K
  <2> QED
      BY <2>3, <2>4, <2>5, <2>7, VisitKeeps
<1>4. m \in 0..m
    BY <1>1
<1> QED
    BY <1>3, <1>4 DEF Package!Visited, f, m

\* sortPackagesByInternalDependencies puts every package after those it needs.
LEMMA OrderedInOrder ==
    ASSUME NEW n \in Nat, DOMAIN workspace = 1..n, Len(workspace) = n
    PROVE  /\ IsList(Package!Ordered) /\ InOrder(Package!Ordered)
           /\ \A i \in DOMAIN Package!Ordered : \E p \in DOMAIN workspace : Package!Ordered[i] = workspace[p]
<1> DEFINE w == Package!Visited
           o == Package!Ordered
<1>1. VisitOK(w)
    BY VisitedOK
<1>2. o = [i \in DOMAIN w.ordered |-> workspace[w.ordered[i]]]
    BY DEF Package!Ordered
<1> HIDE DEF w, o
<1>3. w.ordered \in Seq(DOMAIN workspace) /\ Distinct(w.ordered) /\ Ahead(w.ordered)
    BY <1>1 DEF VisitOK, ListsOK
<1>4. /\ Len(w.ordered) \in Nat /\ DOMAIN w.ordered = 1..Len(w.ordered)
      /\ \A i \in DOMAIN w.ordered : w.ordered[i] \in DOMAIN workspace
    BY <1>3
<1>5. IsList(o)
  <2>1. o \in Seq(Range(o))
    <3>1. DOMAIN o = 1..Len(w.ordered) /\ \A i \in 1..Len(w.ordered) : o[i] \in Range(o)
        BY <1>2, <1>4 DEF Range
    <3>2. o = [i \in 1..Len(w.ordered) |-> o[i]]
        BY <1>2, <1>4
    <3> QED
        BY <1>4, <3>1, <3>2
  <2> QED
      BY <2>1 DEF IsList
<1>6. InOrder(o)
  <2> SUFFICES ASSUME NEW i \in DOMAIN w.ordered, NEW j \in DOMAIN w.ordered, i <= j,
                      o[j].name \in Package!Dependencies(o[i])
               PROVE  FALSE
      BY <1>2 DEF InOrder
  <2>1. w.ordered[j] \in Package!Needs(w.ordered[i])
      BY <1>2, <1>4 DEF Package!Needs
  <2>2. PICK k \in 1..(i - 1) : w.ordered[k] = w.ordered[j]
      BY <1>3, <2>1 DEF Ahead
  <2>3. k \in DOMAIN w.ordered /\ k # j
      BY <1>4
  <2> QED
      BY <1>3, <2>2, <2>3 DEF Distinct
<1> QED
    BY <1>2, <1>4, <1>5, <1>6 DEF o
------------------------------------------------------------------------------
\* The selection of a release

\* A list of packages of the workspace, each after those it needs.
InTurn(s) ==
    /\ s \in Seq(Package!Packages) /\ InOrder(s)

\* What the filters leave of the first packages of a list.
FromFirst(list, n, s) == \A i \in DOMAIN s : \E a \in 1..n : s[i] = list[a]

LEMMA AppendInTurn ==
    ASSUME NEW list, InTurn(list), NEW n \in DOMAIN list,
           NEW s, InTurn(s), FromFirst(list, n - 1, s)
    PROVE  InTurn(Append(s, list[n])) /\ FromFirst(list, n, Append(s, list[n]))
<1> DEFINE t == Append(s, list[n])
<1>1. /\ list \in Seq(Package!Packages) /\ s \in Seq(Package!Packages)
      /\ InOrder(list) /\ InOrder(s)
    BY DEF InTurn
<1>2. list[n] \in Package!Packages /\ DOMAIN list = 1..Len(list) /\ n \in Nat \ {0}
    BY <1>1
<1>3. /\ t \in Seq(Package!Packages) /\ DOMAIN t = 1..(Len(s) + 1) /\ DOMAIN s = 1..Len(s)
      /\ Len(s) \in Nat
      /\ \A i \in 1..Len(s) : t[i] = s[i]
      /\ t[Len(s) + 1] = list[n]
    BY <1>1, <1>2
<1> HIDE DEF t
<1>4. \A i \in DOMAIN t : i \in DOMAIN s \/ i = Len(s) + 1
    BY <1>3
<1>5. \A i \in 1..(n - 1) : i \in 1..n /\ i \in DOMAIN list /\ i <= n
    BY <1>2
<1>6. n \in 1..n
    BY <1>2
<1>7. FromFirst(list, n, t)
    BY <1>3, <1>4, <1>5, <1>6 DEF FromFirst
<1>8. ASSUME NEW i \in DOMAIN t, NEW j \in DOMAIN t, i <= j
      PROVE  t[j].name \notin Package!Dependencies(t[i])
  <2>1. CASE j \in DOMAIN s
    <3>1. i \in DOMAIN s
        BY <1>3, <1>8, <2>1
    <3> QED
        BY <1>1, <1>3, <1>8, <2>1, <3>1 DEF InOrder
  <2>2. CASE j = Len(s) + 1
    <3>1. t[j] = list[n]
        BY <1>3, <2>2
    <3>2. PICK a \in 1..n : t[i] = list[a]
        BY <1>7, <1>8 DEF FromFirst
    <3>3. a \in DOMAIN list /\ a <= n
        BY <1>2
    <3> QED
        BY <1>1, <3>1, <3>2, <3>3 DEF InOrder
  <2> QED
      BY <1>4, <2>1, <2>2
<1> QED
    BY <1>3, <1>7, <1>8 DEF InTurn, InOrder, t

LEMMA FilteredInTurn ==
    ASSUME NEW filters, InTurn(Package!Ordered)
    PROVE  InTurn(Package!Filtered(filters))
<1> DEFINE list == Package!Ordered
           kept(p) == filters = {} \/ p.name \in filters
           parts == [k \in 1..Len(list) |-> IF kept(list[k]) THEN <<list[k]>> ELSE <<>>]
<1>1. list \in Seq(Package!Packages) /\ InTurn(list)
    BY DEF InTurn
<1>2. Package!Filtered(filters) = FlattenSeq(parts)
    BY DEF Package!Filtered, Package!FlattenSeq, FlattenSeq
<1> HIDE DEF list
<1>3. PICK l \in Nat : l = Len(list) /\ DOMAIN list = 1..l
    BY <1>1
<1>4. Len(parts) = l
    BY <1>3
<1>5. CASE l = 0
  <2>1. FlattenSeq(parts) = parts
      BY <1>4, <1>5 DEF FlattenSeq
  <2>2. parts = <<>>
      BY <1>3, <1>5
  <2>3. InTurn(<<>>)
      BY DEF InTurn, InOrder
  <2> QED
      BY <1>2, <2>1, <2>2, <2>3
<1>6. CASE l # 0
  <2>1. PICK f : Joins(parts, f, l) /\ FlattenSeq(parts) = f[l]
      BY <1>4, <1>6, FlattenJoins
  <2> DEFINE P(n) == InTurn(f[n]) /\ FromFirst(list, n, f[n])
             K == {n \in 1..l : ~P(n)}
  <2>2. \A k \in 1..l : parts[k] = IF kept(list[k]) THEN <<list[k]>> ELSE <<>>
      BY <1>3
  <2>3. \A n \in 1..l : f[n] = IF n = 1 THEN parts[n] ELSE f[n - 1] \o parts[n]
      BY <2>1 DEF Joins
  <2> HIDE DEF parts
  \* one more package is kept or left out
  <2>4. ASSUME NEW n \in 1..l, NEW s, InTurn(s), FromFirst(list, n - 1, s), f[n] = s \o parts[n]
        PROVE  P(n)
    <3>1. s \in Seq(Package!Packages) /\ list[n] \in Package!Packages /\ n \in DOMAIN list
        BY <1>1, <1>3, <2>4 DEF InTurn
    <3>2. CASE kept(list[n])
      <4>1. f[n] = Append(s, list[n])
        <5>1. f[n] = s \o <<list[n]>>
            BY <2>2, <2>4, <3>2
        <5> QED
            BY <3>1, <5>1
      <4> QED
          BY <1>1, <2>4, <3>1, <4>1, AppendInTurn
    <3>3. CASE ~kept(list[n])
      <4>1. f[n] = s
        <5>1. f[n] = s \o <<>>
            BY <2>2, <2>4, <3>3
        <5> QED
            BY <3>1, <5>1
      <4>2. \A a \in 1..(n - 1) : a \in 1..n
          OBVIOUS
      <4>3. FromFirst(list, n, s)
          BY <2>4, <4>2 DEF FromFirst
      <4> QED
          BY <2>4, <4>1, <4>3
    <3> QED
        BY <3>2, <3>3
  <2>5. K = {}
    <3>1. SUFFICES ASSUME K # {} PROVE FALSE
        OBVIOUS
    <3>2. PICK n \in K : \A m \in K : n <= m
      <4>1. K \subseteq Nat
          OBVIOUS
      <4> HIDE DEF K
      <4> QED
          BY <3>1, <4>1, HasLeast
    <3>3. n \in 1..l /\ ~P(n)
        OBVIOUS
    <3>4. CASE n = 1
      <4>1. InTurn(<<>>) /\ FromFirst(list, n - 1, <<>>)
          BY DEF InTurn, InOrder, FromFirst
      <4>2. f[n] = <<>> \o parts[n]
        <5>1. f[n] = parts[n]
            BY <2>3, <3>3, <3>4
        <5>2. parts[n] \in Seq(Package!Packages)
          <6>1. list[n] \in Package!Packages
              BY <1>1, <1>3, <3>3
          <6>2. <<list[n]>> \in Seq(Package!Packages) /\ <<>> \in Seq(Package!Packages)
              BY <6>1
          <6> QED
              BY <2>2, <3>3, <6>2
        <5> QED
            BY <5>1, <5>2
      <4> HIDE DEF K, P
      <4> QED
          BY <2>4, <3>3, <4>1, <4>2
    <3>5. CASE n # 1
      <4>1. n - 1 \in 1..l /\ ~(n <= n - 1)
          BY <3>3, <3>5
      <4>2. n - 1 \notin K
        <5> HIDE DEF K
        <5> QED
            BY <3>2, <4>1
      <4>3. P(n - 1)
          BY <4>1, <4>2
      <4>4. f[n] = f[n - 1] \o parts[n]
          BY <2>3, <3>3, <3>5
      <4>5. InTurn(f[n - 1]) /\ FromFirst(list, n - 1, f[n - 1])
          BY <4>3
      <4> HIDE DEF K, P
      <4> QED
          BY <2>4, <3>3, <4>4, <4>5
    <3> QED
        BY <3>4, <3>5
  <2>6. l \in 1..l
      BY <1>6
  <2> QED
      BY <1>2, <2>1, <2>5, <2>6
<1> QED
    BY <1>5, <1>6

\* --from: a suffix.
LEMMA SuffixInTurn ==
    ASSUME NEW list, InTurn(list), NEW c \in DOMAIN list
    PROVE  InTurn(SubSeq(list, c, Len(list)))
<1> DEFINE l == Len(list)
           t == SubSeq(list, c, l)
<1>1. list \in Seq(Package!Packages) /\ InOrder(list)
    BY DEF InTurn
<1>2. l \in Nat /\ DOMAIN list = 1..l /\ c \in 1..l
    BY <1>1
<1>3. /\ t \in Seq(Package!Packages) /\ DOMAIN t = 1..(l - c + 1)
      /\ \A i \in 1..(l - c + 1) : t[i] = list[c + i - 1] /\ c + i - 1 \in 1..l
    BY <1>1, <1>2
<1> HIDE DEF t
<1>4. ASSUME NEW i \in DOMAIN t, NEW j \in DOMAIN t, i <= j
      PROVE  t[j].name \notin Package!Dependencies(t[i])
  <2>1. c + i - 1 <= c + j - 1
      BY <1>2, <1>3, <1>4
  <2> QED
      BY <1>1, <1>2, <1>3, <1>4, <2>1 DEF InOrder
<1> QED
    BY <1>3, <1>4 DEF InTurn, InOrder, t

LEMMA SelectionInTurn ==
    ASSUME NEW n \in Nat, DOMAIN workspace = 1..n, Len(workspace) = n,
           NEW filters, NEW name,
           \/ name = "none"
           \/ name \in {p.name : p \in Package!Range(Package!Filtered(filters))}
    PROVE  InTurn(Package!From(Package!Filtered(filters), name))
<1> DEFINE list == Package!Filtered(filters)
<1>1. InTurn(list)
  <2> DEFINE o == Package!Ordered
  <2>1. /\ IsList(o) /\ InOrder(o)
        /\ \A i \in DOMAIN o : \E p \in DOMAIN workspace : o[i] = workspace[p]
      BY OrderedInOrder
  <2> HIDE DEF o
  <2>2. \A i \in DOMAIN o : o[i] \in Package!Packages
      BY <2>1 DEF Package!Packages, Package!Range
  <2>3. o \in Seq(Package!Packages)
    <3>1. PICK m \in Nat : DOMAIN o = 1..m /\ o = [i \in 1..m |-> o[i]]
        BY <2>1 DEF IsList
    <3> QED
        BY <2>2, <3>1
  <2>4. InTurn(o)
      BY <2>1, <2>3 DEF InTurn
  <2> QED
      BY <2>4, FilteredInTurn DEF o
<1> HIDE DEF list
<1>2. CASE name = "none"
    BY <1>1, <1>2 DEF Package!From, list
<1>3. CASE name # "none"
  <2> DEFINE c == CHOOSE i \in DOMAIN list : list[i].name = name
  <2>1. \E i \in DOMAIN list : list[i].name = name
      BY <1>3 DEF Package!Range, list
  <2>2. c \in DOMAIN list
      BY <2>1
  <2>3. Package!From(list, name) = SubSeq(list, c, Len(list))
      BY <1>3 DEF Package!From
  <2> HIDE DEF c
  <2> QED
      BY <1>1, <2>2, <2>3, SuffixInTurn DEF list
<1> QED
    BY <1>2, <1>3

------------------------------------------------------------------------------
\* publish-packages: the invariant

ReleaseFields == {"pc", "id", "version", "queue", "done", "ready", "internal", "options", "loose"}

\* The names of a package, or of what its recipes make.
NamesOf(p) ==
    IF p.recipes = <<>> THEN {p.name} \cup Package!Range(p.additional)
    ELSE {r.name : r \in Package!Range(p.recipes)}

\* The registry has a name from the run r.
Delivered(r, name) ==
    \E e \in npm : /\ e.name = name /\ e.version = r.version /\ e.by = r.id
                   /\ r.options.skip \/ e.built = r.id

\* The packages that are left are packages of the workspace, each with its lists.
QueueOK(queue) ==
    /\ IsList(queue) /\ queue # <<>>
    /\ \A i \in DOMAIN queue : /\ queue[i].name \in Package!InternalNames
                              /\ IsList(queue[i].additional) /\ IsList(queue[i].recipes)

\* A run over the workspace has published, or will publish, every package of it; what is left is
\* in the order of the dependencies.
OrderOK(r) ==
    ~r.loose =>
        /\ ~r.options.only
        /\ \A i \in DOMAIN r.queue : r.queue[i].recipes = <<>>
        /\ InOrder(r.queue)
        /\ ~r.options.dry =>
             \A n \in Package!InternalNames :
                \/ Package!Published(n, r.version)
                \/ \E i \in DOMAIN r.queue : r.queue[i].name = n

\* What is ready is from this run, and is, with what is delivered, all of the package's names.
HasReady(ready, n) == \E i \in DOMAIN ready : ready[i].name = n
Prepared(p, ready) ==
    IF p.recipes = <<>> THEN ready = <<>> \/ \A n \in NamesOf(p) : HasReady(ready, n)
    ELSE /\ Len(ready) <= Len(p.recipes)
         /\ \A i \in DOMAIN ready : ready[i].name = p.recipes[i].name
ReadyOK(r) ==
    /\ IsList(r.ready)
    /\ \A i \in DOMAIN r.ready : r.options.skip \/ r.ready[i].by = r.id
    /\ r.pc = "prepare" => Prepared(Head(r.queue), r.ready)
    /\ r.pc = "publish" /\ ~r.options.dry /\ ~r.options.only =>
         \A n \in NamesOf(Head(r.queue)) : Delivered(r, n) \/ HasReady(r.ready, n)

RunOK(r) ==
    /\ r = [x \in ReleaseFields |-> r[x]]
    /\ r.pc \in {"prepare", "publish"} => QueueOK(r.queue) /\ OrderOK(r) /\ ReadyOK(r)
DoneOK(r) ==
    \A p \in r.done : ~r.options.dry /\ ~r.options.only => \A n \in NamesOf(p) : Delivered(r, n)

ReleaseInv ==
    /\ workspace \in Workspaces
    /\ published = [n \in Package!InternalNames |-> published[n]]
    /\ RunOK(release) /\ DoneOK(release) /\ Package!DependenciesFirst

LEMMA DoneSame ==
    ASSUME NEW r, NEW q, DoneOK(q), r.done = q.done, r.options = q.options,
           r.version = q.version, r.id = q.id
    PROVE  DoneOK(r)
<1>1. \A n : Delivered(q, n) => Delivered(r, n)
    BY DEF Delivered
<1> QED
    BY <1>1 DEF DoneOK

\* A registry that has more: what a run has, it keeps.
LEMMA Grown ==
    ASSUME workspace' = workspace, npm \subseteq npm', NEW r
    PROVE  /\ QueueOK(r.queue) => QueueOK(r.queue)'
           /\ OrderOK(r) => OrderOK(r)'
           /\ ReadyOK(r) => ReadyOK(r)'
           /\ DoneOK(r) => DoneOK(r)'
           /\ \A n : Delivered(r, n) => Delivered(r, n)'
<1>1. Package!InternalNames' = Package!InternalNames
    BY DEF Package!InternalNames, Package!Packages
<1>2. \A q : InOrder(q) => InOrder(q)'
    BY DEF InOrder, Package!Dependencies, Package!InternalNames, Package!Packages
<1>3. \A n : Delivered(r, n) => Delivered(r, n)'
    BY DEF Delivered
<1>4. \A n, v : Package!Published(n, v) => Package!Published(n, v)'
    BY DEF Package!Published
<1>5. QueueOK(r.queue) => QueueOK(r.queue)'
    BY <1>1 DEF QueueOK
<1>6. OrderOK(r) => OrderOK(r)'
    BY <1>1, <1>2, <1>4 DEF OrderOK
<1>7. ReadyOK(r) => ReadyOK(r)'
    BY <1>3 DEF ReadyOK
<1>8. DoneOK(r) => DoneOK(r)'
    BY <1>3 DEF DoneOK
<1> QED
    BY <1>3, <1>5, <1>6, <1>7, <1>8

LEMMA DependenciesKept ==
    ASSUME workspace' = workspace, npm \subseteq npm', Package!DependenciesFirst,
           \A e \in npm' \ npm :
              ~e.loose => \A d \in DOMAIN e.ranges \cap Package!InternalNames :
                             e.ranges[d] # 0 => Package!Published(d, e.ranges[d])
    PROVE  Package!DependenciesFirst'
<1>1. Package!InternalNames' = Package!InternalNames
    BY DEF Package!InternalNames, Package!Packages
<1>2. \A n, v : Package!Published(n, v) => Package!Published(n, v)'
    BY DEF Package!Published
<1> QED
    BY <1>1, <1>2 DEF Package!DependenciesFirst

\* A step that leaves the registry alone.
LEMMA RunStep ==
    ASSUME ReleaseInv, workspace' = workspace, npm' = npm, NEW r, release' = r, RunOK(r), DoneOK(r),
           published' = [n \in Package!InternalNames |-> published'[n]]
    PROVE  ReleaseInv'
<1>1. QueueOK(r.queue) => QueueOK(r.queue)'
    BY Grown
<1>2. (OrderOK(r) => OrderOK(r)') /\ (ReadyOK(r) => ReadyOK(r)') /\ DoneOK(r)'
    BY Grown
<1>3. RunOK(r)'
    BY <1>1, <1>2 DEF RunOK
<1>4. Package!DependenciesFirst'
    BY DependenciesKept DEF ReleaseInv
<1>5. Package!InternalNames' = Package!InternalNames
    BY DEF Package!InternalNames, Package!Packages
<1> QED
    BY <1>2, <1>3, <1>4, <1>5 DEF ReleaseInv

LEMMA FailedRun ==
    ASSUME RunOK(release), DoneOK(release), NEW r, r = [release EXCEPT !.pc = "failed"]
    PROVE  RunOK(r) /\ DoneOK(r)
<1>1. release = [x \in ReleaseFields |-> release[x]]
    BY DEF RunOK
<1>2. /\ r = [x \in ReleaseFields |-> r[x]] /\ r.pc = "failed" /\ r.done = release.done
      /\ r.options = release.options /\ r.version = release.version /\ r.id = release.id
    BY <1>1 DEF ReleaseFields
<1>3. RunOK(r)
    BY <1>2 DEF RunOK
<1>4. DoneOK(r)
    BY <1>2 DEF DoneOK, Delivered
<1> QED
    BY <1>3, <1>4

LEMMA RejectedRun ==
    ASSUME NEW k, NEW r, r = [Package!Idle EXCEPT !.pc = "failed", !.id = k]
    PROVE  RunOK(r) /\ DoneOK(r)
<1>1. r = [x \in ReleaseFields |-> r[x]] /\ r.pc = "failed" /\ r.done = {}
    BY DEF ReleaseFields, Package!Idle
<1> QED
    BY <1>1 DEF RunOK, DoneOK

\* The packages of a workspace.
LEMMA WorkspaceFacts ==
    ASSUME workspace \in Workspaces
    PROVE  /\ \E n \in Nat : DOMAIN workspace = 1..n /\ Len(workspace) = n
           /\ \A p \in Package!Packages :
                /\ DOMAIN p = Package!PackageFields
                /\ IsList(p.additional) /\ IsList(p.recipes)
                /\ p.name \in Package!InternalNames
<1>1. workspace \in Seq(Package!Range(workspace))
    BY AssumptionOfPackage DEF Package!PackageAssumption
<1>2. \E n \in Nat : DOMAIN workspace = 1..n /\ Len(workspace) = n
    BY <1>1
<1>3. ASSUME NEW i \in DOMAIN workspace
      PROVE  /\ DOMAIN workspace[i] = Package!PackageFields
             /\ IsList(workspace[i].additional) /\ IsList(workspace[i].recipes)
    BY AssumptionOfPackage DEF Package!PackageAssumption, IsList, Package!Range, Range
<1>4. \A p \in Package!Packages : \E i \in DOMAIN workspace : p = workspace[i]
    BY DEF Package!Packages, Package!Range
<1>5. \A p \in Package!Packages : p.name \in Package!InternalNames
    BY DEF Package!InternalNames
<1> QED
    BY <1>2, <1>3, <1>4, <1>5

LEMMA StartAllKeeps == ASSUME ReleaseInv, Package!StartAll PROVE ReleaseInv'
<1>1. workspace' = workspace /\ npm' = npm /\ published' = published
    BY DEF Package!StartAll, Package!disk
<1>2. /\ workspace \in Workspaces /\ RunOK(release) /\ DoneOK(release)
      /\ published' = [n \in Package!InternalNames |-> published'[n]]
    BY <1>1 DEF ReleaseInv
<1>3. PICK v \in Package!Version, o \in Options,
           filters \in {{}} \cup {{p.name} : p \in Package!Packages},
           from \in {"none"} \cup Package!InternalNames :
        LET list == Package!From(Package!Filtered(filters), from)
            skipped == Package!Packages \ Package!Range(list)
        IN  IF /\ Package!Discovered /\ ~Package!Cyclic
               /\ from = "none" \/ from \in {p.name : p \in Package!Range(Package!Filtered(filters))}
               /\ list # <<>>
               /\ \A p \in Package!Range(list) : Package!Planned([p EXCEPT !.recipes = <<>>], v, FALSE)
            THEN release' = [Package!Idle EXCEPT !.pc = "prepare", !.id = release.id + 1, !.version = v,
                              !.options = [o EXCEPT !.only = FALSE],
                              !.queue = [i \in DOMAIN list |-> [list[i] EXCEPT !.recipes = <<>>]],
                              !.internal = Package!InternalNames,
                              !.loose = \E p \in skipped : ~Package!Published(p.name, v)]
            ELSE release' = [Package!Idle EXCEPT !.pc = "failed", !.id = release.id + 1]
    BY DEF Package!StartAll
<1>4. CASE release' = [Package!Idle EXCEPT !.pc = "failed", !.id = release.id + 1]
    BY <1>1, <1>2, <1>4, RejectedRun, RunStep
<1>5. CASE release' # [Package!Idle EXCEPT !.pc = "failed", !.id = release.id + 1]
  <2>1. PICK list : list = Package!From(Package!Filtered(filters), from)
      OBVIOUS
  <2>2. PICK loose : loose = \E p \in Package!Packages \ Package!Range(list) : ~Package!Published(p.name, v)
      OBVIOUS
  <2>3. PICK queue : queue = [i \in DOMAIN list |-> [list[i] EXCEPT !.recipes = <<>>]]
      OBVIOUS
  <2>4. PICK opts : opts = [o EXCEPT !.only = FALSE]
      OBVIOUS
  <2>5. /\ from = "none" \/ from \in {p.name : p \in Package!Range(Package!Filtered(filters))}
        /\ list # <<>>
        /\ release' = [Package!Idle EXCEPT !.pc = "prepare", !.id = release.id + 1, !.version = v,
                              !.options = opts, !.queue = queue,
                              !.internal = Package!InternalNames, !.loose = loose]
      BY <1>3, <1>5, <2>1, <2>2, <2>3, <2>4
  <2>6. PICK r : r = release'
      OBVIOUS
  <2>7. /\ r = [x \in ReleaseFields |-> r[x]]
        /\ r.pc = "prepare" /\ r.queue = queue /\ r.options = opts /\ r.loose = loose /\ r.version = v
        /\ r.done = {} /\ r.ready = <<>>
      BY <2>5, <2>6 DEF Package!Idle, ReleaseFields
  <2>8. InTurn(list)
    <3>1. PICK n \in Nat : DOMAIN workspace = 1..n /\ Len(workspace) = n
        BY <1>2, WorkspaceFacts
    <3> QED
        BY <2>1, <2>5, <3>1, SelectionInTurn
  <2>9. /\ list \in Seq(Package!Packages) /\ InOrder(list)
        /\ \A i \in DOMAIN list : list[i] \in Package!Packages
      BY <2>8 DEF InTurn
  <2>10. PICK m \in Nat : DOMAIN list = 1..m /\ m # 0
      BY <2>5, <2>9
  <2>11. ASSUME NEW i \in DOMAIN list
         PROVE  /\ queue[i].name = list[i].name /\ queue[i].ranges = list[i].ranges
                /\ queue[i].dev = list[i].dev /\ queue[i].additional = list[i].additional
                /\ queue[i].recipes = <<>>
                /\ IsList(list[i].additional) /\ list[i].name \in Package!InternalNames
    <3>1. /\ DOMAIN list[i] = Package!PackageFields
          /\ IsList(list[i].additional) /\ list[i].name \in Package!InternalNames
        BY <1>2, <2>9, WorkspaceFacts
    <3>2. queue[i] = [list[i] EXCEPT !.recipes = <<>>]
        BY <2>3
    <3> QED
        BY <3>1, <3>2 DEF Package!PackageFields
  <2>12. DOMAIN queue = 1..m /\ DOMAIN queue = DOMAIN list
      BY <2>3, <2>10
  <2>13. QueueOK(queue)
    <3>1. IsList(queue) /\ queue # <<>>
      <4>1. queue = [i \in 1..m |-> queue[i]] /\ \A i \in 1..m : queue[i] \in Range(queue)
          BY <2>3, <2>10 DEF Range
      <4>2. queue \in Seq(Range(queue))
          BY <4>1
      <4>3. queue # <<>>
          BY <2>10, <2>12
      <4> QED
          BY <4>2, <4>3 DEF IsList
    <3>2. IsList(<<>>)
        BY DEF IsList
    <3> QED
        BY <2>11, <2>12, <3>1, <3>2 DEF QueueOK
  <2>14. ASSUME ~loose PROVE OrderOK(r)
    <3>1. opts.only = FALSE
        BY <2>4, AssumptionOfPackage DEF Package!PackageAssumption
    <3>2. \A i \in DOMAIN queue : queue[i].recipes = <<>>
        BY <2>11, <2>12
    <3>3. \A i \in DOMAIN list : Package!Dependencies(queue[i]) = Package!Dependencies(list[i])
        BY <2>11 DEF Package!Dependencies
    <3>4. InOrder(queue)
        BY <2>9, <2>11, <2>12, <3>3 DEF InOrder
    <3>5. ASSUME NEW n \in Package!InternalNames, ~Package!Published(n, v)
          PROVE  \E i \in DOMAIN queue : queue[i].name = n
      <4>1. PICK p \in Package!Packages : n = p.name
          BY DEF Package!InternalNames
      <4>2. p \in Package!Range(list)
          BY <2>2, <2>14, <3>5, <4>1
      <4> QED
          BY <2>11, <2>12, <4>1, <4>2 DEF Package!Range
    <3> QED
        BY <2>7, <3>1, <3>2, <3>4, <3>5 DEF OrderOK
  <2>15. OrderOK(r)
      BY <2>7, <2>14 DEF OrderOK
  <2>16. ReadyOK(r)
    <3>1. IsList(<<>>) /\ DOMAIN <<>> = {}
        BY DEF IsList
    <3>2. Head(queue).recipes = <<>>
      <4>1. Head(queue) = queue[1] /\ 1 \in DOMAIN list
          BY <2>10, <2>12, <2>13 DEF QueueOK, IsList
      <4> QED
          BY <2>11, <4>1
    <3> QED
        BY <2>7, <3>1, <3>2 DEF ReadyOK, Prepared
  <2>17. RunOK(r) /\ DoneOK(r)
      BY <2>7, <2>13, <2>15, <2>16 DEF RunOK, DoneOK
  <2> QED
      BY <1>1, <1>2, <2>6, <2>17, RunStep
<1> QED
    BY <1>4, <1>5

LEMMA StartOneKeeps == ASSUME ReleaseInv, Package!StartOne PROVE ReleaseInv'
<1>1. workspace' = workspace /\ npm' = npm /\ published' = published
    BY DEF Package!StartOne, Package!disk
<1>2. /\ workspace \in Workspaces /\ RunOK(release) /\ DoneOK(release)
      /\ published' = [n \in Package!InternalNames |-> published'[n]]
    BY <1>1 DEF ReleaseInv
<1>3. PICK p \in Package!Packages, bump \in BOOLEAN, answered \in BOOLEAN, template \in BOOLEAN,
           v \in {0} \cup Package!Version, o \in Options, internal \in {{}, Package!InternalNames} :
        LET version == Package!ChosenVersion(p, bump, v)
        IN  /\ version <= MaxVersion
            /\ IF answered /\ Package!Planned(p, version, template)
               THEN release' = [Package!Idle EXCEPT !.pc = "prepare", !.id = release.id + 1,
                                 !.version = version, !.options = o, !.queue = <<p>>,
                                 !.internal = internal, !.loose = TRUE]
               ELSE release' = [Package!Idle EXCEPT !.pc = "failed", !.id = release.id + 1]
    BY DEF Package!StartOne
<1>4. CASE release' = [Package!Idle EXCEPT !.pc = "failed", !.id = release.id + 1]
    BY <1>1, <1>2, <1>4, RejectedRun, RunStep
<1>5. CASE release' # [Package!Idle EXCEPT !.pc = "failed", !.id = release.id + 1]
  <2>1. PICK queue, version : queue = <<p>> /\ version = Package!ChosenVersion(p, bump, v)
      OBVIOUS
  <2>2. PICK r : r = release'
      OBVIOUS
  <2>3. /\ r = [x \in ReleaseFields |-> r[x]]
        /\ r.pc = "prepare" /\ r.queue = queue /\ r.options = o /\ r.loose = TRUE
        /\ r.done = {} /\ r.ready = <<>>
      BY <1>3, <1>5, <2>1, <2>2 DEF Package!Idle, ReleaseFields
  <2>4. QueueOK(queue) /\ Head(queue) = p
    <3>1. queue \in Seq({p}) /\ DOMAIN queue = {1} /\ queue[1] = p /\ queue # <<>> /\ Head(queue) = p
        BY <2>1
    <3>2. Range(queue) = {p}
        BY <3>1 DEF Range
    <3> QED
        BY <1>2, <3>1, <3>2, WorkspaceFacts DEF QueueOK, IsList
  <2>5. ReadyOK(r)
    <3>1. IsList(<<>>) /\ DOMAIN <<>> = {} /\ Len(<<>>) = 0
        BY DEF IsList
    <3>2. Len(p.recipes) >= 0
        BY <1>2, WorkspaceFacts DEF IsList
    <3> QED
        BY <2>3, <2>4, <3>1, <3>2 DEF ReadyOK, Prepared
  <2>6. RunOK(r) /\ DoneOK(r)
      BY <2>3, <2>4, <2>5 DEF RunOK, DoneOK, OrderOK
  <2> QED
      BY <1>1, <1>2, <2>2, <2>6, RunStep
<1> QED
    BY <1>4, <1>5

\* A run that works on a package.
LEMMA AtWork ==
    ASSUME ReleaseInv, release.pc \in {"prepare", "publish"}
    PROVE  /\ release = [x \in ReleaseFields |-> release[x]]
           /\ QueueOK(release.queue) /\ OrderOK(release) /\ ReadyOK(release)
           /\ Head(release.queue) = release.queue[1] /\ 1 \in DOMAIN release.queue
           /\ Head(release.queue).name \in Package!InternalNames
           /\ IsList(Head(release.queue).additional) /\ IsList(Head(release.queue).recipes)
<1>1. /\ release = [x \in ReleaseFields |-> release[x]]
      /\ QueueOK(release.queue) /\ OrderOK(release) /\ ReadyOK(release)
    BY DEF ReleaseInv, RunOK
<1>2. IsList(release.queue) /\ release.queue # <<>>
    BY <1>1 DEF QueueOK
<1>3. Head(release.queue) = release.queue[1] /\ 1 \in DOMAIN release.queue
    BY <1>2 DEF IsList
<1> QED
    BY <1>1, <1>3 DEF QueueOK

\* More is ready: the run that works on its first package goes on.
LEMMA MoreReady ==
    ASSUME ReleaseInv, release.pc = "prepare", workspace' = workspace, npm' = npm,
           published' = [n \in Package!InternalNames |-> published'[n]],
           NEW ready, IsList(ready),
           \A i \in DOMAIN ready : release.options.skip \/ ready[i].by = release.id,
           Prepared(Head(release.queue), ready),
           release' = [release EXCEPT !.ready = ready]
    PROVE  ReleaseInv'
<1>1. PICK r : r = release'
    OBVIOUS
<1>2. release = [x \in ReleaseFields |-> release[x]] /\ DoneOK(release)
    BY AtWork DEF ReleaseInv
<1>3. /\ r = [x \in ReleaseFields |-> r[x]] /\ r.pc = "prepare" /\ r.ready = ready
      /\ r.queue = release.queue /\ r.done = release.done /\ r.options = release.options
      /\ r.version = release.version /\ r.id = release.id /\ r.loose = release.loose
    BY <1>1, <1>2 DEF ReleaseFields
<1>4. QueueOK(r.queue) /\ OrderOK(r) /\ ReadyOK(r)
    BY <1>3, AtWork DEF OrderOK, ReadyOK
<1>5. RunOK(r) /\ DoneOK(r)
    BY <1>2, <1>3, <1>4 DEF RunOK, DoneOK, Delivered
<1> QED
    BY <1>1, <1>5, RunStep

\* resolvePackageNames: the names of an artifact without recipes.
LEMMA NamesFacts ==
    ASSUME NEW p, IsList(p.additional)
    PROVE  /\ \E l \in Nat : Len(Package!Names(p)) = l
           /\ \A n \in {p.name} \cup Package!Range(p.additional) :
                 \E i \in 1..Len(Package!Names(p)) : Package!Names(p)[i] = n
<1> DEFINE a == p.additional
           s == Package!Names(p)
           S == Range(a) \cup {p.name}
<1>1. a \in Seq(S) /\ <<p.name>> \in Seq(S)
    BY DEF IsList
<1>2. PICK l \in Nat : l = Len(a) /\ DOMAIN a = 1..l
    BY <1>1
<1>3. s = <<p.name>> \o a
    BY DEF Package!Names
<1> HIDE DEF a, S
<1>4. /\ Len(s) = l + 1 /\ s[1] = p.name
      /\ \A i \in 1..l : s[i + 1] = a[i]
    BY <1>1, <1>2, <1>3
<1> HIDE DEF s
<1>5. ASSUME NEW n \in Package!Range(a) PROVE \E i \in 1..Len(s) : s[i] = n
  <2>1. PICK i \in 1..l : a[i] = n
      BY <1>2, <1>5 DEF Package!Range
  <2>2. i + 1 \in 1..Len(s)
      BY <1>4
  <2> QED
      BY <1>4, <2>1, <2>2
<1>6. 1 \in 1..Len(s)
    BY <1>4
<1> QED
    BY <1>4, <1>5, <1>6 DEF s, a

LEMMA PrepareImplicitKeeps == ASSUME ReleaseInv, Package!PrepareImplicit PROVE ReleaseInv'
<1> DEFINE cur == Head(release.queue)
<1>1. workspace' = workspace /\ npm' = npm /\ release.pc = "prepare" /\ cur.recipes = <<>>
    BY DEF Package!PrepareImplicit, Package!Current
<1>2. PICK built \in BOOLEAN, ok \in BOOLEAN :
        /\ release.options.skip => ~built
        /\ published' = IF built THEN [published EXCEPT ![cur.name] = release.id] ELSE published
        /\ IF /\ ok /\ (built \/ release.options.skip)
              /\ Package!ManifestAccepted(cur, release.internal)
              /\ release.options.keep => published'[cur.name] # 0
           THEN /\ release' = [release EXCEPT !.ready =
                      [i \in 1..Len(Package!Names(cur)) |->
                         Package!Entry(Package!Names(cur)[i], published'[cur.name])]]
                /\ temps' = IF release.options.keep THEN temps \cup {release.id} ELSE temps
           ELSE Package!Fail
    BY DEF Package!PrepareImplicit, Package!Current
<1>3. cur.name \in Package!InternalNames /\ IsList(cur.additional)
    BY <1>1, AtWork
<1>4. published = [n \in Package!InternalNames |-> published[n]] /\ RunOK(release) /\ DoneOK(release)
    BY DEF ReleaseInv
<1> HIDE DEF cur
<1>5. published' = [n \in Package!InternalNames |-> published'[n]] /\ (built => published'[cur.name] = release.id)
    BY <1>2, <1>3, <1>4
<1>6. CASE Package!Fail
  <2>1. release' = [release EXCEPT !.pc = "failed"]
      BY <1>6 DEF Package!Fail
  <2> QED
      BY <1>1, <1>4, <1>5, <2>1, FailedRun, RunStep
<1>7. CASE ~Package!Fail
  <2>1. PICK l \in Nat : l = Len(Package!Names(cur))
      BY <1>3, NamesFacts
  <2>2. PICK ready : ready = [i \in 1..l |-> Package!Entry(Package!Names(cur)[i], published'[cur.name])]
      OBVIOUS
  <2>3. release' = [release EXCEPT !.ready = ready] /\ (built \/ release.options.skip)
      BY <1>2, <1>7, <2>1, <2>2
  <2>4. /\ DOMAIN ready = 1..l
        /\ \A i \in 1..l : ready[i].name = Package!Names(cur)[i] /\ ready[i].by = published'[cur.name]
      BY <2>2 DEF Package!Entry
  <2>5. IsList(ready)
    <3>1. ready = [i \in 1..l |-> ready[i]] /\ \A i \in 1..l : ready[i] \in Range(ready)
        BY <2>2 DEF Range
    <3> QED
        BY <3>1 DEF IsList
  <2>6. Prepared(cur, ready)
    <3>1. ASSUME NEW n \in NamesOf(cur) PROVE HasReady(ready, n)
      <4>1. n \in {cur.name} \cup Package!Range(cur.additional)
          BY <1>1, <3>1 DEF NamesOf, cur
      <4>2. PICK i \in 1..l : Package!Names(cur)[i] = n
          BY <1>3, <2>1, <4>1, NamesFacts
      <4> QED
          BY <2>4, <4>2 DEF HasReady
    <3> QED
        BY <1>1, <3>1 DEF Prepared, cur
  <2>7. \A i \in DOMAIN ready : release.options.skip \/ ready[i].by = release.id
      BY <1>5, <2>3, <2>4
  <2> QED
      BY <1>1, <1>5, <2>3, <2>5, <2>6, <2>7, MoreReady DEF cur
<1> QED
    BY <1>6, <1>7

LEMMA PrepareRecipeKeeps == ASSUME ReleaseInv, Package!PrepareRecipe PROVE ReleaseInv'
<1> DEFINE cur == Head(release.queue)
           l == Len(release.ready)
           item == cur.recipes[l + 1]
<1>1. /\ workspace' = workspace /\ npm' = npm /\ published' = published
      /\ release.pc = "prepare" /\ cur.recipes # <<>> /\ l # Len(cur.recipes)
    BY DEF Package!PrepareRecipe, Package!Current, Package!AllReady
<1>2. \/ release' = [release EXCEPT !.pc = "failed"]
      \/ release' = [release EXCEPT !.ready = Append(release.ready, Package!Entry(item.name, release.id))]
    BY DEF Package!PrepareRecipe, Package!Current, Package!Fail
<1>3. /\ RunOK(release) /\ DoneOK(release)
      /\ published' = [n \in Package!InternalNames |-> published'[n]]
    BY <1>1 DEF ReleaseInv
<1>4. CASE release' = [release EXCEPT !.pc = "failed"]
    BY <1>1, <1>3, <1>4, FailedRun, RunStep
<1>5. CASE release' # [release EXCEPT !.pc = "failed"]
  <2>1. PICK e : e = Package!Entry(item.name, release.id)
      OBVIOUS
  <2>2. e.name = item.name /\ e.by = release.id
      BY <2>1 DEF Package!Entry
  <2>3. PICK ready : ready = Append(release.ready, e)
      OBVIOUS
  <2>4. release' = [release EXCEPT !.ready = ready]
      BY <1>2, <1>5, <2>1, <2>3
  <2>5. ReadyOK(release) /\ IsList(cur.recipes)
      BY <1>1, AtWork
  <2>6. /\ IsList(release.ready) /\ l <= Len(cur.recipes)
        /\ \A i \in DOMAIN release.ready : release.options.skip \/ release.ready[i].by = release.id
        /\ \A i \in DOMAIN release.ready : release.ready[i].name = cur.recipes[i].name
      BY <1>1, <2>5 DEF ReadyOK, Prepared
  <2>7. l \in Nat /\ DOMAIN release.ready = 1..l /\ Len(cur.recipes) \in Nat
      BY <2>5, <2>6 DEF IsList
  <2>8. l + 1 <= Len(cur.recipes)
      BY <1>1, <2>6, <2>7
  <2> HIDE DEF l, cur, item
  <2>9. /\ IsList(ready) /\ DOMAIN ready = 1..(l + 1) /\ Len(ready) = l + 1
        /\ \A i \in 1..l : ready[i] = release.ready[i]
        /\ ready[l + 1] = e
    <3>1. PICK s : s = release.ready
        OBVIOUS
    <3>2. s \in Seq(Range(s) \cup {e}) /\ Len(s) = l
        BY <2>6, <3>1 DEF IsList, l
    <3>3. ready \in Seq(Range(s) \cup {e})
        BY <2>3, <3>1, <3>2
    <3>4. IsList(ready)
        BY <3>3 DEF IsList, Range
    <3>5. /\ DOMAIN ready = 1..(l + 1) /\ Len(ready) = l + 1
          /\ \A i \in 1..l : ready[i] = s[i]
          /\ ready[l + 1] = e
        BY <2>3, <2>7, <3>1, <3>2
    <3> QED
        BY <3>1, <3>4, <3>5
  <2>10. \A i \in DOMAIN ready : i \in 1..l \/ i = l + 1
      BY <2>7, <2>9
  <2>11. \A i \in DOMAIN ready : release.options.skip \/ ready[i].by = release.id
      BY <2>2, <2>6, <2>7, <2>9, <2>10
  <2>12. \A i \in DOMAIN ready : ready[i].name = cur.recipes[i].name
      BY <2>2, <2>6, <2>7, <2>9, <2>10 DEF item
  <2>13. Prepared(cur, ready)
      BY <1>1, <2>8, <2>9, <2>12 DEF Prepared, cur
  <2> QED
      BY <1>1, <1>3, <2>4, <2>9, <2>11, <2>13, MoreReady DEF cur
<1> QED
    BY <1>4, <1>5

LEMMA PublishingKeeps == ASSUME ReleaseInv, Package!Publishing PROVE ReleaseInv'
<1> DEFINE cur == Head(release.queue)
<1>1. /\ workspace' = workspace /\ npm' = npm /\ published' = published /\ release.pc = "prepare"
      /\ IF cur.recipes = <<>> THEN release.ready # <<>> ELSE Len(release.ready) = Len(cur.recipes)
      /\ release' = [release EXCEPT !.pc = "publish"]
    BY DEF Package!Publishing, Package!disk, Package!AllReady, Package!Current
<1>2. PICK r : r = release'
    OBVIOUS
<1>3. release = [x \in ReleaseFields |-> release[x]] /\ DoneOK(release)
    BY <1>1, AtWork DEF ReleaseInv
<1>4. /\ r = [x \in ReleaseFields |-> r[x]] /\ r.pc = "publish" /\ r.ready = release.ready
      /\ r.queue = release.queue /\ r.done = release.done /\ r.options = release.options
      /\ r.version = release.version /\ r.id = release.id /\ r.loose = release.loose
    BY <1>1, <1>2, <1>3 DEF ReleaseFields
<1>5. /\ QueueOK(release.queue) /\ OrderOK(release) /\ ReadyOK(release)
      /\ IsList(cur.recipes)
    BY <1>1, AtWork
<1>6. ASSUME NEW n \in NamesOf(cur) PROVE HasReady(release.ready, n)
  <2>1. CASE cur.recipes = <<>>
      BY <1>1, <1>5, <1>6, <2>1 DEF ReadyOK, Prepared
  <2>2. CASE cur.recipes # <<>>
    <3>1. PICK i \in DOMAIN cur.recipes : n = cur.recipes[i].name
        BY <1>6, <2>2 DEF NamesOf, Package!Range
    <3>2. /\ IsList(release.ready) /\ Len(release.ready) = Len(cur.recipes)
          /\ \A k \in DOMAIN release.ready : release.ready[k].name = cur.recipes[k].name
        BY <1>1, <1>5, <2>2 DEF ReadyOK, Prepared
    <3>3. DOMAIN release.ready = DOMAIN cur.recipes
        BY <1>5, <3>2 DEF IsList
    <3> QED
        BY <3>1, <3>2, <3>3 DEF HasReady
  <2> QED
      BY <2>1, <2>2
<1>7. QueueOK(r.queue) /\ OrderOK(r) /\ ReadyOK(r)
    BY <1>4, <1>5, <1>6 DEF OrderOK, ReadyOK
<1>8. RunOK(r)
    BY <1>4, <1>7 DEF RunOK
<1>9. DoneOK(r)
    BY <1>3, <1>4 DEF DoneOK, Delivered
<1>10. published' = [n \in Package!InternalNames |-> published'[n]]
    BY <1>1 DEF ReleaseInv
<1> QED
    BY <1>1, <1>2, <1>8, <1>9, <1>10, RunStep

LEMMA WithoutFirst ==
    ASSUME NEW s, IsList(s), s # <<>>
    PROVE  /\ IsList(Tail(s)) /\ 1 \in DOMAIN s /\ Head(s) = s[1]
           /\ \A i \in DOMAIN Tail(s) : i + 1 \in DOMAIN s /\ Tail(s)[i] = s[i + 1]
           /\ \A i \in DOMAIN s : i = 1 \/ (i - 1 \in DOMAIN Tail(s) /\ Tail(s)[i - 1] = s[i])
           /\ Len(s) # 1 => Tail(s) # <<>>
           /\ DOMAIN s \subseteq Nat /\ DOMAIN Tail(s) \subseteq Nat
<1>1. s \in Seq(Range(s)) /\ Tail(s) \in Seq(Range(s)) /\ Len(s) \in Nat \ {0}
    BY DEF IsList
<1>2. IsList(Tail(s))
    BY <1>1, SequenceIsList
<1>3. PICK l \in Nat \ {0} : l = Len(s) /\ DOMAIN s = 1..l
    BY <1>1
<1>4. /\ DOMAIN Tail(s) = 1..(l - 1) /\ Len(Tail(s)) = l - 1
      /\ \A i \in 1..(l - 1) : Tail(s)[i] = s[i + 1]
    BY <1>1, <1>3
<1>5. Head(s) = s[1]
    BY <1>1
<1>6. ASSUME NEW i \in 1..l, i # 1
      PROVE  i - 1 \in 1..(l - 1) /\ Tail(s)[i - 1] = s[i]
  <2>1. i - 1 \in 1..(l - 1) /\ (i - 1) + 1 = i
      BY <1>3, <1>6
  <2> QED
      BY <1>4, <2>1
<1>7. \A i \in 1..(l - 1) : i + 1 \in 1..l
    BY <1>3
<1>8. Len(s) # 1 => Tail(s) # <<>>
  <2>1. PICK t : t = Tail(s)
      OBVIOUS
  <2>2. Len(t) # 0 => t # <<>>
      OBVIOUS
  <2> QED
      BY <1>3, <1>4, <2>1, <2>2
<1>9. 1 \in 1..l
    BY <1>3
<1>10. \A i \in DOMAIN Tail(s) : i + 1 \in DOMAIN s /\ Tail(s)[i] = s[i + 1]
    BY <1>3, <1>4, <1>7
<1>11. \A i \in DOMAIN s : i = 1 \/ (i - 1 \in DOMAIN Tail(s) /\ Tail(s)[i - 1] = s[i])
    BY <1>3, <1>4, <1>6
<1>12. DOMAIN s \subseteq Nat /\ DOMAIN Tail(s) \subseteq Nat
    BY <1>3, <1>4
<1> QED
    BY <1>2, <1>3, <1>5, <1>8, <1>9, <1>10, <1>11, <1>12

\* What is accepted can be installed: the packages it needs are before it.
LEMMA AcceptedStands ==
    ASSUME ReleaseInv, release.pc = "publish", ~release.loose, ~release.options.dry,
           NEW d \in DOMAIN Package!Made \cap Package!InternalNames, Package!Made[d] # 0
    PROVE  Package!Published(d, Package!Made[d])
<1> DEFINE cur == Head(release.queue)
<1>1. /\ OrderOK(release) /\ cur = release.queue[1] /\ 1 \in DOMAIN release.queue
      /\ QueueOK(release.queue)
    BY AtWork
<1>2. Package!Made = [n \in DOMAIN cur.ranges |->
                        Package!Rewritten(n, cur.ranges[n], release.version, release.internal)]
    BY DEF Package!Made, Package!Ranges, Package!Current
<1> HIDE DEF cur
<1>3. d \in DOMAIN cur.ranges /\ Package!Made[d] = release.version
    BY <1>2 DEF Package!Rewritten
<1>4. d \in Package!Dependencies(cur)
    BY <1>3 DEF Package!Dependencies
<1>5. ASSUME NEW i \in DOMAIN release.queue PROVE release.queue[i].name # d
  <2>1. 1 <= i
      BY <1>1 DEF QueueOK, IsList
  <2>2. InOrder(release.queue)
      BY <1>1 DEF OrderOK
  <2> QED
      BY <1>1, <1>4, <2>1, <2>2 DEF InOrder
<1> QED
    BY <1>1, <1>3, <1>5 DEF OrderOK

LEMMA PublishNextKeeps == ASSUME ReleaseInv, Package!PublishNext PROVE ReleaseInv'
<1> DEFINE e == Head(release.ready)
           tail == Tail(release.ready)
<1>1. /\ workspace' = workspace /\ published' = published
      /\ release.pc = "publish" /\ release.ready # <<>>
    BY DEF Package!PublishNext
<1>2. \/ /\ release.options.only \/ release.options.dry
         /\ release' = [release EXCEPT !.ready = tail] /\ npm' = npm
      \/ release' = [release EXCEPT !.pc = "failed"] /\ npm' = npm
      \/ /\ ~release.options.only /\ ~release.options.dry /\ Package!Accept(e, release.version)
         /\ \/ release' = [release EXCEPT !.pc = "failed"]
            \/ release' = [release EXCEPT !.ready = tail]
    BY DEF Package!PublishNext, Package!Fail
<1>3. /\ release = [x \in ReleaseFields |-> release[x]] /\ RunOK(release) /\ DoneOK(release)
      /\ QueueOK(release.queue) /\ OrderOK(release) /\ ReadyOK(release)
      /\ published' = [n \in Package!InternalNames |-> published'[n]]
      /\ Package!DependenciesFirst /\ workspace \in Workspaces
    BY <1>1, AtWork DEF ReleaseInv
<1>4. /\ IsList(tail) /\ 1 \in DOMAIN release.ready /\ e = release.ready[1]
      /\ \A i \in DOMAIN tail : i + 1 \in DOMAIN release.ready /\ tail[i] = release.ready[i + 1]
      /\ \A i \in DOMAIN release.ready :
            i = 1 \/ (i - 1 \in DOMAIN tail /\ tail[i - 1] = release.ready[i])
    BY <1>1, <1>3, WithoutFirst DEF ReadyOK
<1> HIDE DEF e, tail
<1>5. PICK r : r = release'
    OBVIOUS
\* the run after the call, when it goes on
<1>6. ASSUME r = [release EXCEPT !.ready = tail]
      PROVE  /\ r = [x \in ReleaseFields |-> r[x]] /\ r.pc = "publish" /\ r.ready = tail
             /\ r.queue = release.queue /\ r.done = release.done /\ r.options = release.options
             /\ r.version = release.version /\ r.id = release.id /\ r.loose = release.loose
             /\ OrderOK(r) /\ DoneOK(r)
  <2>1. /\ r = [x \in ReleaseFields |-> r[x]] /\ r.pc = "publish" /\ r.ready = tail
        /\ r.queue = release.queue /\ r.done = release.done /\ r.options = release.options
        /\ r.version = release.version /\ r.id = release.id /\ r.loose = release.loose
      BY <1>1, <1>3, <1>6 DEF ReleaseFields
  <2>2. OrderOK(r)
      BY <1>3, <2>1 DEF OrderOK
  <2>3. DoneOK(r)
      BY <1>3, <2>1, DoneSame
  <2> QED
      BY <2>1, <2>2, <2>3
<1>7. \A i \in DOMAIN tail : release.options.skip \/ tail[i].by = release.id
    BY <1>3, <1>4 DEF ReadyOK
<1>8. CASE npm' = npm /\ r = [release EXCEPT !.pc = "failed"]
    BY <1>1, <1>3, <1>5, <1>8, FailedRun, RunStep
<1>9. CASE npm' = npm /\ r # [release EXCEPT !.pc = "failed"] /\ (release.options.only \/ release.options.dry)
  <2>1. r = [release EXCEPT !.ready = tail]
      BY <1>2, <1>5, <1>9
  <2>2. ReadyOK(r)
      BY <1>4, <1>6, <1>7, <1>9, <2>1 DEF ReadyOK
  <2>3. RunOK(r)
      BY <1>3, <1>6, <2>1, <2>2 DEF RunOK
  <2>4. DoneOK(r)
      BY <1>6, <2>1
  <2> QED
      BY <1>1, <1>3, <1>5, <1>9, <2>3, <2>4, RunStep
<1>10. CASE /\ ~release.options.only /\ ~release.options.dry /\ Package!Accept(e, release.version)
            /\ \/ r = [release EXCEPT !.pc = "failed"]
               \/ r = [release EXCEPT !.ready = tail]
  <2>1. PICK x : x = [name |-> e.name, version |-> release.version, by |-> release.id, built |-> e.by,
                      ranges |-> Package!Made, loose |-> release.loose]
      OBVIOUS
  <2>2. npm' = npm \cup {x} /\ npm \subseteq npm'
      BY <1>10, <2>1 DEF Package!Accept
  <2>3. /\ x.name = e.name /\ x.version = release.version /\ x.by = release.id /\ x.built = e.by
        /\ x.ranges = Package!Made /\ x.loose = release.loose
      BY <2>1
  <2>4. Package!DependenciesFirst'
    <3>1. ASSUME NEW f \in npm' \ npm, ~f.loose,
                 NEW d \in DOMAIN f.ranges \cap Package!InternalNames, f.ranges[d] # 0
          PROVE  Package!Published(d, f.ranges[d])
      <4>1. f = x
          BY <2>2, <3>1
      <4> QED
          BY <1>1, <1>10, <2>3, <3>1, <4>1, AcceptedStands
    <3> QED
        BY <1>1, <1>3, <2>2, <3>1, DependenciesKept
  <2>5. CASE r = [release EXCEPT !.pc = "failed"]
    <3>1. RunOK(r) /\ DoneOK(r) /\ r.pc = "failed"
        BY <1>3, <2>5, FailedRun DEF ReleaseFields
    <3>2. DoneOK(r)'
        BY <1>1, <2>2, <3>1, Grown
    <3>3. RunOK(r)'
        BY <3>1 DEF RunOK
    <3> QED
        BY <1>1, <1>3, <1>5, <2>4, <3>2, <3>3 DEF ReleaseInv, Package!InternalNames, Package!Packages
  <2>6. CASE r # [release EXCEPT !.pc = "failed"]
    <3>1. r = [release EXCEPT !.ready = tail]
        BY <1>10, <2>6
    <3>2. QueueOK(r.queue)' /\ OrderOK(r)' /\ DoneOK(r)'
        BY <1>1, <1>3, <1>6, <2>2, <3>1, Grown
    <3>3. ASSUME NEW n \in NamesOf(Head(r.queue)) PROVE Delivered(r, n)' \/ HasReady(r.ready, n)
      <4>1. Delivered(release, n) \/ HasReady(release.ready, n)
          BY <1>1, <1>3, <1>6, <1>10, <3>1, <3>3 DEF ReadyOK
      <4>2. CASE Delivered(release, n)
        <5>1. Delivered(r, n)
            BY <1>6, <3>1, <4>2 DEF Delivered
        <5> QED
            BY <1>1, <2>2, <5>1, Grown
      <4>3. CASE HasReady(release.ready, n)
        <5>1. PICK i \in DOMAIN release.ready : release.ready[i].name = n
            BY <4>3 DEF HasReady
        <5>2. CASE i = 1
          <6>1. e.name = n /\ (release.options.skip \/ e.by = release.id)
              BY <1>3, <1>4, <5>1, <5>2 DEF ReadyOK
          <6>2. x \in npm' /\ x.name = n /\ x.version = r.version /\ x.by = r.id
                /\ (r.options.skip \/ x.built = r.id)
              BY <1>6, <2>2, <2>3, <3>1, <6>1
          <6>3. Delivered(r, n)'
              BY <6>2 DEF Delivered
          <6> QED
              BY <6>3
        <5>3. CASE i # 1
          <6>1. i - 1 \in DOMAIN tail /\ tail[i - 1].name = n
              BY <1>4, <5>1, <5>3
          <6>2. HasReady(tail, n)
              BY <6>1 DEF HasReady
          <6> QED
              BY <1>6, <3>1, <6>2
        <5> QED
            BY <5>2, <5>3
      <4> QED
          BY <4>1, <4>2, <4>3
    <3>4. ReadyOK(r)'
        BY <1>4, <1>6, <1>7, <3>1, <3>3 DEF ReadyOK
    <3>5. RunOK(r)'
        BY <1>6, <3>1, <3>2, <3>4 DEF RunOK
    <3> QED
        BY <1>1, <1>3, <1>5, <2>4, <3>2, <3>5 DEF ReleaseInv, Package!InternalNames, Package!Packages
  <2> QED
      BY <2>5, <2>6
<1> QED
    BY <1>2, <1>5, <1>8, <1>9, <1>10

LEMMA CompleteKeeps == ASSUME ReleaseInv, Package!Complete PROVE ReleaseInv'
<1> DEFINE cur == Head(release.queue)
           tail == Tail(release.queue)
<1>1. /\ workspace' = workspace /\ npm' = npm /\ published' = published
      /\ release.pc = "publish" /\ release.ready = <<>>
      /\ release' = [release EXCEPT !.done = release.done \cup {cur}, !.queue = tail,
                          !.pc = IF Len(release.queue) = 1 THEN "ok" ELSE "prepare"]
    BY DEF Package!Complete, Package!Current
<1>2. /\ release = [x \in ReleaseFields |-> release[x]] /\ DoneOK(release)
      /\ QueueOK(release.queue) /\ OrderOK(release) /\ ReadyOK(release)
      /\ cur = release.queue[1]
      /\ published' = [n \in Package!InternalNames |-> published'[n]]
    BY <1>1, AtWork DEF ReleaseInv
<1>3. /\ IsList(tail) /\ 1 \in DOMAIN release.queue
      /\ \A i \in DOMAIN tail : i + 1 \in DOMAIN release.queue /\ tail[i] = release.queue[i + 1]
      /\ \A i \in DOMAIN release.queue :
            i = 1 \/ (i - 1 \in DOMAIN tail /\ tail[i - 1] = release.queue[i])
      /\ Len(release.queue) # 1 => tail # <<>>
      /\ DOMAIN tail \subseteq Nat
  <2>1. IsList(release.queue) /\ release.queue # <<>>
      BY <1>2 DEF QueueOK
  <2>2. PICK s : s = release.queue
      OBVIOUS
  <2> QED
      BY <2>1, <2>2, WithoutFirst
<1> HIDE DEF cur, tail
<1>4. PICK r, done, pc : /\ r = release' /\ done = release.done \cup {cur}
                        /\ pc = IF Len(release.queue) = 1 THEN "ok" ELSE "prepare"
    OBVIOUS
<1>5. /\ r = [x \in ReleaseFields |-> r[x]] /\ r.pc = pc /\ r.ready = <<>>
      /\ r.queue = tail /\ r.done = done /\ r.options = release.options
      /\ r.version = release.version /\ r.id = release.id /\ r.loose = release.loose
    BY <1>1, <1>2, <1>4 DEF ReleaseFields
\* the package is published under all its names
<1>6. ASSUME ~release.options.dry, ~release.options.only, NEW n \in NamesOf(cur)
      PROVE  Delivered(release, n)
  <2>1. Delivered(release, n) \/ HasReady(<<>>, n)
      BY <1>1, <1>2, <1>6 DEF ReadyOK, cur
  <2> QED
      BY <2>1 DEF HasReady
<1>7. \A n : Delivered(release, n) => Delivered(r, n)
    BY <1>5 DEF Delivered
<1>8. DoneOK(r)
    BY <1>2, <1>4, <1>5, <1>6, <1>7 DEF DoneOK
<1>9. ASSUME pc = "prepare" PROVE QueueOK(tail) /\ OrderOK(r) /\ ReadyOK(r)
  <2>1. tail # <<>>
      BY <1>3, <1>4, <1>9
  <2>2. QueueOK(tail)
      BY <1>2, <1>3, <2>1 DEF QueueOK
  <2>3. ReadyOK(r)
    <3>1. IsList(<<>>) /\ DOMAIN <<>> = {} /\ Len(<<>>) = 0
        BY DEF IsList
    <3>2. IsList(Head(tail).recipes)
      <4>1. 1 \in DOMAIN tail /\ Head(tail) = tail[1]
          BY <1>3, <2>1, WithoutFirst
      <4> QED
          BY <2>2, <4>1 DEF QueueOK
    <3>3. Len(Head(tail).recipes) >= 0
        BY <3>2 DEF IsList
    <3>4. Prepared(Head(tail), <<>>)
        BY <3>1, <3>3 DEF Prepared
    <3> QED
        BY <1>5, <1>9, <3>1, <3>4 DEF ReadyOK
  <2>4. ASSUME ~release.loose PROVE OrderOK(r)
    <3>1. /\ ~release.options.only
          /\ \A i \in DOMAIN release.queue : release.queue[i].recipes = <<>>
          /\ InOrder(release.queue)
        BY <1>2, <2>4 DEF OrderOK
    <3>2. \A i \in DOMAIN tail : tail[i].recipes = <<>>
        BY <1>3, <3>1
    <3>3. InOrder(tail)
      <4> SUFFICES ASSUME NEW i \in DOMAIN tail, NEW j \in DOMAIN tail, i <= j
                   PROVE  tail[j].name \notin Package!Dependencies(tail[i])
          BY DEF InOrder
      <4>1. i + 1 <= j + 1
          BY <1>3
      <4> QED
          BY <1>3, <3>1, <4>1 DEF InOrder
    <3>4. ASSUME ~release.options.dry, NEW n \in Package!InternalNames
          PROVE  Package!Published(n, release.version) \/ \E i \in DOMAIN tail : tail[i].name = n
      <4>1. Package!Published(n, release.version) \/ \E i \in DOMAIN release.queue : release.queue[i].name = n
          BY <1>2, <2>4, <3>4 DEF OrderOK
      <4>2. ASSUME cur.name = n PROVE Package!Published(n, release.version)
        <5>1. n \in NamesOf(cur)
            BY <1>2, <1>3, <3>1, <4>2 DEF NamesOf
        <5>2. Delivered(release, n)
            BY <1>6, <3>1, <3>4, <5>1
        <5> QED
            BY <5>2 DEF Delivered, Package!Published
      <4> QED
          BY <1>2, <1>3, <4>1, <4>2
    <3> QED
        BY <1>5, <3>1, <3>2, <3>3, <3>4 DEF OrderOK
  <2>5. OrderOK(r)
      BY <1>5, <2>4 DEF OrderOK
  <2> QED
      BY <2>2, <2>3, <2>5
<1>10. RunOK(r)
  <2>1. pc # "publish"
      BY <1>4
  <2> QED
      BY <1>5, <1>9, <2>1 DEF RunOK
<1> QED
    BY <1>1, <1>2, <1>4, <1>8, <1>10, RunStep

LEMMA RunKilledKeeps == ASSUME ReleaseInv, Package!Killed PROVE ReleaseInv'
<1>1. /\ workspace' = workspace /\ npm' = npm /\ published' = published
      /\ release' = [release EXCEPT !.pc = "failed"]
    BY DEF Package!Killed, Package!disk
<1>2. /\ RunOK(release) /\ DoneOK(release)
      /\ published' = [n \in Package!InternalNames |-> published'[n]]
    BY <1>1 DEF ReleaseInv
<1> QED
    BY <1>1, <1>2, FailedRun, RunStep

\* A step that leaves the run alone; the registry may have more, of others.
LEMMA OtherStep ==
    ASSUME ReleaseInv, workspace' = workspace, published' = published, release' = release,
           npm \subseteq npm', \A e \in npm' \ npm : e.loose
    PROVE  ReleaseInv'
<1>1. PICK r : r = release
    OBVIOUS
<1>2. RunOK(r) /\ DoneOK(r) /\ Package!DependenciesFirst
    BY <1>1 DEF ReleaseInv
<1>3. DoneOK(r)' /\ RunOK(r)'
    BY <1>2, Grown DEF RunOK
<1>4. Package!DependenciesFirst'
    BY <1>2, DependenciesKept
<1> QED
    BY <1>1, <1>3, <1>4 DEF ReleaseInv, Package!InternalNames, Package!Packages

LEMMA ReleaseNextKeeps == ASSUME ReleaseInv, [Package!Next]_packageVars PROVE ReleaseInv'
<1>1. CASE Package!Emptied
    BY <1>1, OtherStep DEF Package!Emptied
<1>2. CASE Package!OthersPublish
  <2>1. workspace' = workspace /\ published' = published /\ release' = release
      BY <1>2 DEF Package!OthersPublish, Package!disk
  <2>2. PICK n, v : npm' = npm \cup {[name |-> n, version |-> v, by |-> 0, built |-> 0,
                                      ranges |-> <<>>, loose |-> TRUE]}
      BY <1>2 DEF Package!OthersPublish
  <2>3. \A e \in npm' \ npm : e.loose
      BY <2>2
  <2> QED
      BY <2>1, <2>2, <2>3, OtherStep
<1>3. CASE UNCHANGED packageVars
    BY <1>3, OtherStep DEF packageVars
<1> QED
    BY <1>1, <1>2, <1>3, StartAllKeeps, StartOneKeeps, PrepareImplicitKeeps, PrepareRecipeKeeps,
       PublishingKeeps, PublishNextKeeps, CompleteKeeps, RunKilledKeeps DEF Package!Next

LEMMA ReleaseStarts == ASSUME Package!Init PROVE ReleaseInv
<1>1. /\ workspace \in Workspaces /\ npm = {} /\ release = Package!Idle
      /\ published = [n \in Package!InternalNames |-> 0]
    BY DEF Package!Init
<1>2. PICK r : r = release
    OBVIOUS
<1>3. r = [x \in ReleaseFields |-> r[x]] /\ r.pc = "idle" /\ r.done = {}
    BY <1>1, <1>2 DEF ReleaseFields, Package!Idle
<1>4. RunOK(r) /\ DoneOK(r)
    BY <1>3 DEF RunOK, DoneOK
<1>5. Package!DependenciesFirst
    BY <1>1 DEF Package!DependenciesFirst
<1> QED
    BY <1>1, <1>2, <1>4, <1>5 DEF ReleaseInv

LEMMA ReleaseInvStands == ASSUME ReleaseInv PROVE Package!ReleaseStands
<1>1. DoneOK(release) /\ Package!DependenciesFirst
    BY DEF ReleaseInv
<1>2. Package!CompletedIsPublished
    BY <1>1 DEF DoneOK, NamesOf, Delivered, Package!CompletedIsPublished
<1> QED
    BY <1>1, <1>2 DEF Package!ReleaseStands

OfPackage == part = "packages" => ReleaseInv

\* ReleaseStands holds in every reachable state: what the registry has of a release can be
\* installed, and what a run reports as completed is there, for every workspace, and any number of
\* versions and runs. publish-packages index.ts sortPackagesByInternalDependencies,
\* publishPackages, publish.ts publishPreparedArtifacts
THEOREM ReleaseAlwaysStands == DeliverSpec => []ReleaseStands
<1>1. DeliverInit => OfPackage
    BY ReleaseStarts DEF DeliverInit, OfPackage
<1>2. OfPackage /\ [DeliverNext]_allVars => OfPackage'
  <2> SUFFICES ASSUME OfPackage, [DeliverNext]_allVars, part' = "packages" PROVE ReleaseInv'
      BY DEF OfPackage
  <2>1. part = "packages" /\ [Package!Next]_packageVars
      BY DEF DeliverNext, allVars
  <2> QED
      BY <2>1, ReleaseNextKeeps DEF OfPackage
<1>3. OfPackage => ReleaseStands
    BY ReleaseInvStands DEF OfPackage, ReleaseStands
<1> QED
    BY <1>1, <1>2, <1>3, PTL DEF DeliverSpec
==============================================================================
