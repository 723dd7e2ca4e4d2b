----------------------------- MODULE MCSandbox_proofs -----------------------------
(* Proofs of the safety properties of a sandbox run, for any number of signals.  *)
(* IInv says what each part of the run may find when it is entered; its steps    *)
(* are made of a few parts (a phase that fails, evidence that ends, cleanup that *)
(* ends), each of which is shown to preserve it. At the end: the run with its    *)
(* polling loop implements it, and the tests start only when every probe has     *)
(* passed, for any probes. Then, for any processes, limit and output: a command   *)
(* of release-tag that succeeded was read to the end, and nothing survives one   *)
(* that was given up; CaptureInv says what the flags of a capture mean for the    *)
(* processes and the pipes.                                                      *)
EXTENDS MCSandbox, TLAPS

Early == {"prepare", "preflight", "start", "readiness", "test"}
Ended == {"manifest", "done"}

\* TypeOK in three parts
DataOK == child \in Child /\ result \in Result /\ signals \in 0..MaxSignals

FlagsOK ==
    /\ lingering \in BOOLEAN /\ main \in BOOLEAN /\ fresh \in BOOLEAN /\ total \in BOOLEAN
    /\ listening \in BOOLEAN /\ started \in BOOLEAN /\ cleanupAttempted \in BOOLEAN
    /\ evidenceFails \in BOOLEAN /\ containers \in BOOLEAN /\ passed \in BOOLEAN

NamesOK ==
    /\ pc \in Steps /\ capture \in {"always", "onFailure"}
    /\ primary \in Phase \cup {"none"} /\ secondary \in Phase \cup {"none"}
    /\ failedPhase \in Phase \cup {"none"}

\* Nothing has gone wrong in the phases before evidence, and nothing is torn down.
EarlyInv ==
    pc \in Early =>
        /\ primary = "none" /\ secondary = "none" /\ failedPhase = "none"
        /\ ~passed /\ ~cleanupAttempted /\ ~lingering
        /\ started <=> pc \in {"start", "readiness", "test"}

\* What has been started, passed and torn down
ProgressInv ==
    /\ ~started => ~containers /\ ~passed /\ ~cleanupAttempted
    /\ pc \in {"down", "remove"} => started /\ cleanupAttempted
    /\ pc = "remove" \/ (pc = "down" /\ child.ok) => ~containers
    /\ pc \notin Early /\ primary = "none" => passed

\* Which errors there can be together
ErrorInv ==
    /\ secondary \in {"none", "evidence", "cleanup"}
    /\ primary = "none" => secondary = "none" /\ failedPhase = "none"
    /\ lingering => primary = "preflight"
    /\ primary \in {"preflight", "prepare"} => ~started
    /\ secondary = "none" /\ failedPhase # "none" => failedPhase = primary
    /\ secondary = "none" /\ failedPhase = "none" /\ primary # "none" /\ pc \notin Ended =>
         \/ primary = "cleanup" /\ started
         \/ primary = "evidence" /\ started /\ signals > 0
         \/ primary = "preflight"

\* What is reported of a run that is over
EndInv ==
    pc \in Ended =>
        /\ ~listening
        /\ result.outcome = "success" <=> primary = "none"
        /\ primary = "none" => ~containers /\ signals = 0
        /\ containers => /\ cleanupAttempted
                         /\ "cleanup" \in {primary, secondary} \/ secondary = "evidence"
        /\ primary # "none" =>
             \/ result.phase = primary
             \/ primary = "evidence" /\ result.phase = "cleanup" /\ signals > 0
             \/ primary = "preflight" /\ result.phase = "evidence" /\ ~started

IInv == /\ DataOK /\ FlagsOK /\ NamesOK
        /\ EarlyInv /\ ProgressInv /\ ErrorInv /\ EvidenceFirst /\ EndInv

\* What happens to a process keeps its type, and its exit code until it exits.
LEMMA Children ==
    /\ Off \in Child /\ Running \in Child
    /\ \A c \in Child : /\ Terminated(c) \in Child /\ Expired(c) \in Child /\ Released(c) \in Child
                        /\ \A ok \in BOOLEAN, held \in BOOLEAN : Exited(c, ok, held) \in Child
  BY DEF Off, Running, Child, Terminated, Expired, Released, Exited

\* An exit code changes only when the process exits.
LEMMA ExitCodes ==
    /\ ~Off.ok /\ ~Running.ok
    /\ \A c \in Child : /\ Terminated(c).ok = c.ok /\ Expired(c).ok = c.ok /\ Released(c).ok = c.ok
                        /\ \A ok \in BOOLEAN, held \in BOOLEAN : Exited(c, ok, held).ok = ok
  BY DEF Off, Running, Child, Terminated, Expired, Released, Exited

USE SandboxAssumption DEF SandboxAssumption

\* The invariant holds of a run that begins.
LEMMA Initially == Init => IInv
  <1> SUFFICES ASSUME Init PROVE IInv
    OBVIOUS
  <1>1. DataOK
    BY Children DEF Init, DataOK, Result
  <1>2. FlagsOK
    BY DEF Init, FlagsOK
  <1>3. NamesOK /\ EarlyInv /\ ProgressInv /\ ErrorInv /\ EvidenceFirst /\ EndInv
    BY DEF Init, NamesOK, Steps, Phase, EarlyInv, ProgressInv, ErrorInv, EvidenceFirst,
           EndInv, Early, Ended, Evidence
  <1> QED
    BY <1>1, <1>2, <1>3 DEF IInv

------------------------------------------------------------------------------
\* The steps of everything but the run itself

\* Signals, deadlines and processes change none of what is reported.
LEMMA Watching ==
    ASSUME IInv, child' \in Child, child'.ok = child.ok,
           main' \in BOOLEAN, fresh' \in BOOLEAN, total' \in BOOLEAN,
           signals' \in 0..MaxSignals, signals' = signals \/ (listening /\ signals' > signals),
           UNCHANGED <<pc, lingering, listening, progress, errors, containers, result>>
    PROVE  IInv'
  <1>1. DataOK' /\ FlagsOK' /\ NamesOK'
    BY DEF IInv, DataOK, FlagsOK, NamesOK, progress, errors
  <1>2. EarlyInv' /\ ProgressInv'
    BY DEF IInv, EarlyInv, ProgressInv, progress, errors
  <1>3. ErrorInv' /\ EvidenceFirst' /\ EndInv'
    BY DEF IInv, DataOK, ErrorInv, EvidenceFirst, EndInv, progress, errors
  <1> QED
    BY <1>1, <1>2, <1>3 DEF IInv

\* A process that exits changes containers while up or down runs, and not otherwise.
LEMMA ExitKeeps == IInv /\ Exit => IInv'
  <1> SUFFICES ASSUME IInv, Exit PROVE IInv'
    OBVIOUS
  <1>1. /\ containers' \in BOOLEAN
        /\ pc \notin {"start", "down"} => containers' = containers
        /\ pc = "down" => (child'.ok => ~containers') /\ containers' \in {containers, FALSE}
    <2>1. PICK ok \in BOOLEAN : containers' \in ContainersAfter(ok) /\ child'.ok = ok
      BY ExitCodes DEF Exit, IInv, DataOK
    <2>2. CASE pc = "start"
      BY <2>1, <2>2 DEF ContainersAfter
    <2>3. CASE pc = "down"
      BY <2>1, <2>3 DEF ContainersAfter, IInv, FlagsOK
    <2>4. CASE pc \notin {"start", "down"}
      BY <2>1, <2>4 DEF ContainersAfter, IInv, FlagsOK
    <2> QED
      BY <2>2, <2>3, <2>4
  <1>2. child' \in Child /\ UNCHANGED <<pc, lingering, aborts, progress, errors, result>>
    BY Children DEF Exit, IInv, DataOK
  <1>3. DataOK' /\ FlagsOK' /\ NamesOK'
    BY <1>1, <1>2 DEF IInv, DataOK, FlagsOK, NamesOK, process, aborts, progress, errors
  <1>4. EarlyInv' /\ ErrorInv' /\ EvidenceFirst'
    BY <1>2 DEF IInv, EarlyInv, ErrorInv, EvidenceFirst, process, aborts, progress, errors
  <1>5. ProgressInv' /\ EndInv'
    BY <1>1, <1>2 DEF IInv, FlagsOK, ProgressInv, EndInv, EarlyInv, Early, Ended, process,
                      aborts, progress, errors
  <1> QED
    BY <1>3, <1>4, <1>5 DEF IInv

\* The phase that an abandoned preflight notes is that of the primary error.
LEMMA LingererKeeps == IInv /\ LingererEnds => IInv'
  <1> SUFFICES ASSUME IInv, LingererEnds PROVE IInv'
    OBVIOUS
  <1>1. DataOK' /\ FlagsOK'
    BY DEF IInv, DataOK, FlagsOK, NamesOK, LingererEnds, process, aborts, progress, errors
  <1>2. NamesOK' /\ EarlyInv' /\ ProgressInv'
    BY DEF IInv, DataOK, FlagsOK, NamesOK, Phase, EarlyInv, ProgressInv, LingererEnds,
           process, aborts, progress, errors
  <1>3. ErrorInv' /\ EvidenceFirst' /\ EndInv'
    BY DEF IInv, ErrorInv, EvidenceFirst, EndInv, LingererEnds, process, aborts, progress,
           errors
  <1> QED
    BY <1>1, <1>2, <1>3 DEF IInv

\* No process, signal or deadline disturbs the invariant.
LEMMA OthersKeep ==
    IInv /\ (Exit \/ Release \/ ChildDeadline \/ LingererEnds \/ Signal \/ TotalDeadline
            \/ EmergencyDeadline) => IInv'
  <1> SUFFICES ASSUME IInv PROVE
        Exit \/ Release \/ ChildDeadline \/ LingererEnds \/ Signal \/ TotalDeadline
            \/ EmergencyDeadline => IInv'
    OBVIOUS
  <1> USE DEF IInv, DataOK, FlagsOK, NamesOK
  <1>1. CASE Release
    BY <1>1, Watching, Children, ExitCodes DEF Release, aborts
  <1>2. CASE ChildDeadline
    BY <1>2, Watching, Children, ExitCodes DEF ChildDeadline, aborts
  <1>3. ASSUME AbortAll
        PROVE  /\ child' \in Child /\ child'.ok = child.ok
               /\ main' \in BOOLEAN /\ fresh' \in BOOLEAN
    BY <1>3, Children, ExitCodes DEF AbortAll
  <1>4. CASE Signal
    BY <1>3, <1>4, Watching DEF Signal
  <1>5. CASE TotalDeadline
    BY <1>3, <1>5, Watching DEF TotalDeadline
  <1>6. CASE EmergencyDeadline
    BY <1>6, Watching, Children, ExitCodes DEF EmergencyDeadline
  <1> QED
    BY <1>1, <1>2, <1>4, <1>5, <1>6, ExitKeeps, LingererKeeps

------------------------------------------------------------------------------
\* The parts that the steps of the run are made of

\* To go on within the first phases, within the next ones or within evidence
LEMMA Moving ==
    ASSUME IInv, child' \in Child, evidenceFails' \in BOOLEAN,
           \/ pc = "prepare" /\ pc' = "preflight"
           \/ pc \in {"start", "readiness", "test"} /\ pc' \in {"start", "readiness", "test"}
           \/ pc \in Evidence /\ pc' \in Evidence,
           UNCHANGED <<lingering, aborts, progress, primary, secondary, failedPhase, containers,
                       result>>
    PROVE  IInv'
  <1>1. DataOK' /\ FlagsOK'
    BY DEF IInv, DataOK, FlagsOK, NamesOK, aborts, progress
  <1>2. NamesOK' /\ EarlyInv' /\ ProgressInv'
    BY DEF IInv, DataOK, FlagsOK, NamesOK, EarlyInv, ProgressInv, Steps, Phase, Early,
           Emergency, Evidence, aborts, progress
  <1>3. ErrorInv' /\ EvidenceFirst' /\ EndInv'
    BY DEF IInv, ErrorInv, EvidenceFirst, EndInv, Ended, Evidence, aborts, progress
  <1> QED
    BY <1>1, <1>2, <1>3 DEF IInv

\* The report is made of the errors as they are then.
LEMMA Reports ==
    ASSUME Leave, primary' \in Phase \cup {"none"}, failedPhase' \in Phase \cup {"none"}
    PROVE  /\ result' \in Result /\ child' = Off
           /\ pc' = "manifest" /\ ~listening' /\ total' = FALSE
           /\ UNCHANGED <<fresh, cleanupAttempted>>
           /\ result'.outcome = "success" <=> primary' = "none"
           /\ result'.phase = Reported
  BY DEF Leave, Await, Result, Reported, Phase

\* The first error of a run is that of the phase which failed.
LEMMA PhaseFailsKeeps ==
    ASSUME NEW phase \in Early, IInv, pc = phase, PhaseFails(phase)
    PROVE  IInv'
  <1> USE DEF PhaseFails, Record, Collect, Await, process, aborts, progress, errors
  <1>1. DataOK' /\ FlagsOK'
    <2>1. DataOK'
      BY Children DEF IInv, DataOK
    <2>2. FlagsOK'
      BY DEF IInv, FlagsOK
    <2> QED
      BY <2>1, <2>2
  <1>2. NamesOK' /\ EarlyInv' /\ ProgressInv'
    BY DEF IInv, NamesOK, FlagsOK, EarlyInv, ProgressInv, Steps, Phase, Early, Emergency,
           Evidence
  <1>3. ErrorInv' /\ EvidenceFirst' /\ EndInv'
    BY DEF IInv, FlagsOK, EarlyInv, ErrorInv, EvidenceFirst, EndInv, Early, Ended, Evidence
  <1> QED
    BY <1>1, <1>2, <1>3 DEF IInv

\* After evidence there is an error or the tests passed without a signal.
LEMMA EvidenceEndsKeeps ==
    ASSUME NEW failed \in BOOLEAN, IInv, pc \in Evidence, EvidenceEnds(failed)
    PROVE  IInv'
  <1>1. /\ NamesOK' /\ EarlyInv' /\ ProgressInv' /\ ErrorInv' /\ EndInv'
    <2> USE DEF IInv, DataOK, FlagsOK, NamesOK, EarlyInv, ProgressInv, ErrorInv, EvidenceFirst,
                EndInv, Steps, Phase, Emergency, Evidence, Early, Ended, EvidenceEnds, Teardown,
                Leave, Reported, Run, Await, process, aborts, progress, errors
    <2>1. NamesOK'
      OBVIOUS
    <2>2. EarlyInv' /\ ProgressInv'
      <3>1. pc' = "down" => ~child'.ok
        BY ExitCodes
      <3> QED
        BY <3>1
    <2>3. ErrorInv'
      OBVIOUS
    <2>4. EndInv'
      OBVIOUS
    <2> QED
      BY <2>1, <2>2, <2>3, <2>4
  <1>2. DataOK'
    BY <1>1, Reports, Children DEF NamesOK, IInv, DataOK, EvidenceEnds, Teardown, Run
  <1>3. FlagsOK'
    BY DEF IInv, FlagsOK, EvidenceEnds, Teardown, Leave
  <1>4. EvidenceFirst'
    <2>1. pc' \in {"down", "manifest"}
      BY DEF EvidenceEnds, Teardown, Run, Leave, Await
    <2> QED
      BY <2>1 DEF EvidenceFirst, Evidence
  <1> QED
    BY <1>1, <1>2, <1>3, <1>4 DEF IInv

\* Either a late signal goes back to evidence, or the run ends with its errors.
LEMMA CleanupEndsKeeps ==
    ASSUME NEW failed \in BOOLEAN, IInv, CleanupEnds(failed),
           pc = "remove" \/ (pc = "down" /\ failed)
    PROVE  IInv'
  <1>1. /\ NamesOK' /\ EarlyInv' /\ ProgressInv' /\ ErrorInv' /\ EndInv'
    <2> USE DEF IInv, DataOK, FlagsOK, NamesOK, EarlyInv, ProgressInv, ErrorInv, EvidenceFirst,
                EndInv, Steps, Phase, Emergency, Evidence, Early, Ended, CleanupEnds, LateSignal,
                Record, Collect, Leave, Reported, Await, process, aborts, progress, errors
    <2>1. NamesOK'
      OBVIOUS
    <2>2. EarlyInv' /\ ProgressInv'
      OBVIOUS
    <2>3. ErrorInv'
      OBVIOUS
    <2>4. EndInv'
      OBVIOUS
    <2> QED
      BY <2>1, <2>2, <2>3, <2>4
  <1>2. DataOK'
    BY <1>1, Reports, Children DEF NamesOK, IInv, DataOK, CleanupEnds, Collect, Await
  <1>3. FlagsOK'
    BY DEF IInv, FlagsOK, CleanupEnds, Collect, Leave
  <1>4. EvidenceFirst'
    <2>1. CASE LateSignal(failed)
      BY <2>1 DEF IInv, ProgressInv, CleanupEnds, LateSignal, EvidenceFirst, Evidence, Early
    <2>2. CASE ~LateSignal(failed)
      <3>1. pc' = "manifest"
        BY <2>2 DEF CleanupEnds, Leave, Await
      <3> QED
        BY <3>1 DEF EvidenceFirst, Evidence
    <2> QED
      BY <2>1, <2>2
  <1> QED
    BY <1>1, <1>2, <1>3, <1>4 DEF IInv

------------------------------------------------------------------------------
\* The steps of the run

\* started is set with nothing started yet.
LEMMA PreflightKeeps == IInv /\ Preflight => IInv'
  <1> SUFFICES ASSUME IInv, Preflight PROVE IInv'
    OBVIOUS
  <1>1. pc = "preflight"
    BY DEF Preflight, Closed
  <1>2. CASE PhaseFails("preflight")
    BY <1>1, <1>2, PhaseFailsKeeps DEF Early
  <1>3. CASE ~PhaseFails("preflight")
    <2>1. /\ pc' = "start" /\ child' \in Child /\ started' = TRUE
          /\ UNCHANGED <<lingering, aborts, cleanupAttempted, passed, capture, errors, containers,
                         result>>
      BY <1>3, Children DEF Preflight, Run
    <2>2. DataOK' /\ FlagsOK' /\ NamesOK'
      BY <2>1 DEF IInv, DataOK, FlagsOK, NamesOK, Steps, Phase, aborts, errors
    <2>3. EarlyInv' /\ ProgressInv' /\ ErrorInv' /\ EvidenceFirst' /\ EndInv'
      BY <1>1, <2>1 DEF EarlyInv, ProgressInv, ErrorInv, EvidenceFirst, EndInv, IInv, Early,
                        Ended, Evidence, aborts, errors
    <2> QED
      BY <2>2, <2>3 DEF IInv
  <1> QED
    BY <1>2, <1>3

\* The primary error is that of the deadline whatever the process did.
LEMMA PreflightDeadlineKeeps == IInv /\ PreflightDeadline => IInv'
  <1> SUFFICES ASSUME IInv, PreflightDeadline PROVE IInv'
    OBVIOUS
  <1> USE DEF PreflightDeadline, Collect, Await
  <1>1. DataOK'
    BY Children DEF IInv, DataOK
  <1>2. FlagsOK'
    BY DEF IInv, FlagsOK, progress
  <1>3. NamesOK' /\ EarlyInv' /\ ProgressInv'
    BY DEF IInv, NamesOK, EarlyInv, ProgressInv, Steps, Phase, Early, Emergency, Evidence,
           progress
  <1>4. ErrorInv' /\ EvidenceFirst' /\ EndInv'
    BY DEF IInv, EarlyInv, ErrorInv, EvidenceFirst, EndInv, Early, Ended, Evidence, progress
  <1> QED
    BY <1>1, <1>2, <1>3, <1>4 DEF IInv

\* Tests can pass only if no signal came so far; what follows is evidence or cleanup.
LEMMA TestKeeps == IInv /\ Test => IInv'
  <1> SUFFICES ASSUME IInv, Test PROVE IInv'
    OBVIOUS
  <1>1. pc = "test"
    BY DEF Test, Closed
  <1>2. CASE PhaseFails("test")
    BY <1>1, <1>2, PhaseFailsKeeps DEF Early
  <1>3. CASE ~PhaseFails("test")
    <2>1. /\ passed' = TRUE /\ child' \in Child /\ ~child'.ok /\ fresh' = FALSE
          /\ evidenceFails' \in BOOLEAN
          /\ \/ pc' = "mkdir" /\ UNCHANGED cleanupAttempted
             \/ pc' = "down" /\ cleanupAttempted' = TRUE
          /\ UNCHANGED <<total, listening, lingering, main, signals, started, capture, primary,
                         secondary, failedPhase, containers, result>>
      BY <1>1, <1>3, Children, ExitCodes
      DEF Test, Collect, Await, Teardown, Run, IInv, FlagsOK, EarlyInv, Early
    <2>2. DataOK' /\ FlagsOK' /\ NamesOK'
      BY <2>1 DEF IInv, DataOK, FlagsOK, NamesOK, Steps, Emergency, Evidence
    <2>3. EarlyInv' /\ ProgressInv' /\ ErrorInv' /\ EvidenceFirst' /\ EndInv'
      BY <1>1, <2>1 DEF EarlyInv, ProgressInv, ErrorInv, EvidenceFirst, EndInv, IInv, Early,
                        Ended, Evidence
    <2> QED
      BY <2>2, <2>3 DEF IInv
  <1> QED
    BY <1>2, <1>3

\* A teardown that succeeded leaves no containers.
LEMMA DownKeeps == IInv /\ Down => IInv'
  <1> SUFFICES ASSUME IInv, Down PROVE IInv'
    OBVIOUS
  <1>1. CASE CleanupEnds(TRUE)
    BY <1>1, CleanupEndsKeeps DEF Down, Closed
  <1>2. CASE ~CleanupEnds(TRUE)
    <2>1. /\ pc = "down" /\ child.ok /\ pc' = "remove" /\ child' = Off
          /\ UNCHANGED <<lingering, aborts, progress, errors, containers, result>>
      BY <1>2 DEF Down, Closed, Failed, Await
    <2>2. DataOK' /\ FlagsOK' /\ NamesOK'
      BY <2>1, Children DEF IInv, DataOK, FlagsOK, NamesOK, Steps, Emergency, aborts,
                            progress, errors
    <2>3. EarlyInv' /\ ProgressInv' /\ ErrorInv' /\ EvidenceFirst' /\ EndInv'
      BY <2>1 DEF EarlyInv, ProgressInv, ErrorInv, EvidenceFirst, EndInv, IInv, Early, Ended,
                  Evidence, aborts, progress, errors
    <2> QED
      BY <2>2, <2>3 DEF IInv
  <1> QED
    BY <1>1, <1>2

\* The manifest is an error of its own if it cannot be written.
LEMMA ManifestKeeps == IInv /\ WriteManifest => IInv'
  <1> SUFFICES ASSUME IInv, WriteManifest PROVE IInv'
    OBVIOUS
  <1> USE DEF WriteManifest, Await, process, aborts, progress, errors
  <1>1. DataOK'
    BY Children DEF IInv, DataOK, Result, Phase
  <1>2. FlagsOK'
    BY DEF IInv, FlagsOK
  <1>3. NamesOK' /\ EarlyInv' /\ ProgressInv'
    BY DEF IInv, NamesOK, EarlyInv, ProgressInv, Steps, Phase, Early, Emergency, Evidence
  <1>4. ErrorInv' /\ EvidenceFirst'
    BY DEF IInv, ProgressInv, ErrorInv, EvidenceFirst, Early, Ended, Evidence
  <1>5. EndInv'
    BY DEF IInv, EndInv, Ended
  <1> QED
    BY <1>1, <1>2, <1>3, <1>4, <1>5 DEF IInv

\* The steps of evidence move on within it or end it.
LEMMA EvidenceKeeps == IInv /\ (MakeDirectory \/ Ps \/ Logs) => IInv'
  <1> SUFFICES ASSUME IInv, MakeDirectory \/ Ps \/ Logs PROVE IInv'
    OBVIOUS
  <1>1. pc \in Evidence
    BY DEF MakeDirectory, Ps, Logs, Closed, Evidence
  <1>2. ASSUME NEW failed \in BOOLEAN, EvidenceEnds(failed)
        PROVE  IInv'
    BY <1>1, <1>2, EvidenceEndsKeeps
  <1>3. ASSUME NEW step \in Evidence, pc' = step, child' \in Child, evidenceFails' \in BOOLEAN,
               UNCHANGED <<lingering, aborts, progress, primary, secondary, failedPhase,
                           containers, result>>
        PROVE  IInv'
    BY <1>1, <1>3, Moving
  <1>4. ASSUME NEW failed \in BOOLEAN, RunLogs(failed)
        PROVE  IInv'
    BY <1>2, <1>3, <1>4, Children DEF RunLogs, Run, Evidence
  <1>5. evidenceFails \in BOOLEAN
    BY DEF IInv, FlagsOK
  <1>6. CASE MakeDirectory
    BY <1>2, <1>3, <1>5, <1>6, Children DEF MakeDirectory, Run, Evidence, errors
  <1>7. CASE Ps
    BY <1>3, <1>4, <1>5, <1>7, Children DEF Ps, Await, Evidence, errors
  <1>8. CASE Logs
    BY <1>2, <1>3, <1>5, <1>8, Children DEF Logs, Await, Evidence, errors
  <1> QED
    BY <1>6, <1>7, <1>8

\* Every step of the run preserves the invariant.
LEMMA StepKeeps == IInv /\ Step => IInv'
  <1> SUFFICES ASSUME IInv, Step PROVE IInv'
    OBVIOUS
  <1>1. CASE Prepare
    <2>1. CASE PhaseFails("prepare")
      BY <1>1, <2>1, PhaseFailsKeeps DEF Prepare, Early
    <2>2. CASE ~PhaseFails("prepare")
      BY <1>1, <2>2, Moving, Children DEF Prepare, Run, IInv, FlagsOK, errors
    <2> QED
      BY <2>1, <2>2
  <1>2. CASE Start
    <2>1. CASE PhaseFails("start")
      BY <1>2, <2>1, PhaseFailsKeeps DEF Start, Closed, Early
    <2>2. CASE ~PhaseFails("start")
      BY <1>2, <2>2, Moving, Children DEF Start, Closed, Await, IInv, FlagsOK, errors
    <2> QED
      BY <2>1, <2>2
  <1>3. CASE Readiness
    <2>1. CASE PhaseFails("readiness")
      BY <1>3, <2>1, PhaseFailsKeeps DEF Readiness, Early
    <2>2. CASE ~PhaseFails("readiness")
      BY <1>3, <2>2, Moving, Children DEF Readiness, Run, IInv, FlagsOK, errors
    <2> QED
      BY <2>1, <2>2
  <1>4. CASE Remove
    BY <1>4, CleanupEndsKeeps DEF Remove
  <1> QED
    BY <1>1, <1>2, <1>3, <1>4, PreflightKeeps, PreflightDeadlineKeeps, TestKeeps, EvidenceKeeps,
       DownKeeps, ManifestKeeps DEF Step

------------------------------------------------------------------------------
\* The theorems

\* So does a step that changes nothing.
LEMMA Stutters == IInv /\ UNCHANGED vars => IInv'
  <1> SUFFICES ASSUME IInv, UNCHANGED vars PROVE IInv'
    OBVIOUS
  <1>1. UNCHANGED <<pc, process, aborts, progress, errors, containers, result>>
    BY DEF vars
  <1>2. DataOK' /\ FlagsOK' /\ NamesOK'
    BY <1>1 DEF IInv, DataOK, FlagsOK, NamesOK, process, aborts, progress, errors
  <1>3. EarlyInv' /\ ProgressInv' /\ ErrorInv' /\ EvidenceFirst' /\ EndInv'
    BY <1>1 DEF IInv, EarlyInv, ProgressInv, ErrorInv, EvidenceFirst, EndInv, process, aborts,
                progress, errors
  <1> QED
    BY <1>2, <1>3 DEF IInv

\* The invariant of a run.
LEMMA Inductive == Spec => []IInv
  <1>1. IInv /\ [Next]_vars => IInv'
    BY StepKeeps, OthersKeep, Stutters DEF Next
  <1> QED
    BY <1>1, Initially, PTL DEF Spec

\* The type invariant, for any number of signals.
THEOREM TypeCorrect == Spec => []TypeOK
  <1>1. IInv => TypeOK
    BY DEF IInv, DataOK, FlagsOK, NamesOK, TypeOK
  <1> QED
    BY <1>1, Inductive, PTL

\* However many signals come and whenever, success is reported only of a run in which all
\* went well (lifecycle.ts:358-377).
THEOREM SuccessIsTrue == Spec => []SuccessMeansAll
  <1>1. IInv => SuccessMeansAll
    BY DEF IInv, ProgressInv, EndInv, SuccessMeansAll, Early, Ended
  <1> QED
    BY <1>1, Inductive, PTL

\* Containers that are left behind are reported, or hidden by an error of evidence.
THEOREM LeaksAreReported == Spec => []LeakIsReported
  <1>1. IInv => LeakIsReported
    BY DEF IInv, DataOK, Result, NoResult, ProgressInv, EndInv, LeakIsReported, Early, Ended
  <1> QED
    BY <1>1, Inductive, PTL

\* Evidence precedes teardown, but for the second collection of a late signal.
THEOREM EvidenceIsFirst == Spec => []EvidenceFirst
  <1>1. IInv => EvidenceFirst
    BY DEF IInv
  <1> QED
    BY <1>1, Inductive, PTL

\* The phase that is reported is that of the primary error, but for two cases.
THEOREM ReportsPrimary == Spec => []PhaseIsOfPrimary
  <1>1. IInv => PhaseIsOfPrimary
    BY DEF IInv, EndInv, PhaseIsOfPrimary, Ended
  <1> QED
    BY <1>1, Inductive, PTL

\* No later error replaces the primary one: where a phase before evidence fails there is
\* none yet, and evidence, cleanup and the manifest look whether there is one.
THEOREM PrimaryIsKept == Spec => PrimaryStays
  <1>1. ASSUME IInv, Next, primary # "none"
        PROVE  primary' = primary
    <2>1. pc \notin Early
      BY <1>1 DEF IInv, EarlyInv
    <2>2. CASE Step
      <3>1. ~(Prepare \/ Preflight \/ PreflightDeadline \/ Start \/ Readiness \/ Test)
        BY <2>1 DEF Prepare, Preflight, PreflightDeadline, Start, Readiness, Test, Closed, Early
      <3>2. ASSUME NEW failed, EvidenceEnds(failed)
            PROVE  primary' = primary
        BY <1>1, <3>2 DEF EvidenceEnds
      <3>3. ASSUME NEW failed, CleanupEnds(failed)
            PROVE  primary' = primary
        BY <1>1, <3>3 DEF CleanupEnds, LateSignal, Record
      <3>4. ASSUME NEW failed, RunLogs(failed)
            PROVE  primary' = primary
        BY <3>2, <3>4 DEF RunLogs
      <3>5. CASE MakeDirectory \/ Ps \/ Logs
        BY <3>2, <3>4, <3>5 DEF MakeDirectory, Ps, Logs, errors
      <3>6. CASE Down \/ Remove \/ WriteManifest
        BY <1>1, <3>3, <3>6 DEF Down, Remove, WriteManifest, errors
      <3> QED
        BY <2>2, <3>1, <3>5, <3>6 DEF Step
    <2>3. CASE ~Step
      BY <1>1, <2>3
      DEF Next, Exit, Release, ChildDeadline, LingererEnds, Signal, TotalDeadline,
          EmergencyDeadline, errors
    <2> QED
      BY <2>2, <2>3
  <1>2. IInv /\ [Next]_vars => [primary # "none" => primary' = primary]_vars
    BY <1>1
  <1> QED
    BY <1>2, Inductive, PTL DEF Spec, PrimaryStays

------------------------------------------------------------------------------
\* The polling loop

\* A detailed step changes the run as a step of Sandbox does, or not at all.
LEMMA StepImplements == DetailedNext => Next \/ UNCHANGED vars
<1>1. CASE DetailedStep
  <2>1. CASE AllReady
    <3>1. pc = "readiness" /\ ~main /\ Run("test")
      BY <2>1 DEF AllReady, InReadiness, Undisturbed
    <3>2. UNCHANGED <<lingering, aborts, progress, errors, containers, result>>
      BY <2>1 DEF AllReady
    <3> QED BY <3>1, <3>2 DEF Readiness, Step, Next
  <2>2. CASE NotReady
    <3>1. pc = "readiness" /\ PhaseFails("readiness")
      BY <2>2 DEF NotReady
    <3> QED BY <3>1 DEF Readiness, Step, Next
  <2> QED BY <1>1, <2>1, <2>2 DEF DetailedStep, Step, Next
<1>2. CASE Poll
  BY <1>2 DEF Poll, Cycle, Snapshot, NextCycle, CheckSettles, BecomesDue
<1>3. CASE ReadinessDeadline
  BY <1>3 DEF ReadinessDeadline
<1>4. CASE Environment
  BY <1>4 DEF Environment, Next
<1> QED BY <1>1, <1>2, <1>3, <1>4 DEF DetailedNext

\* The detailed run, whatever the probes answer and when, is a run of Sandbox.
THEOREM ImplementsSandbox == DetailedSpec => ImplementsRun
<1>1. DetailedInit => Init
  BY DEF DetailedInit
<1>2. [DetailedNext]_allVars => [Next]_vars
  <2>1. UNCHANGED allVars => UNCHANGED vars
    BY DEF allVars
  <2> QED BY StepImplements, <2>1
<1> QED BY <1>1, <1>2, PTL DEF DetailedSpec, ImplementsRun, Spec

------------------------------------------------------------------------------

\* What is done was watched, and a check of a fatal probe is never followed by another cycle.
PollingOK ==
    /\ poll \in {"wait", "snapshot", "checks"}
    /\ poll \in {"wait", "snapshot"} => fatal = {}

LEMMA PollingInit == DetailedInit => PollingOK
BY DEF DetailedInit, InitPolling, PollingOK

LEMMA PollingStep == PollingOK /\ [DetailedNext]_allVars => PollingOK'
<1> SUFFICES ASSUME PollingOK, [DetailedNext]_allVars PROVE PollingOK'
  OBVIOUS
<1>1. CASE DetailedStep
  BY <1>1 DEF DetailedStep, AllReady, NotReady, Forget, polling, PollingOK
<1>2. CASE Poll
  <2>1. CASE Cycle
    BY <2>1 DEF Cycle, InReadiness, Check, PollingOK
  <2>2. CASE Snapshot
    BY <2>2 DEF Snapshot, InReadiness, Check, PollingOK
  <2>3. CASE NextCycle
    BY <2>3 DEF NextCycle, InReadiness, PollingOK
  <2>4. CASE \E p \in Watched : CheckSettles(p) \/ BecomesDue(p)
    BY <2>4 DEF CheckSettles, BecomesDue, InReadiness, PollingOK
  <2> QED BY <1>2, <2>1, <2>2, <2>3, <2>4 DEF Poll
<1>3. CASE ReadinessDeadline
  BY <1>3 DEF ReadinessDeadline, PollingOK
<1>4. CASE Environment
  BY <1>4 DEF Environment, polling, PollingOK
<1>5. CASE UNCHANGED allVars
  BY <1>5 DEF allVars, polling, PollingOK
<1> QED BY <1>1, <1>2, <1>3, <1>4, <1>5 DEF DetailedNext

\* Only AllReady leads to the tests.
LEMMA TestsByAllReady ==
    ASSUME PollingOK, DetailedNext, pc = "readiness", pc' = "test"
    PROVE  Watched \subseteq ready /\ fatal = {}
<1>1. CASE AllReady
  BY <1>1 DEF AllReady, InReadiness, Satisfied, PollingOK
<1>2. CASE NotReady
  BY <1>2 DEF NotReady, PhaseFails, Collect, Await
<1>3. CASE Environment
  <2> USE DEF AbortAll
  <2>1. pc' = pc
    BY <1>3 DEF Environment, Exit, Release, ChildDeadline, LingererEnds, Signal,
                TotalDeadline, EmergencyDeadline
  <2> QED BY <2>1
<1>4. CASE Poll \/ ReadinessDeadline
  BY <1>4 DEF Poll, Cycle, Snapshot, NextCycle, CheckSettles, BecomesDue, ReadinessDeadline,
              vars
<1>5. ~(Prepare \/ Preflight \/ PreflightDeadline \/ Start \/ Test)
  BY DEF Prepare, Preflight, PreflightDeadline, Start, Test, Closed
<1>6. ~(MakeDirectory \/ Ps \/ Logs \/ Down \/ Remove \/ WriteManifest)
  BY DEF MakeDirectory, Ps, Logs, Down, Remove, WriteManifest, Closed
<1> QED BY <1>1, <1>2, <1>3, <1>4, <1>5, <1>6 DEF DetailedNext, DetailedStep

\* Whatever the deadline does, the tests start only when every probe that is looked at has
\* passed and none was fatal.
THEOREM TestsAreReady == DetailedSpec => TestsNeedReadiness
<1>1. DetailedInit => PollingOK
  BY PollingInit
<1>2. PollingOK /\ [DetailedNext]_allVars => PollingOK'
  BY PollingStep
<1>3. PollingOK /\ [DetailedNext]_allVars =>
          [pc = "readiness" /\ pc' = "test" => Watched \subseteq ready /\ fatal = {}]_allVars
  BY TestsByAllReady
<1> QED BY <1>1, <1>2, <1>3, PTL DEF DetailedSpec, TestsNeedReadiness

------------------------------------------------------------------------------
\* The commands of release-tag

Capture == [failure : {"none", "transport", "timeout", "overflow", "stream", "unconfirmed"},
            code : {"none", "zero", "other"}, output : Nat, retained : Nat,
            exited : BOOLEAN, closed : BOOLEAN, settled : BOOLEAN, terminating : BOOLEAN,
            escalated : BOOLEAN, reaped : BOOLEAN, overflowing : BOOLEAN,
            destroyed : BOOLEAN, cleanupIncomplete : BOOLEAN]

\* The types, and that only what was forked is anywhere.
CaptureTypeOK ==
    /\ alive \subseteq forked /\ group \subseteq forked /\ holders \subseteq forked
    /\ Leader \notin forked => alive = {}
    /\ ending \in {"none", "zero", "other"}
    /\ written \in Nat /\ unread \in Nat /\ call \in Capture

\* What a capture without failure has: it is terminated only by a bad exit, and has all it read.
CaptureFlagsOK(c) ==
    /\ c.failure = "none" =>
         /\ c.output <= Limit /\ c.retained = c.output
         /\ c.destroyed => c.terminating
         /\ c.terminating => c.code = "other"
    /\ c.settled => c.closed \/ c.failure # "none"
    /\ c.escalated => c.terminating
    /\ c.code # "none" => c.exited

\* The output is what was written, and is complete when it was closed.
OutputOK ==
    /\ ~call.destroyed => written = call.output + unread
    /\ call.closed /\ ~call.destroyed => unread = 0 /\ alive \cap holders = {}

\* SIGKILL was sent before a terminated capture settles.
GroupOK ==
    /\ call.escalated \/ (call.settled /\ call.terminating) =>
         alive \cap group \subseteq doomed
    /\ call.closed => call.exited \/ Leader \notin forked
    /\ call.settled /\ Leader \in forked /\ ~call.exited => call.cleanupIncomplete

CaptureInv == CaptureTypeOK /\ CaptureFlagsOK(call) /\ OutputOK /\ GroupOK

------------------------------------------------------------------------------
\* The answers to what goes wrong

LEMMA FailedByFacts ==
    ASSUME NEW c \in Capture, NEW error \in {"timeout", "overflow", "stream", "unconfirmed"}
    PROVE  /\ Command!FailedBy(c, error) \in Capture
           /\ Command!FailedBy(c, error) = [c EXCEPT !.failure = Command!FailedBy(c, error).failure]
           /\ Command!FailedBy(c, error).failure # "none"
BY DEF Command!FailedBy, Capture

LEMMA FinishFacts ==
    ASSUME NEW c \in Capture
    PROVE  /\ Command!FinishIfClosed(c) \in Capture
           /\ Command!FinishIfClosed(c) = [c EXCEPT !.settled = Command!FinishIfClosed(c).settled]
           /\ Command!FinishIfClosed(c).settled => c.settled \/ Command!MayFinish(c)
BY DEF Command!FinishIfClosed, Capture

\* A termination settles the capture only when the pipes are closed and nobody is in the group.
LEMMA TerminatedFacts ==
    ASSUME NEW c \in Capture, ~c.settled, ~c.terminating => ~c.escalated
    PROVE  /\ Command!Terminated(c) \in Capture
           /\ Command!Terminated(c) = [c EXCEPT !.terminating = TRUE, !.settled = Command!Terminated(c).settled]
           /\ Command!Terminated(c).settled => c.closed /\ alive \cap group = {}
<1>1. CASE c.terminating
  BY <1>1 DEF Command!Terminated, Capture
<1>2. CASE ~c.terminating
  <2> DEFINE t == [c EXCEPT !.terminating = TRUE]
  <2>1. t \in Capture /\ t.terminating /\ ~t.escalated /\ ~t.settled /\ t.closed = c.closed
    BY <1>2 DEF Capture
  <2>2. Command!Terminated(c) = Command!FinishIfClosed(t)
    BY <1>2 DEF Command!Terminated
  <2>3. /\ Command!FinishIfClosed(t) \in Capture
        /\ Command!FinishIfClosed(t) = [t EXCEPT !.settled = Command!FinishIfClosed(t).settled]
        /\ Command!FinishIfClosed(t).settled => Command!MayFinish(t)
    BY <2>1, FinishFacts
  <2>4. Command!MayFinish(t) => c.closed /\ alive \cap group = {}
    BY <2>1 DEF Command!MayFinish, Command!GroupExists
  <2>5. [t EXCEPT !.settled = Command!FinishIfClosed(t).settled]
           = [c EXCEPT !.terminating = TRUE, !.settled = Command!FinishIfClosed(t).settled]
    OBVIOUS
  <2> QED BY <2>2, <2>3, <2>4, <2>5
<1> QED BY <1>1, <1>2

\* A failure that terminates.
LEMMA GivenUpFacts ==
    ASSUME NEW c \in Capture, ~c.settled, c.escalated => c.terminating,
           NEW error \in {"timeout", "overflow", "stream", "unconfirmed"}
    PROVE  LET t == Command!Terminated(Command!FailedBy(c, error))
           IN  /\ t \in Capture /\ t.failure # "none" /\ t.terminating
               /\ t.closed = c.closed /\ t.escalated = c.escalated /\ t.exited = c.exited
               /\ t.code = c.code /\ t.output = c.output /\ t.destroyed = c.destroyed
               /\ t.settled => c.closed /\ alive \cap group = {}
<1> DEFINE failed == Command!FailedBy(c, error)
           t == Command!Terminated(failed)
<1>1. /\ failed \in Capture /\ failed.failure # "none"
      /\ failed = [c EXCEPT !.failure = failed.failure]
  BY FailedByFacts
<1> HIDE DEF failed
<1>2. /\ failed.settled = c.settled /\ failed.terminating = c.terminating
      /\ failed.escalated = c.escalated /\ failed.closed = c.closed
      /\ failed.exited = c.exited /\ failed.code = c.code
      /\ failed.output = c.output /\ failed.destroyed = c.destroyed
  BY <1>1 DEF Capture
<1>3. /\ t \in Capture
      /\ t = [failed EXCEPT !.terminating = TRUE, !.settled = t.settled]
      /\ t.settled => failed.closed /\ alive \cap group = {}
  BY <1>1, <1>2, TerminatedFacts
<1> HIDE DEF t
<1>4. /\ t.terminating /\ t.failure = failed.failure
      /\ t.closed = failed.closed /\ t.escalated = failed.escalated
      /\ t.exited = failed.exited /\ t.code = failed.code
      /\ t.output = failed.output /\ t.destroyed = failed.destroyed
  BY <1>1, <1>3 DEF Capture
<1>5. /\ t \in Capture /\ t.failure # "none" /\ t.terminating
      /\ t.closed = c.closed /\ t.escalated = c.escalated /\ t.exited = c.exited
      /\ t.code = c.code /\ t.output = c.output /\ t.destroyed = c.destroyed
      /\ t.settled => c.closed /\ alive \cap group = {}
  BY <1>1, <1>2, <1>3, <1>4
<1> QED BY <1>5 DEF t, failed

------------------------------------------------------------------------------
\* The start

LEMMA StartInv ==
    ASSUME NEW processes \in {{}, {Leader}}, NEW c \in Capture, Command!Started(processes, c),
           CaptureFlagsOK(c), c.output = 0, ~c.closed, ~c.escalated, ~c.terminating,
           c.settled => processes = {}
    PROVE  CaptureInv
<1> USE DEF Command!Started
<1>1. CaptureTypeOK
  BY DEF CaptureTypeOK
<1>2. OutputOK
  BY DEF OutputOK, Capture
<1>3. GroupOK
  BY DEF GroupOK
<1> QED BY <1>1, <1>2, <1>3 DEF CaptureInv

LEMMA CaptureInitially == Command!CaptureAssumption /\ Command!Init => CaptureInv
<1> SUFFICES ASSUME Command!CaptureAssumption, Command!Init PROVE CaptureInv
  OBVIOUS
<1>1. Command!Fresh \in Capture /\ CaptureFlagsOK(Command!Fresh)
  BY DEF Command!Fresh, Capture, CaptureFlagsOK, Command!CaptureAssumption
<1>2. CASE Command!SpawnThrows
  <2> DEFINE c == [Command!Fresh EXCEPT !.failure = "transport", !.settled = TRUE]
  <2>1. c \in Capture /\ CaptureFlagsOK(c) /\ c.output = 0 /\ ~c.closed /\ ~c.escalated /\ ~c.terminating
    BY DEF Command!Fresh, Capture, CaptureFlagsOK
  <2> QED BY <1>2, <2>1, StartInv DEF Command!SpawnThrows
<1>3. CASE Command!SpawnErrs
  <2> DEFINE c == [Command!Fresh EXCEPT !.failure = "transport"]
  <2>1. /\ c \in Capture /\ CaptureFlagsOK(c) /\ c.output = 0
        /\ ~c.closed /\ ~c.escalated /\ ~c.terminating /\ ~c.settled
    BY DEF Command!Fresh, Capture, CaptureFlagsOK
  <2> QED BY <1>3, <2>1, StartInv DEF Command!SpawnErrs
<1>4. CASE Command!Spawned
  <2>1. /\ Command!Fresh.output = 0 /\ ~Command!Fresh.closed /\ ~Command!Fresh.escalated
        /\ ~Command!Fresh.terminating /\ ~Command!Fresh.settled
    BY DEF Command!Fresh
  <2> QED BY <1>1, <1>4, <2>1, StartInv DEF Command!Spawned
<1> QED BY <1>2, <1>3, <1>4 DEF Command!Init

------------------------------------------------------------------------------
\* The events and the timers

\* A capture that is terminated, for a failure or for a bad exit, as Terminated does it.
LEMMA TerminatedInv ==
    ASSUME CaptureInv, UNCHANGED Command!world, unread' \in Nat,
           call' \in Capture, call'.terminating,
           call'.closed = call.closed, call'.escalated = call.escalated,
           call.exited => call'.exited, call'.code # "none" => call'.exited,
           call'.settled => call.closed /\ alive \cap group = {},
           \/ call'.failure # "none"
           \/ /\ call'.code = "other" /\ call'.failure = call.failure
              /\ call'.output = call.output /\ call'.retained = call.retained,
           \/ call'.destroyed
           \/ /\ call'.output = call.output /\ unread' = unread
              /\ call'.destroyed = call.destroyed
    PROVE  CaptureInv'
<1>1. CaptureTypeOK'
  BY DEF CaptureInv, CaptureTypeOK, Command!world
<1>2. CaptureFlagsOK(call')
  BY DEF CaptureInv, CaptureFlagsOK
<1>3. OutputOK'
  BY DEF CaptureInv, OutputOK, Command!world
<1>4. GroupOK'
  BY DEF CaptureInv, GroupOK, Command!world
<1> QED BY <1>1, <1>2, <1>3, <1>4 DEF CaptureInv

LEMMA CountedFacts ==
    ASSUME NEW c \in Capture, Limit \in Nat
    PROVE  /\ Command!Counted(c) \in Capture /\ Command!Counted(c).output = c.output + 1
           /\ c.retained < Limit => Command!Counted(c).retained = c.retained + 1
           /\ Command!Counted(c).settled = c.settled /\ Command!Counted(c).terminating = c.terminating
           /\ Command!Counted(c).escalated = c.escalated /\ Command!Counted(c).closed = c.closed
           /\ Command!Counted(c).exited = c.exited /\ Command!Counted(c).code = c.code
           /\ Command!Counted(c).failure = c.failure /\ Command!Counted(c).destroyed = c.destroyed
           /\ Command!Counted(c).cleanupIncomplete = c.cleanupIncomplete
<1> DEFINE kept == IF c.retained < Limit THEN c.retained + 1 ELSE c.retained
<1>1. c.output + 1 \in Nat /\ kept \in Nat
  BY DEF Capture
<1>2. Command!Counted(c) = [c EXCEPT !.output = c.output + 1, !.retained = kept]
  BY DEF Command!Counted
<1>3. c.retained < Limit => kept = c.retained + 1
  OBVIOUS
<1> HIDE DEF kept
<1> QED BY <1>1, <1>2, <1>3 DEF Capture

LEMMA CollectInv == Command!CaptureAssumption /\ CaptureInv /\ Command!Collect => CaptureInv'
<1> SUFFICES ASSUME Command!CaptureAssumption, CaptureInv, Command!Collect PROVE CaptureInv'
  OBVIOUS
<1> DEFINE more == Command!Counted(call)
<1>1. call \in Capture /\ ~call.settled /\ unread \in Nat /\ unread > 0 /\ Limit \in Nat
  BY DEF CaptureInv, CaptureTypeOK, Command!Collect, Command!Becomes, Command!CaptureAssumption
<1>2. /\ more \in Capture /\ more.output = call.output + 1
      /\ call.retained < Limit => more.retained = call.retained + 1
      /\ more.settled = call.settled /\ more.terminating = call.terminating
      /\ more.escalated = call.escalated /\ more.closed = call.closed
      /\ more.exited = call.exited /\ more.code = call.code
      /\ more.failure = call.failure /\ more.destroyed = call.destroyed
      /\ more.cleanupIncomplete = call.cleanupIncomplete
  BY <1>1, CountedFacts
<1>3. UNCHANGED Command!world /\ call' = Command!Collected(call)
      /\ unread' = Command!Lost(Command!Collected(call), unread - 1)
  BY DEF Command!Collect, Command!Becomes
<1>4. CASE ~Command!Exceeds(more)
  <2>1. call' = more
    BY <1>3, <1>4 DEF Command!Collected
  <2>2. CaptureFlagsOK(more)
    BY <1>1, <1>2, <1>4 DEF CaptureInv, CaptureFlagsOK, Command!Exceeds, Capture
  <2>3. CaptureTypeOK'
    BY <1>1, <1>2, <1>3, <2>1 DEF CaptureInv, CaptureTypeOK, Command!world, Command!Lost
  <2>4. OutputOK'
    BY <1>1, <1>2, <1>3, <2>1 DEF CaptureInv, CaptureTypeOK, OutputOK, Command!world,
         Command!Lost, Capture
  <2>5. GroupOK'
    BY <1>1, <1>2, <1>3, <2>1 DEF CaptureInv, GroupOK, Command!world, Capture
  <2> QED BY <2>1, <2>2, <2>3, <2>4, <2>5 DEF CaptureInv
<1>5. CASE Command!Exceeds(more)
  <2> DEFINE over == [more EXCEPT !.overflowing = TRUE]
             t == Command!Terminated(Command!FailedBy(over, "overflow"))
  <2>1. /\ over \in Capture /\ over.settled = more.settled
        /\ over.terminating = more.terminating /\ over.escalated = more.escalated
        /\ over.closed = more.closed /\ over.exited = more.exited /\ over.code = more.code
    BY <1>2 DEF Capture
  <2> HIDE DEF over
  <2>2. over.escalated => over.terminating
    BY <1>2, <2>1 DEF CaptureInv, CaptureFlagsOK
  <2>3. /\ t \in Capture /\ t.failure # "none" /\ t.terminating
        /\ t.closed = over.closed /\ t.escalated = over.escalated /\ t.exited = over.exited
        /\ t.code = over.code
        /\ t.settled => over.closed /\ alive \cap group = {}
    BY <1>1, <1>2, <2>1, <2>2, GivenUpFacts
  <2>4. call' = [t EXCEPT !.destroyed = TRUE]
    BY <1>3, <1>5 DEF Command!Collected, over
  <2> HIDE DEF t
  <2>5. /\ call' \in Capture /\ call'.failure # "none" /\ call'.destroyed
        /\ call'.terminating /\ call'.closed = t.closed
        /\ call'.escalated = t.escalated /\ call'.exited = t.exited
        /\ call'.code = t.code /\ call'.settled = t.settled
    BY <2>3, <2>4 DEF Capture
  <2>6. unread' = 0
    BY <1>3, <2>5 DEF Command!Lost
  <2>7. /\ call'.closed = call.closed /\ call'.escalated = call.escalated
        /\ call'.exited = call.exited /\ call'.code = call.code
        /\ call'.settled => call.closed /\ alive \cap group = {}
    BY <1>2, <2>1, <2>3, <2>5
  <2>8. call.exited => call'.exited
    BY <2>7
  <2>9. call'.code # "none" => call'.exited
    BY <2>7 DEF CaptureInv, CaptureFlagsOK
  <2>10. unread' \in Nat
    BY <2>6
  <2> QED BY <1>3, <2>5, <2>7, <2>8, <2>9, <2>10, TerminatedInv
<1> QED BY <1>4, <1>5
LEMMA StreamErrorInv == CaptureInv /\ Command!StreamError => CaptureInv'
<1> SUFFICES ASSUME CaptureInv, Command!StreamError PROVE CaptureInv'
  OBVIOUS
<1> DEFINE t == Command!Terminated(Command!FailedBy(call, "stream"))
<1>1. PICK last \in BOOLEAN : /\ call' = [t EXCEPT !.destroyed = last]
                              /\ unread' = Command!Lost([t EXCEPT !.destroyed = last], unread)
  BY DEF Command!StreamError, Command!Becomes
<1>2. unread \in Nat /\ call.destroyed = FALSE /\ UNCHANGED Command!world
  BY DEF CaptureInv, CaptureTypeOK, Command!StreamError, Capture
<1>3. call \in Capture /\ ~call.settled /\ (call.escalated => call.terminating)
  BY DEF CaptureInv, CaptureTypeOK, CaptureFlagsOK, Command!StreamError, Command!Becomes
<1>4. /\ t \in Capture /\ t.failure # "none" /\ t.terminating
      /\ t.closed = call.closed /\ t.escalated = call.escalated
      /\ t.exited = call.exited /\ t.code = call.code /\ t.output = call.output
      /\ t.settled => call.closed /\ alive \cap group = {}
  BY <1>3, GivenUpFacts
<1> HIDE DEF t
<1>5. /\ call' \in Capture /\ call'.destroyed = last
      /\ call'.failure # "none" /\ call'.terminating
      /\ call'.closed = call.closed /\ call'.escalated = call.escalated
      /\ call'.exited = call.exited /\ call'.code = call.code
      /\ call'.output = call.output
      /\ call'.settled => call.closed /\ alive \cap group = {}
  BY <1>1, <1>4 DEF Capture
<1>6. unread' = IF last THEN 0 ELSE unread
  BY <1>1, <1>4 DEF Command!Lost, Capture
<1>7. \/ call'.destroyed
      \/ /\ call'.output = call.output /\ unread' = unread
         /\ call'.destroyed = call.destroyed
  BY <1>2, <1>5, <1>6
<1>8. unread' \in Nat /\ (call.exited => call'.exited)
  BY <1>2, <1>5, <1>6
<1>9. call'.code # "none" => call'.exited
  BY <1>5 DEF CaptureInv, CaptureFlagsOK
<1> QED BY <1>2, <1>5, <1>7, <1>8, <1>9, TerminatedInv

LEMMA DeadlineInv == CaptureInv /\ Command!Deadline => CaptureInv'
<1> SUFFICES ASSUME CaptureInv, Command!Deadline PROVE CaptureInv'
  OBVIOUS
<1>1. /\ call' = Command!Terminated(Command!FailedBy(call, "timeout"))
      /\ unread \in Nat /\ UNCHANGED <<Command!world, unread>>
  BY DEF CaptureInv, CaptureTypeOK, Command!Deadline, Command!Becomes
<1>2. call \in Capture /\ ~call.settled /\ (call.escalated => call.terminating)
  BY DEF CaptureInv, CaptureTypeOK, CaptureFlagsOK, Command!Deadline, Command!Becomes
<1>3. /\ call' \in Capture /\ call'.failure # "none" /\ call'.terminating
      /\ call'.closed = call.closed /\ call'.escalated = call.escalated
      /\ call'.exited = call.exited /\ call'.code = call.code
      /\ call'.output = call.output /\ call'.destroyed = call.destroyed
      /\ call'.settled => call.closed /\ alive \cap group = {}
  BY <1>1, <1>2, GivenUpFacts
<1>4. call.exited => call'.exited
  BY <1>3
<1>5. call'.code # "none" => call'.exited
  BY <1>3 DEF CaptureInv, CaptureFlagsOK
<1> QED BY <1>1, <1>3, <1>4, <1>5, TerminatedInv

LEMMA ExitInv == CaptureInv /\ Command!Exit => CaptureInv'
<1> SUFFICES ASSUME CaptureInv, Command!Exit PROVE CaptureInv'
  OBVIOUS
<1> DEFINE c == [call EXCEPT !.exited = TRUE, !.code = ending]
<1>1. /\ call \in Capture /\ ~call.settled /\ ending \in {"zero", "other"}
      /\ call.escalated => call.terminating /\ unread \in Nat
      /\ UNCHANGED <<Command!world, unread>> /\ call' = IF ending = "zero" THEN c ELSE Command!Terminated(c)
  BY DEF CaptureInv, CaptureTypeOK, CaptureFlagsOK, Command!Exit, Command!Becomes
<1>2. /\ c \in Capture /\ c.exited /\ c.code = ending
      /\ c.failure = call.failure /\ c.settled = call.settled
      /\ c.closed = call.closed /\ c.terminating = call.terminating
      /\ c.escalated = call.escalated /\ c.destroyed = call.destroyed
      /\ c.output = call.output /\ c.retained = call.retained
  BY <1>1 DEF Capture
<1>3. call.failure = "none" => ~call.terminating
  BY DEF CaptureInv, CaptureFlagsOK, Command!Exit
<1> HIDE DEF c
<1>4. CASE ending = "zero"
  <2>1. call' = c
    BY <1>1, <1>4
  <2>2. CaptureTypeOK'
    BY <1>1, <1>2, <2>1 DEF CaptureInv, CaptureTypeOK, Command!world
  <2>3. CaptureFlagsOK(call')
    BY <1>1, <1>2, <1>3, <2>1 DEF CaptureInv, CaptureFlagsOK
  <2>4. OutputOK'
    BY <1>1, <1>2, <2>1 DEF CaptureInv, OutputOK, Command!world
  <2>5. GroupOK'
    BY <1>1, <1>2, <2>1 DEF CaptureInv, GroupOK, Command!world
  <2> QED BY <2>2, <2>3, <2>4, <2>5 DEF CaptureInv
<1>5. CASE ending = "other"
  <2> DEFINE t == Command!Terminated(c)
  <2>1. /\ t \in Capture
        /\ t = [c EXCEPT !.terminating = TRUE, !.settled = t.settled]
        /\ t.settled => c.closed /\ alive \cap group = {}
    BY <1>1, <1>2, TerminatedFacts
  <2>2. call' = t
    BY <1>1, <1>5
  <2> HIDE DEF t
  <2>3. /\ t.terminating /\ t.closed = c.closed /\ t.escalated = c.escalated
        /\ t.exited = c.exited /\ t.code = c.code /\ t.failure = c.failure
        /\ t.output = c.output /\ t.retained = c.retained /\ t.destroyed = c.destroyed
    BY <1>2, <2>1 DEF Capture
  <2>4. /\ call' \in Capture /\ call'.terminating /\ call'.exited
        /\ call'.closed = call.closed /\ call'.escalated = call.escalated
        /\ call'.code = "other" /\ call'.failure = call.failure
        /\ call'.output = call.output /\ call'.retained = call.retained
        /\ call'.destroyed = call.destroyed
        /\ call'.settled => call.closed /\ alive \cap group = {}
    BY <1>2, <1>5, <2>1, <2>2, <2>3
  <2>5. unread' \in Nat /\ unread' = unread /\ UNCHANGED Command!world
    BY DEF CaptureInv, CaptureTypeOK, Command!Exit, Command!world
  <2> QED BY <2>4, <2>5, TerminatedInv
<1> QED BY <1>1, <1>4, <1>5
LEMMA CloseInv == CaptureInv /\ Command!Close => CaptureInv'
<1> SUFFICES ASSUME CaptureInv, Command!Close PROVE CaptureInv'
  OBVIOUS
<1> DEFINE c == [call EXCEPT !.closed = TRUE]
<1>1. /\ call \in Capture /\ ~call.settled /\ unread \in Nat
      /\ call.exited \/ Leader \notin forked
      /\ call.destroyed \/ (unread = 0 /\ alive \cap holders = {})
  BY DEF CaptureInv, CaptureTypeOK, Command!Close, Command!Becomes
<1>2. call' = Command!FinishIfClosed(c) /\ UNCHANGED <<Command!world, unread>>
  BY DEF Command!Close, Command!Becomes
<1>3. /\ c \in Capture /\ c.failure = call.failure /\ c.code = call.code
      /\ c.output = call.output /\ c.retained = call.retained
      /\ c.exited = call.exited /\ c.closed /\ ~c.settled
      /\ c.terminating = call.terminating /\ c.escalated = call.escalated
      /\ c.destroyed = call.destroyed
  BY <1>1 DEF Capture
<1> HIDE DEF c
<1>4. /\ call' \in Capture
      /\ call' = [c EXCEPT !.settled = call'.settled]
      /\ call'.settled => Command!MayFinish(c)
  BY <1>2, <1>3, FinishFacts
<1>5. /\ call'.failure = call.failure /\ call'.code = call.code
      /\ call'.output = call.output /\ call'.retained = call.retained
      /\ call'.exited = call.exited /\ call'.closed
      /\ call'.terminating = call.terminating /\ call'.escalated = call.escalated
      /\ call'.destroyed = call.destroyed
  BY <1>3, <1>4 DEF Capture
<1>6. call'.settled /\ call'.terminating =>
          call'.escalated \/ alive \cap group = {}
  BY <1>3, <1>4, <1>5 DEF Command!MayFinish, Command!GroupExists
<1>7. CaptureTypeOK'
  BY <1>2, <1>4 DEF CaptureInv, CaptureTypeOK, Command!world
<1>8. CaptureFlagsOK(call')
  BY <1>5 DEF CaptureInv, CaptureFlagsOK
<1>9. OutputOK'
  BY <1>1, <1>2, <1>5 DEF CaptureInv, OutputOK, Command!world
<1>10. GroupOK'
  BY <1>1, <1>2, <1>5, <1>6 DEF CaptureInv, GroupOK, Command!world
<1> QED BY <1>7, <1>8, <1>9, <1>10 DEF CaptureInv

LEMMA EscalationInv == CaptureInv /\ Command!Escalation => CaptureInv'
<1> SUFFICES ASSUME CaptureInv, Command!Escalation PROVE CaptureInv'
  OBVIOUS
<1> DEFINE c == [call EXCEPT !.escalated = TRUE]
<1>1. call \in Capture /\ ~call.settled /\ call.terminating
  BY DEF CaptureInv, CaptureTypeOK, Command!Escalation, Command!Becomes
<1>2. /\ call' = Command!FinishIfClosed(c) /\ doomed' = doomed \cup (alive \cap group)
      /\ UNCHANGED <<forked, alive, group, holders, ending, written, unread>>
  BY DEF Command!Escalation, Command!Becomes, Command!KillGroup
<1>3. /\ c \in Capture /\ c.failure = call.failure /\ c.code = call.code
      /\ c.output = call.output /\ c.retained = call.retained
      /\ c.exited = call.exited /\ c.closed = call.closed /\ ~c.settled
      /\ c.terminating = call.terminating /\ c.destroyed = call.destroyed
  BY <1>1 DEF Capture
<1> HIDE DEF c
<1>4. /\ call' \in Capture
      /\ call' = [c EXCEPT !.settled = call'.settled]
      /\ call'.settled => Command!MayFinish(c)
  BY <1>2, <1>3, FinishFacts
<1>5. /\ call'.failure = call.failure /\ call'.code = call.code
      /\ call'.output = call.output /\ call'.retained = call.retained
      /\ call'.exited = call.exited /\ call'.closed = call.closed
      /\ call'.terminating = call.terminating
      /\ call'.destroyed = call.destroyed
  BY <1>3, <1>4 DEF Capture
<1>6. call'.settled => call'.closed
  BY <1>3, <1>4, <1>5 DEF Command!MayFinish
<1>7. CaptureTypeOK'
  BY <1>2, <1>4 DEF CaptureInv, CaptureTypeOK
<1>8. CaptureFlagsOK(call')
  BY <1>1, <1>5, <1>6 DEF CaptureInv, CaptureFlagsOK
<1>9. OutputOK'
  BY <1>2, <1>5 DEF CaptureInv, OutputOK
<1>10. GroupOK'
  BY <1>2, <1>5, <1>6 DEF CaptureInv, GroupOK
<1> QED BY <1>7, <1>8, <1>9, <1>10 DEF CaptureInv

LEMMA ReapDeadlineInv == CaptureInv /\ Command!ReapDeadline => CaptureInv'
<1> SUFFICES ASSUME CaptureInv, Command!ReapDeadline PROVE CaptureInv'
  OBVIOUS
<1> DEFINE c == [call EXCEPT !.reaped = TRUE, !.destroyed = TRUE]
           failed == Command!FailedBy(c, "unconfirmed")
<1>1. /\ call \in Capture /\ ~call.settled /\ call.escalated /\ call.terminating
      /\ doomed' = doomed \cup (alive \cap group) /\ unread' = 0
      /\ UNCHANGED <<forked, alive, group, holders, ending, written>>
  BY DEF CaptureInv, CaptureTypeOK, CaptureFlagsOK, Command!ReapDeadline, Command!Becomes,
       Command!KillGroup
<1>2. call' = IF c.exited THEN c
                 ELSE [failed EXCEPT !.cleanupIncomplete = TRUE, !.settled = TRUE]
  BY DEF Command!ReapDeadline, Command!Becomes
<1>3. /\ c \in Capture /\ c.failure = call.failure /\ c.code = call.code
      /\ c.output = call.output /\ c.retained = call.retained
      /\ c.exited = call.exited /\ c.closed = call.closed /\ ~c.settled
      /\ c.terminating /\ c.escalated /\ c.destroyed
  BY <1>1 DEF Capture
<1>4. /\ failed \in Capture /\ failed.failure # "none"
      /\ failed = [c EXCEPT !.failure = failed.failure]
  BY <1>3, FailedByFacts
<1> HIDE DEF c, failed
<1>5. /\ call' \in Capture /\ call'.code = c.code /\ call'.closed = c.closed
      /\ call'.exited = c.exited /\ call'.destroyed
      /\ call'.terminating /\ call'.escalated
  BY <1>2, <1>3, <1>4 DEF Capture
<1>6. \/ /\ call'.failure = c.failure /\ ~call'.settled
         /\ call'.output = c.output /\ call'.retained = c.retained
      \/ call'.failure # "none" /\ call'.cleanupIncomplete
  <2>1. CASE c.exited
    BY <1>2, <1>3, <2>1
  <2>2. CASE ~c.exited
    BY <1>2, <1>4, <2>2 DEF Capture
  <2> QED BY <2>1, <2>2
<1>7. CaptureTypeOK'
  BY <1>1, <1>5 DEF CaptureInv, CaptureTypeOK
<1>8. CaptureFlagsOK(call')
  BY <1>1, <1>3, <1>5, <1>6 DEF CaptureInv, CaptureFlagsOK
<1>9. OutputOK'
  BY <1>5 DEF OutputOK
<1>10. GroupOK'
  <2>1. alive' \cap group' \subseteq doomed'
    BY <1>1
  <2>2. call'.closed => call'.exited \/ Leader \notin forked'
    BY <1>1, <1>3, <1>5 DEF CaptureInv, GroupOK
  <2>3. call'.settled => call'.exited \/ call'.cleanupIncomplete
    <3>1. CASE call'.failure = c.failure /\ ~call'.settled
      BY <3>1
    <3>2. CASE call'.failure # "none" /\ call'.cleanupIncomplete
      BY <3>2
    <3> QED BY <1>6, <3>1, <3>2
  <2> QED BY <2>1, <2>2, <2>3 DEF GroupOK
<1> QED BY <1>7, <1>8, <1>9, <1>10 DEF CaptureInv

------------------------------------------------------------------------------
\* The processes

\* A process that is doomed has no more children, so nobody joins a group that was killed.
LEMMA ForkInv == ASSUME NEW p \in Process, CaptureInv, Command!Fork(p) PROVE CaptureInv'
<1>1. PICK q \in Process \ forked :
         /\ forked' = forked \cup {q} /\ alive' = alive \cup {q}
         /\ group' = Command!With(group, p, q) /\ holders' = Command!With(holders, p, q)
  BY DEF Command!Fork
<1>2. p \in alive \ doomed /\ UNCHANGED <<doomed, ending, written, unread, call>>
  BY DEF Command!Fork
<1>3. /\ alive \subseteq forked /\ group \subseteq forked /\ holders \subseteq forked
      /\ Leader \in forked
  BY <1>2 DEF CaptureInv, CaptureTypeOK
<1>4. CaptureTypeOK'
  BY <1>1, <1>2, <1>3 DEF CaptureInv, CaptureTypeOK, Command!With
<1>5. OutputOK'
  BY <1>1, <1>2, <1>3 DEF CaptureInv, OutputOK, Command!With
<1>6. GroupOK'
  <2>1. alive \cap group \subseteq doomed => alive' \cap group' \subseteq doomed'
    BY <1>1, <1>2, <1>3 DEF Command!With
  <2>2. Leader \in forked'
    BY <1>1, <1>3
  <2> QED BY <1>2, <1>3, <2>1, <2>2 DEF CaptureInv, GroupOK
<1> QED BY <1>2, <1>4, <1>5, <1>6 DEF CaptureInv

LEMMA LeaveInv == ASSUME NEW p \in Process, CaptureInv, Command!Leave(p) PROVE CaptureInv'
<1>1. /\ group' \subseteq group /\ holders' \subseteq holders
      /\ UNCHANGED <<forked, alive, doomed, ending, written, unread, call>>
  BY DEF Command!Leave
<1> QED BY <1>1 DEF CaptureInv, CaptureTypeOK, OutputOK, GroupOK

LEMMA WriteInv == ASSUME NEW p \in Process, CaptureInv, Command!Write(p) PROVE CaptureInv'
<1>1. /\ p \in alive \cap holders /\ ~call.destroyed
      /\ written' = written + 1 /\ unread' = unread + 1
      /\ UNCHANGED <<forked, alive, group, holders, doomed, ending, call>>
  BY DEF Command!Write
<1>2. CaptureTypeOK'
  BY <1>1 DEF CaptureInv, CaptureTypeOK
<1>3. OutputOK'
  <2>1. written \in Nat /\ unread \in Nat /\ call.output \in Nat
    BY DEF CaptureInv, CaptureTypeOK, Capture
  <2>2. written = call.output + unread /\ ~call.closed
    BY <1>1 DEF CaptureInv, OutputOK
  <2>3. written' = call.output + unread'
    BY <1>1, <2>1, <2>2
  <2> QED BY <1>1, <2>2, <2>3 DEF OutputOK
<1>4. GroupOK'
  BY <1>1 DEF CaptureInv, GroupOK
<1> QED BY <1>1, <1>2, <1>3, <1>4 DEF CaptureInv

LEMMA EndOfOneInv == ASSUME NEW p \in Process, CaptureInv, Command!End(p) PROVE CaptureInv'
<1>1. /\ alive' \subseteq alive /\ ending' \in {"zero", "other", ending}
      /\ UNCHANGED <<forked, group, holders, doomed, written, unread, call>>
  BY DEF Command!End
<1> QED BY <1>1 DEF CaptureInv, CaptureTypeOK, OutputOK, GroupOK

------------------------------------------------------------------------------

LEMMA CaptureStep ==
    Command!CaptureAssumption /\ CaptureInv /\ [Command!Next]_(Command!vars) => CaptureInv'
<1> SUFFICES ASSUME Command!CaptureAssumption, CaptureInv, [Command!Next]_(Command!vars)
             PROVE  CaptureInv'
  OBVIOUS
<1>1. CASE Command!Event
  BY <1>1, CollectInv, ExitInv, CloseInv, DeadlineInv, EscalationInv,
       ReapDeadlineInv DEF Command!Event
<1>2. CASE Command!StreamError
  BY <1>2, StreamErrorInv
<1>3. CASE \E p \in Process : Command!Fork(p) \/ Command!Leave(p)
                               \/ Command!Write(p) \/ Command!End(p)
  BY <1>3, ForkInv, LeaveInv, WriteInv, EndOfOneInv
<1>4. CASE UNCHANGED Command!vars
  BY <1>4 DEF CaptureInv, CaptureTypeOK, OutputOK, GroupOK, Command!vars, Command!world
<1> QED BY <1>1, <1>2, <1>3, <1>4 DEF Command!Next

\* Without failure and with code zero nothing was terminated, so nothing was destroyed.
LEMMA PromiseHolds == CaptureInv => Command!SuccessIsWhole /\ Command!NothingSurvives
<1> SUFFICES ASSUME CaptureInv PROVE Command!SuccessIsWhole /\ Command!NothingSurvives
  OBVIOUS
<1>1. Command!SuccessIsWhole
  <2> SUFFICES ASSUME call.settled, call.failure = "none", call.code = "zero"
               PROVE  call.retained = written /\ alive \cap holders = {}
    BY DEF Command!SuccessIsWhole
  <2>1. call.retained = call.output /\ ~call.destroyed /\ call.closed
    BY DEF CaptureInv, CaptureFlagsOK
  <2>2. written = call.output + unread /\ unread = 0 /\ alive \cap holders = {}
    BY <2>1 DEF CaptureInv, OutputOK
  <2>3. call.output \in Nat
    BY DEF CaptureInv, CaptureTypeOK, Capture
  <2> QED BY <2>1, <2>2, <2>3
<1>2. Command!NothingSurvives
  BY DEF CaptureInv, GroupOK, Command!NothingSurvives
<1> QED BY <1>1, <1>2

\* Whatever the processes do and in whatever order their events and the timers come, a
\* success is whole and nothing survives a command that was given up.
THEOREM CapturesAreSound == PartsSpec => []CaptureIsSound
<1>1. PartsInit => Command!Init
  BY DEF PartsInit, Command!Init
<1>2. [PartsNext]_partVars => [Command!Next]_(Command!vars)
  BY DEF PartsNext, InSandbox, InCommand, partVars, commandVars, Command!vars, Command!world
<1>3. Command!Init => CaptureInv
  BY CaptureInitially, AssumptionOfTheCommand
<1>4. CaptureInv /\ [Command!Next]_(Command!vars) => CaptureInv'
  BY CaptureStep, AssumptionOfTheCommand
<1>5. CaptureInv => CaptureIsSound
  BY PromiseHolds DEF CaptureIsSound, Command!CaptureIsSound
<1> QED BY <1>1, <1>2, <1>3, <1>4, <1>5, PTL DEF PartsSpec

==============================================================================
