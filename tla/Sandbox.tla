-------------------------------- MODULE Sandbox --------------------------------
(* One run of compose-sandbox: runLifecycle with the handlers runComposeSandbox  *)
(* gives it, the process that a phase waits for, the signals and deadlines that  *)
(* abort the phase, evidence and cleanup, and what is reported in the end.       *)
EXTENDS Naturals

CONSTANT MaxSignals   \* bound on SIGINT and SIGTERM

ASSUME SandboxAssumption == MaxSignals \in Nat

VARIABLES
    pc,               \* what the run waits for
    child,            \* the process of that step
    lingering,        \* preflight gave up waiting for its process
    main, fresh,      \* aborted: the controller of the phases, of evidence or cleanup
    total,            \* the timer of totalMs is set
    signals,          \* received; signalReceived is set when there was one
    listening,        \* the signal handlers are installed
    capture,          \* evidence.capture
    started, cleanupAttempted,
    primary, secondary,  \* the phases of the two errors
    failedPhase,      \* failedPhaseRef
    evidenceFails,    \* ps failed in this collection
    containers,       \* of the project: some may exist
    passed,           \* the tests passed
    result

process == <<child, lingering>>
aborts == <<main, fresh, total, signals, listening>>
progress == <<started, cleanupAttempted, passed, capture>>
errors == <<primary, secondary, failedPhase, evidenceFails>>
vars == <<pc, process, aborts, progress, errors, containers, result>>

Phase == {"prepare", "preflight", "start", "readiness", "test", "evidence", "cleanup"}
Evidence == {"mkdir", "ps", "savePs", "logs", "saveLogs"}
Emergency == Evidence \cup {"down", "remove"}
Steps == (Phase \ {"evidence", "cleanup"}) \cup Emergency \cup {"manifest", "done"}

\* "told": it was sent SIGTERM, and SIGKILL follows; "exited": it awaits close, which a
\* descendant that holds its output delays.
Off == [state |-> "off", ok |-> FALSE, timedOut |-> FALSE, held |-> FALSE]
Running == [Off EXCEPT !.state = "running"]

NoResult == [outcome |-> "none", phase |-> "none"]

Child == [state : {"off", "running", "told", "exited"},
          ok : BOOLEAN, timedOut : BOOLEAN, held : BOOLEAN]
Result == {NoResult} \cup [outcome : {"success", "failure"}, phase : Phase]

\* The types of the variables.
TypeOK ==
    /\ pc \in Steps /\ child \in Child /\ result \in Result /\ signals \in 0..MaxSignals
    /\ lingering \in BOOLEAN /\ main \in BOOLEAN /\ fresh \in BOOLEAN /\ total \in BOOLEAN
    /\ listening \in BOOLEAN /\ started \in BOOLEAN /\ cleanupAttempted \in BOOLEAN
    /\ evidenceFails \in BOOLEAN /\ containers \in BOOLEAN /\ passed \in BOOLEAN
    /\ capture \in {"always", "onFailure"}
    /\ primary \in Phase \cup {"none"} /\ secondary \in Phase \cup {"none"}
    /\ failedPhase \in Phase \cup {"none"}

Init ==
    /\ pc = "prepare" /\ child = Off /\ lingering = FALSE
    /\ main = FALSE /\ fresh = FALSE /\ total \in BOOLEAN
    /\ signals = 0 /\ listening = TRUE
    /\ started = FALSE /\ cleanupAttempted = FALSE /\ passed = FALSE
    /\ capture \in {"always", "onFailure"}
    /\ primary = "none" /\ secondary = "none" /\ failedPhase = "none"
    /\ evidenceFails = FALSE /\ containers = FALSE /\ result = NoResult

------------------------------------------------------------------------------
\* runProcess

\* Fault for RunEnds: the deadline of a process does not end it.
Terminated_Noted(c) == c

\* terminate: a process that has exited is left alone, and so are its descendants.
Terminated(c) == [c EXCEPT !.state = IF c.state = "running" THEN "told" ELSE c.state]

\* Up and down do to the containers what they do, in part if they fail.
ContainersAfter(ok) ==
    CASE pc = "start" -> IF ok THEN {TRUE} ELSE BOOLEAN
      [] pc = "down" -> IF ok THEN {FALSE} ELSE {containers, FALSE}
      [] OTHER -> {containers}

Exited(c, ok, held) == [c EXCEPT !.state = "exited", !.ok = ok, !.held = held]
Expired(c) == [Terminated(c) EXCEPT !.timedOut = TRUE]
Released(c) == [c EXCEPT !.held = FALSE]

\* The process exits by itself or by a signal; the tests have no pipe to be held.
Exit ==
    /\ child.state \in {"running", "told"}
    /\ \E ok \in BOOLEAN, held \in BOOLEAN :
         /\ held => pc # "test"
         /\ child' = Exited(child, ok, held)
         /\ containers' \in ContainersAfter(ok)
    /\ UNCHANGED <<pc, lingering, aborts, progress, errors, result>>

Release ==
    /\ child.held
    /\ child' = Released(child)
    /\ UNCHANGED <<pc, lingering, aborts, progress, errors, containers, result>>

\* timeoutMs, which counts against a process that has exited as well
ChildDeadline ==
    /\ child.state # "off" /\ ~child.timedOut
    /\ child' = Expired(child)
    /\ UNCHANGED <<pc, lingering, aborts, progress, errors, containers, result>>

Closed(step) == pc = step /\ child.state = "exited" /\ ~child.held

\* Fault for LeakIsReported: the exit code is not looked at.
Failed_NoExitCode == child.timedOut \/ (IF pc \in Emergency THEN fresh ELSE main)

\* A result is a failure if the phase was aborted, on a timeout or by its exit code.
Failed == ~child.ok \/ child.timedOut \/ (IF pc \in Emergency THEN fresh ELSE main)

\* The process that preflight gave up on ends, and its handler notes the failure.
LingererEnds ==
    /\ lingering /\ lingering' = FALSE
    /\ failedPhase' = IF failedPhase = "none" THEN "preflight" ELSE failedPhase
    /\ UNCHANGED <<pc, child, aborts, progress, primary, secondary, evidenceFails,
                   containers, result>>

------------------------------------------------------------------------------
\* Signals and deadlines of the run

AbortAll == main' = TRUE /\ fresh' = (fresh \/ pc \in Emergency) /\ child' = Terminated(child)

Signal ==
    /\ listening /\ signals < MaxSignals
    /\ signals' = signals + 1 /\ AbortAll
    /\ UNCHANGED <<pc, lingering, total, listening, progress, errors, containers, result>>

TotalDeadline ==
    /\ total /\ total' = FALSE /\ AbortAll
    /\ UNCHANGED <<pc, lingering, signals, listening, progress, errors, containers, result>>

EmergencyDeadline ==
    /\ pc \in Emergency /\ ~fresh
    /\ fresh' = TRUE /\ child' = Terminated(child)
    /\ UNCHANGED <<pc, lingering, main, total, signals, listening, progress, errors,
                   containers, result>>

------------------------------------------------------------------------------
\* How the parts of the run follow one another

Await(step) == pc' = step /\ child' = Off
Run(step) == pc' = step /\ child' = Running

\* The first error is the primary one, the second the secondary, others are lost.
Record(phase, failed) ==
    /\ primary' = IF failed /\ primary = "none" THEN phase ELSE primary
    /\ secondary' = IF failed /\ primary # "none" /\ secondary = "none" THEN phase ELSE secondary
    /\ failedPhase' = IF failed /\ failedPhase = "none" THEN phase ELSE failedPhase

\* A fresh controller for evidence, whose budget starts anew
Collect == Await("mkdir") /\ fresh' = FALSE /\ evidenceFails' = FALSE

\* lifecyclePhase: ComposeSandboxLifecycleError, thrown if there are two errors, has the
\* phase of the primary one; otherwise it is the first phase that failed, or the last.
Reported ==
    IF primary' = "none" THEN "cleanup"
    ELSE IF secondary' # "none" THEN primary'
    ELSE IF failedPhase' # "none" THEN failedPhase'
    ELSE IF started THEN "cleanup" ELSE "evidence"

\* The handlers are removed and the timers cleared.
Leave ==
    /\ Await("manifest") /\ listening' = FALSE /\ total' = FALSE
    /\ result' = [outcome |-> IF primary' = "none" THEN "success" ELSE "failure",
                  phase |-> Reported]
    /\ UNCHANGED <<fresh, cleanupAttempted>>

\* attemptCleanupWithFresh, and the end of the run if there is nothing to clean up
Teardown ==
    IF started /\ ~cleanupAttempted
    THEN /\ Run("down") /\ fresh' = FALSE /\ cleanupAttempted' = TRUE
         /\ UNCHANGED <<listening, total, result>>
    ELSE Leave

\* An error in one of the phases before evidence: to the catch block.
PhaseFails(phase) ==
    /\ Record(phase, TRUE) /\ Collect
    /\ UNCHANGED <<lingering, main, total, signals, listening, progress, containers, result>>

------------------------------------------------------------------------------
\* The phases

Prepare ==
    /\ pc = "prepare"
    /\ \/ /\ ~main /\ Run("preflight")
          /\ UNCHANGED <<lingering, aborts, progress, errors, containers, result>>
       \/ PhaseFails("prepare")

\* started is set before up runs.
Preflight ==
    /\ Closed("preflight")
    /\ \/ /\ ~Failed /\ Run("start") /\ started' = TRUE
          /\ UNCHANGED <<lingering, aborts, cleanupAttempted, passed, capture, errors,
                         containers, result>>
       \/ Failed /\ PhaseFails("preflight")

\* The deadline wins the race with the handler, which is left to itself.
PreflightDeadline ==
    /\ pc = "preflight"
    /\ main' = TRUE /\ lingering' = TRUE /\ primary' = "preflight" /\ Collect
    /\ UNCHANGED <<total, signals, listening, progress, secondary, failedPhase, containers,
                   result>>

Start ==
    /\ Closed("start")
    /\ \/ /\ ~Failed /\ Await("readiness")
          /\ UNCHANGED <<lingering, aborts, progress, errors, containers, result>>
       \/ Failed /\ PhaseFails("start")

\* waitForReadiness races every probe with the abort and with its deadline.
Readiness ==
    /\ pc = "readiness"
    /\ \/ /\ ~main /\ Run("test")
          /\ UNCHANGED <<lingering, aborts, progress, errors, containers, result>>
       \/ PhaseFails("readiness")

\* Without an error, capture "onFailure" goes on to cleanup at once.
Test ==
    /\ Closed("test")
    /\ \/ /\ ~Failed /\ passed' = TRUE
          /\ \/ /\ capture = "always" /\ Collect
                /\ UNCHANGED <<total, listening, cleanupAttempted, result>>
             \/ capture = "onFailure" /\ Teardown /\ UNCHANGED evidenceFails
          /\ UNCHANGED <<lingering, main, signals, started, capture, primary, secondary,
                         failedPhase, containers>>
       \/ Failed /\ PhaseFails("test")

------------------------------------------------------------------------------
\* collectEvidence and what follows it

\* A signal that evidence did not notice makes the run a failure.
EvidenceEnds(failed) ==
    /\ primary' = IF primary = "none" /\ (failed \/ signals > 0) THEN "evidence" ELSE primary
    /\ secondary' = IF primary # "none" /\ failed /\ secondary = "none" THEN "evidence"
                    ELSE secondary
    /\ failedPhase' = IF failed /\ failedPhase = "none" THEN "evidence" ELSE failedPhase
    /\ Teardown
    /\ UNCHANGED <<lingering, main, signals, started, passed, capture, evidenceFails, containers>>

\* runCompose throws before it spawns if it is aborted already.
RunLogs(psFailed) ==
    \/ /\ ~fresh /\ Run("logs") /\ evidenceFails' = psFailed
       /\ UNCHANGED <<lingering, aborts, progress, primary, secondary, failedPhase, containers,
                      result>>
    \/ fresh /\ EvidenceEnds(TRUE)

MakeDirectory ==
    /\ pc = "mkdir"
    /\ \/ /\ ~fresh /\ Run("ps")
          /\ UNCHANGED <<lingering, aborts, progress, errors, containers, result>>
       \/ EvidenceEnds(TRUE)

\* Both are attempted, and each output is written to its file.
Ps ==
    \/ /\ Closed("ps") /\ ~Failed /\ Await("savePs")
       /\ UNCHANGED <<lingering, aborts, progress, errors, containers, result>>
    \/ Closed("ps") /\ Failed /\ RunLogs(TRUE)
    \/ pc = "savePs" /\ \E failed \in BOOLEAN : RunLogs(failed)

Logs ==
    \/ /\ Closed("logs") /\ ~Failed /\ Await("saveLogs")
       /\ UNCHANGED <<lingering, aborts, progress, errors, containers, result>>
    \/ Closed("logs") /\ Failed /\ EvidenceEnds(TRUE)
    \/ pc = "saveLogs" /\ \E failed \in BOOLEAN : EvidenceEnds(failed \/ evidenceFails)

------------------------------------------------------------------------------
\* performCleanup and what follows it

\* Fault for EvidenceFirst: a failure of cleanup goes to the catch block as well.
LateSignal_OrError(failed) == primary = "none" /\ (signals > 0 \/ failed)

\* All went well but for a signal, which is thrown inside the try block.
LateSignal(failed) == primary = "none" /\ signals > 0 /\ ~failed

\* The handlers and timers are gone when the evidence of a late signal is collected.
CleanupEnds(failed) ==
    /\ \/ /\ LateSignal(failed)
          /\ primary' = "cleanup" /\ UNCHANGED <<secondary, failedPhase>>
          /\ Collect /\ listening' = FALSE /\ total' = FALSE
          /\ UNCHANGED <<cleanupAttempted, result>>
       \/ ~LateSignal(failed) /\ Record("cleanup", failed) /\ Leave /\ UNCHANGED evidenceFails
    /\ UNCHANGED <<lingering, main, signals, started, passed, capture, containers>>

Down ==
    /\ Closed("down")
    /\ \/ /\ ~Failed /\ Await("remove")
          /\ UNCHANGED <<lingering, aborts, progress, errors, containers, result>>
       \/ Failed /\ CleanupEnds(TRUE)

\* The paths are removed without a look at the signal.
Remove == pc = "remove" /\ \E failed \in BOOLEAN : CleanupEnds(failed)

WriteManifest ==
    /\ pc = "manifest" /\ Await("done")
    /\ \/ UNCHANGED <<primary, secondary, result>>
       \/ /\ primary' = IF primary = "none" THEN "evidence" ELSE primary
          /\ secondary' = IF primary # "none" /\ secondary = "none" THEN "evidence" ELSE secondary
          /\ result' = IF primary = "none" THEN [outcome |-> "failure", phase |-> "evidence"]
                       ELSE result
    /\ UNCHANGED <<lingering, aborts, progress, failedPhase, evidenceFails, containers>>

------------------------------------------------------------------------------

\* What the run does when what it waits for has happened
Step == \/ Prepare \/ Preflight \/ PreflightDeadline \/ Start \/ Readiness \/ Test
        \/ MakeDirectory \/ Ps \/ Logs \/ Down \/ Remove \/ WriteManifest

Next == \/ Step \/ Exit \/ Release \/ ChildDeadline \/ LingererEnds
        \/ Signal \/ TotalDeadline \/ EmergencyDeadline

Spec == Init /\ [][Next]_vars

\* Timers fire, a process told to end is killed, and what the run awaits otherwise is a
\* call of the file system that returns.
Fairness == WF_vars(Step) /\ WF_vars(ChildDeadline) /\ WF_vars(child.state = "told" /\ Exit)

FairSpec == Spec /\ Fairness

------------------------------------------------------------------------------

\* Success is reported only of tests that passed, with the containers gone, and if no
\* signal came while the handlers were installed, however late (lifecycle.ts:358-377).
SuccessMeansAll ==
    pc = "done" /\ result.outcome = "success"
        => passed /\ ~containers /\ signals = 0 /\ primary = "none"

\* Containers that are left behind show in one of the two errors, unless evidence took the
\* place of the secondary one (lifecycle.ts:235-245); a run that never started has none.
LeakIsReported ==
    pc = "done" /\ containers =>
        /\ started /\ cleanupAttempted /\ result.outcome = "failure"
        /\ "cleanup" \in {primary, secondary} \/ secondary = "evidence"

\* Evidence is captured before teardown (README.md, Failure semantics), but for a second
\* collection if a signal came while the paths were removed after tests that passed.
EvidenceFirst ==
    cleanupAttempted /\ pc \in Evidence
        => passed /\ signals > 0 /\ primary = "cleanup" /\ ~listening

\* The phase of the result is that of the primary error, but for a signal that came while
\* evidence was written, reported as cleanup, and a preflight that timed out and whose
\* process outlives evidence, reported as evidence (run.ts:340-360).
PhaseIsOfPrimary ==
    pc = "done" /\ primary # "none" =>
        \/ result.phase = primary
        \/ primary = "evidence" /\ result.phase = "cleanup" /\ signals > 0
        \/ primary = "preflight" /\ result.phase = "evidence" /\ ~started

\* The primary error is never replaced (README.md, Failure semantics).
PrimaryStays == [][primary # "none" => primary' = primary]_vars

\* A run ends, unless a descendant of a Compose process holds its output for ever: close
\* does not come then, and no deadline helps (process.ts:189-194, 322).
RunEnds == <>[](pc = "done" \/ (child.held /\ pc \in {"start", "ps", "logs", "down"}))

==============================================================================
