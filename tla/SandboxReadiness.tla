--------------------------- MODULE SandboxReadiness ---------------------------
(* The readiness phase of a sandbox run in detail: waitForReadiness polls every *)
(* probe in cycles, under a deadline of its own and the abort of the run. The    *)
(* rest of the run is Sandbox, which this module implements.                     *)
EXTENDS Sandbox

CONSTANTS
    Probe,      \* of the plan
    Service,    \* those that ask Compose for the state of a service
    Shadowed    \* those whose description a later one has: they are never looked at

ASSUME ReadinessAssumption == Service \subseteq Probe /\ Shadowed \subseteq Probe

VARIABLES
    poll,       \* what the loop waits for: wait, snapshot or checks
    ready,      \* probes that are done
    due,        \* probes whose nextAt has come
    checking,   \* checks of this cycle that have not settled
    passing,    \* checks of this cycle that succeeded
    fatal,      \* probes with an error that no retry can mend
    late        \* readinessMs have passed

polling == <<poll, ready, due, checking, passing, fatal, late>>
allVars == <<vars, polling>>

\* probeStatus has one entry for each description.
Watched == Probe \ Shadowed
Pending == Watched \ ready

InitPolling ==
    /\ poll = "wait" /\ ready = {} /\ due = Watched
    /\ checking = {} /\ passing = {} /\ fatal = {} /\ late = FALSE

\* waitForReadiness returns, and its variables are gone.
Forget ==
    /\ poll' = "wait" /\ ready' = {} /\ due' = Watched
    /\ checking' = {} /\ passing' = {} /\ fatal' = {} /\ late' = FALSE

DetailedInit == Init /\ InitPolling

InReadiness(step) == pc = "readiness" /\ poll = step

------------------------------------------------------------------------------

\* The interval of a probe has passed.
BecomesDue(p) ==
    /\ InReadiness("wait") /\ p \in Pending \ due
    /\ due' = due \cup {p}
    /\ UNCHANGED <<vars, poll, ready, checking, passing, fatal, late>>

ReadinessDeadline ==
    /\ pc = "readiness" /\ ~late /\ late' = TRUE
    /\ UNCHANGED <<vars, poll, ready, due, checking, passing, fatal>>

Check == poll' = "checks" /\ checking' = due /\ passing' = {}

\* A cycle looks at the probes that are due; one listing of Compose serves them all.
Cycle ==
    /\ InReadiness("wait") /\ ~main /\ ~late /\ due # {}
    /\ IF due \cap Service # {} THEN poll' = "snapshot" /\ UNCHANGED <<checking, passing>>
       ELSE Check
    /\ UNCHANGED <<vars, ready, due, fatal, late>>

\* A listing that fails or comes too late is none; each service is then asked for itself.
Snapshot ==
    /\ InReadiness("snapshot") /\ ~main /\ Check
    /\ UNCHANGED <<vars, ready, due, fatal, late>>

\* A connection, a request or a command that fails is not ready yet.
ProbeVerdicts == {"ready", "not yet"}

\* A service that is dead, that ended with an error or that does not exist is fatal.
ServiceVerdicts == ProbeVerdicts \cup {"fatal"}

\* One check settles, at the latest when its budget, which ends with the phase, is used up.
CheckSettles(p) ==
    /\ InReadiness("checks") /\ p \in checking
    /\ checking' = checking \ {p}
    /\ \E verdict \in IF p \in Service THEN ServiceVerdicts ELSE ProbeVerdicts :
         /\ late => verdict = "not yet"
         /\ passing' = IF verdict = "ready" THEN passing \cup {p} ELSE passing
         /\ fatal' = IF verdict = "fatal" THEN fatal \cup {p} ELSE fatal
    /\ UNCHANGED <<vars, poll, ready, due, late>>

\* What passed is done, the rest waits for its interval.
NextCycle ==
    /\ InReadiness("checks") /\ checking = {} /\ fatal = {}
    /\ poll' = "wait" /\ ready' = ready \cup passing /\ due' = {} /\ passing' = {}
    /\ UNCHANGED <<vars, checking, fatal, late>>

\* Fault for TestsNeedReadiness: the loop ends at the deadline as it ends with success.
Satisfied_AtDeadline == ready = Watched \/ late

Satisfied == ready = Watched

\* Fault for ImplementsRun: the abort is looked at before a cycle only.
Undisturbed_Cycle == TRUE

Undisturbed == ~main

\* The loop ends when every probe is done or its time is over; what is done then counts.
AllReady ==
    /\ InReadiness("wait") /\ Undisturbed /\ Satisfied
    /\ Run("test") /\ Forget
    /\ UNCHANGED <<lingering, aborts, progress, errors, containers, result>>

\* The abort is noticed wherever the loop waits; a fatal probe ends it with its cycle.
NotReady ==
    /\ pc = "readiness"
    /\ \/ main
       \/ poll = "wait" /\ late /\ ~Satisfied
       \/ poll = "checks" /\ checking = {} /\ fatal # {}
    /\ PhaseFails("readiness") /\ Forget

------------------------------------------------------------------------------

Poll ==
    \/ Cycle \/ Snapshot \/ NextCycle
    \/ \E p \in Watched : CheckSettles(p) \/ BecomesDue(p)

\* Step of Sandbox, with Readiness replaced by its detail
DetailedStep ==
    \/ /\ \/ Prepare \/ Preflight \/ PreflightDeadline \/ Start \/ Test
          \/ MakeDirectory \/ Ps \/ Logs \/ Down \/ Remove \/ WriteManifest
       /\ UNCHANGED polling
    \/ AllReady \/ NotReady

Environment ==
    /\ \/ Exit \/ Release \/ ChildDeadline \/ LingererEnds
       \/ Signal \/ TotalDeadline \/ EmergencyDeadline
    /\ UNCHANGED polling

DetailedNext == DetailedStep \/ Poll \/ ReadinessDeadline \/ Environment

\* The deadline comes, so do the intervals, and a check ends with its budget.
DetailedSpec ==
    /\ DetailedInit /\ [][DetailedNext]_allVars
    /\ WF_allVars(DetailedStep) /\ WF_allVars(ReadinessDeadline) /\ WF_allVars(Poll)
    /\ WF_allVars(ChildDeadline /\ UNCHANGED polling)
    /\ WF_allVars(child.state = "told" /\ Exit /\ UNCHANGED polling)

------------------------------------------------------------------------------

\* Polling changes nothing of the run but by starting the tests or failing the phase: the
\* detailed run is one of Sandbox, whatever the probes do.
ImplementsRun == Spec

\* The tests start only when every probe that is looked at has passed and none was fatal; the
\* deadline alone never starts them (readiness.ts:766-801).
TestsNeedReadiness ==
    [][pc = "readiness" /\ pc' = "test" =>
        Watched \subseteq ready /\ fatal = {}]_allVars

==============================================================================
