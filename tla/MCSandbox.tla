------------------------------ MODULE MCSandbox ------------------------------
(* The supervision of child processes, in one run of two parts that share no    *)
(* state; a behaviour is of the part that `part` names:                         *)
(*  - sandbox: a run of compose-sandbox with two services, one other probe, and *)
(*    one that another of its name hides;                                       *)
(*  - command: a command of release-tag, its child and its grandchild.          *)
EXTENDS SandboxReadiness

CONSTANTS Process, Leader, Limit, MaxOutput

VARIABLES part, forked, alive, group, holders, doomed, ending, written, unread, call

sandboxVars == allVars
commandVars == <<forked, alive, group, holders, doomed, ending, written, unread, call>>
partVars == <<part, sandboxVars, commandVars>>

Command == INSTANCE ProcessCapture WITH capture <- call

ASSUME AssumptionOfTheCommand == Command!CaptureAssumption

\* The part that a behaviour is not of stays in one of its initial states.
PartsInit ==
    /\ DetailedInit
    /\ \/ part = "sandbox" /\ Command!SpawnThrows
       \/ part = "command" /\ Command!Init /\ total = FALSE /\ capture = "always"

InSandbox(A) == part = "sandbox" /\ A /\ UNCHANGED <<part, commandVars>>
InCommand(A) == part = "command" /\ A /\ UNCHANGED <<part, sandboxVars>>

PartsNext == InSandbox(DetailedNext) \/ InCommand(Command!Next)

\* The fairness of DetailedSpec and of ProcessCapture
PartsSpec ==
    /\ PartsInit /\ [][PartsNext]_partVars
    /\ WF_partVars(InSandbox(DetailedStep)) /\ WF_partVars(InSandbox(ReadinessDeadline))
    /\ WF_partVars(InSandbox(Poll))
    /\ WF_partVars(InSandbox(ChildDeadline /\ UNCHANGED polling))
    /\ WF_partVars(InSandbox(child.state = "told" /\ Exit /\ UNCHANGED polling))
    /\ WF_partVars(InCommand(Command!Event))

CaptureIsSound == Command!CaptureIsSound
\* A run of compose-sandbox ends (Sandbox), and so does a command (ProcessCapture).
EachEnds == (part = "sandbox" => RunEnds) /\ Command!ResultComes
==============================================================================
