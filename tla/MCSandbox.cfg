CONSTANTS
    MaxSignals = 2
    Probe = {db, job, web, hidden}
    Service = {db, job}
    Shadowed = {hidden}
    Process = {cmd, descendant, grandchild}
    Leader = cmd
    Limit = 1
    MaxOutput = 2
SPECIFICATION PartsSpec
INVARIANTS
    LeakIsReported
    EvidenceFirst
    CaptureIsSound
PROPERTIES
    TestsNeedReadiness
    ImplementsRun
    EachEnds
\* a run ends, and so does a command
CHECK_DEADLOCK FALSE
