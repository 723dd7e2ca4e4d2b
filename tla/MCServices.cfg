\* release: two jobs, two releases and a commit of somebody else
CONSTANTS
    Job = {j1, j2}
    Source = {s}
    Absent = absent
    MaxCommits = 2
    MaxPulls = 2
    MaxOthers = 1
    MaxFaults = 1
    Blob = {a, b, c}
    CommitRecord = record
    Workers = 2
    MaxRetries = 1
SPECIFICATION PartsSpec
INVARIANTS
    VersionMergedOnce
    DeletesOnlyMerged
    CommitLast
PROPERTIES
    MergedIsTagged
    OverwritesOnlyObserved
    RecoveryEnds
    CreatesOnce
\* the bounds on commits and faults end the run, and so does a command
CHECK_DEADLOCK FALSE
