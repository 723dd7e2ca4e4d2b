\* workstation: one edit and two interruptions, either of which may tear the journal; the user
\* may type what a pull is about to download
\* lock: two contenders over the file of a third that ended; liveness, so no symmetry
CONSTANTS
    fileA = fileA
    fileB = fileB
    main = main
    dev = dev
    m = m
    d = d
    Path = {fileA, fileB}
    Content = {m, d, t, f}
    Typed = {t, m}
    Foreign = {f}
    Absent = Absent
    Unknown = Unknown
    Unreadable = Unreadable
    Branch = {main, dev}
    FirstBranch = main
    FirstCommits <- Begun
    MaxCommits = 3
    MaxEdits = 1
    MaxFaults = 2
    TornAppends = TRUE
    Proc = {p1, p2, p3}
    Departed = {p3}
    NoFile = NoFile
    Unwritten = Unwritten
SPECIFICATION PartsSpec
INVARIANTS
    StateFollowsBranch
    NoCrossBranchLeak
    HoldsUnlessRaced
    StolenLockSurvivesRelease
PROPERTIES
    OverwritesOnlyCommitted
    PendingSwitchEnds
    DeadOwnerReclaimed
\* a conflict blocks every command once the bounded edits are used up
CHECK_DEADLOCK FALSE
