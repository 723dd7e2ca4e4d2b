\* one interruption during the append of a journal line
CONSTANTS
    fileA = fileA
    fileB = fileB
    main = main
    dev = dev
    m = m
    d = d
    Path = {fileA, fileB}
    Content = {m, d, t, f}
    Typed = {t}
    Foreign = {f}
    Absent = Absent
    Unknown = Unknown
    Unreadable = Unreadable
    Branch = {main, dev}
    FirstBranch = main
    FirstCommits <- Begun
    MaxCommits = 2
    MaxEdits = 0
    MaxFaults = 1
    TornAppends = TRUE
    Proc = {p1}
    Departed = {}
    NoFile = NoFile
    Unwritten = Unwritten
SPECIFICATION PartsSpec
INVARIANTS
    RetryAccepted
\* a conflict blocks every command once the bounded edits are used up
CHECK_DEADLOCK FALSE
