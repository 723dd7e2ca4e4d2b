\* rollback: room for the rollback, its duplicate and another commit;
\* confluence: two changes by users or failing requests
CONSTANTS
    v1 = v1
    v2 = v2
    v3 = v3
    Path = {p, q}
    Content = {v1, v2, v3}
    Absent = Absent
    Unknown = Unknown
    Unreadable = Unreadable
    Commit = {1, 2, 3, 4}
    Branch = {main, dev}
    MaxNodes = 4
    b1 = b1
    b2 = b2
    b3 = b3
    Blob = {b1, b2, b3}
    ContentOf <- Contents
    Typed = {v3}
    FirstRecords <- Commits
    Time = {t1, t2}
    MaxPushes = 3
    MaxRollbacks = 1
    MaxEdits = 1
    MaxFaults = 2
    f = f
    g = g
    h = h
    Gone = gone
    Broken = broken
    Files <- MCFiles
    Segments <- MCSegments
    Kind <- MCKind
    Text = {1, 2}
    Unrenderable = {2}
    First <- Spaces
    UserTitle = {"x", "m"}
    MaxPage = 10
    MaxEvents = 2
    MaxVersion = 4
SPECIFICATION PartsSpec
PROPERTY IncompleteRefused
CHECK_DEADLOCK FALSE
