CONSTANTS
    Path = {file}
    Content = {m, d, typed}
    Absent = absent
    Unknown = unknown
    Unreadable = unreadable
    main = main
    dev = dev
    m = m
    d = d
    Client = {c1, c2}
    Branch = {main, dev}
    FirstBranch = main
    FirstTree <- Heads
    Typed = {typed}
    Foreign = {d}
SPECIFICATION Spec
SYMMETRY Symmetry
PROPERTIES
    NoCrossBranchLeak
    LocalWorkKept
