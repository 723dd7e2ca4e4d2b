\* one uncertain answer or late listing, on two branches
CONSTANTS
    Client = {c1, c2}
    Branch = {main, dev}
    Content = {x}
    MaxCommits = 4
    MaxBlobs = 1
    MaxFaults = 1
SPECIFICATION Spec
SYMMETRY Symmetry
INVARIANTS
    DependenciesFirst
    ForksOnlyWithinWindow
    ForksAreHandled
\* every command waits for room in the bounded history
CHECK_DEADLOCK FALSE
