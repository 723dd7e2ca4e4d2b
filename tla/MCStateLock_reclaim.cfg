CONSTANTS
    Proc = {p1, p2, p3}
    Departed = {p3}
    NoFile = NoFile
    Unwritten = Unwritten
SPECIFICATION Spec
PROPERTIES
    LiveOwnerKeepsLock
