\* A record appended after a crash is glued to the cut line.
SPECIFICATION Spec
CONSTANTS
    Ids = {a, b}
    Separated = {}
    Procs = {p1}
    Malformed = Malformed
    NoTail = NoTail
    Fragment = Fragment
    MaxCrashes = 1
    MaxShortWrites = 0
    MaxSyncFails = 0
    MaxLines = 4
SYMMETRY ProcSymmetry
INVARIANTS
    AckedIsDurable
\* A file with a cut character stops every new instance for good.
CHECK_DEADLOCK FALSE
