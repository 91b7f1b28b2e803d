\* Two instances append three records, one with a line separator, through crashes and short writes.
SPECIFICATION Spec
CONSTANTS
    Ids = {a, b, c}
    Separated = {c}
    Procs = {p1, p2}
    Malformed = Malformed
    NoTail = NoTail
    Fragment = Fragment
    MaxCrashes = 1
    MaxShortWrites = 1
    MaxSyncFails = 1
    MaxLines = 4
SYMMETRY ProcSymmetry
INVARIANTS
    TypeOK
    CopiesAreBounded
    LossIsBounded
\* A file with a cut character stops every new instance for good.
CHECK_DEADLOCK FALSE
