\* Two threads log, two panels come and go
SPECIFICATION Spec
SYMMETRY Interchangeable
CONSTANTS
    Emitter = {e1, e2}
    Socket = {s1, s2}
    BufLen = 2
    TailLen = 2
    KeepLen = 3
    MaxChanges = 2
INVARIANTS TypeOK NothingLost OneEventHeals
CHECK_DEADLOCK FALSE
