SPECIFICATION Spec
CONSTANTS
    UsPerSec = 2
    NsPerUs = 2
    Blockers = {b}
    Depends = {d}
    Fds = {f}
    UnixFds = {f}
    Delays = {0, 3}
    ClientRules = {}
    Platform = {"normalises", "keeps_tv"}
    MaxEvents = 3
    MaxClock = 2
    MaxAvail = 1
    b = b
    d = d
    f = f
INVARIANTS
    TypeOK
    NotEarly
PROPERTIES
    TimeoutOrder
    ImplementsService
