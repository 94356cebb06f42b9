SPECIFICATION FairSpec
CONSTANTS
    UsPerSec = 2
    NsPerUs = 2
    Blockers = {b}
    Depends = {d}
    Fds = {f}
    UnixFds = {f}
    Delays = {0, 5}
    ClientRules = {"keeps_handles"}
    Platform = {"normalises", "clock_steps"}
    MaxEvents = 2
    MaxClock = 2
    MaxAvail = 1
    b = b
    d = d
    f = f
INVARIANTS
    Conserved
PROPERTIES
    EveryEventCalled
