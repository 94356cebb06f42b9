SPECIFICATION Spec
CONSTANTS
    UsPerSec = 2
    NsPerUs = 2
    Blockers = {b}
    Depends = {}
    Fds = {}
    UnixFds = {}
    Delays = {3, 5}
    ClientRules = {"keeps_handles"}
    Platform = {"normalises"}
    MaxEvents = 1
    MaxClock = 4
    MaxAvail = 0
    b = b
PROPERTIES
    SleepsUntilFirst
