SPECIFICATION Spec
CONSTANTS
    UsPerSec = 2
    NsPerUs = 2
    Blockers = {b}
    Depends = {d}
    Fds = {}
    UnixFds = {}
    Delays = {2, 5}
    ClientRules = {"one_wait", "comply_in_pass", "keeps_handles"}
    Platform = {"normalises"}
    MaxEvents = 3
    MaxClock = 4
    MaxAvail = 0
    b = b
    d = d
INVARIANTS
    NoLostTrigger
