SPECIFICATION Spec
CONSTANTS
    UsPerSec = 2
    NsPerUs = 2
    Blockers = {}
    Depends = {d1, d2}
    Fds = {f, g}
    UnixFds = {}
    Delays = {2, 3}
    ClientRules = {"one_wait", "no_self_comply", "comply_in_pass", "leaves_due", "destroy_idle", "destroy_outside"}
    Platform = {"normalises", "keeps_tv"}
    MaxEvents = 3
    MaxClock = 2
    MaxAvail = 1
    d1 = d1
    d2 = d2
    f = f
    g = g
INVARIANTS
    NeverAborts
    ReadyUntilCalled
    NoLostTrigger
    PromptWakeup
    NoDangling
SYMMETRY HandleSymmetry
