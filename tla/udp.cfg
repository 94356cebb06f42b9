SPECIFICATION Spec
CONSTANTS
    Handles = {h1, h2}
    IPs = {a, b}
    IPADDR_BROADCAST = b
    Ports = {1}
    NoName = NoName
    Ephemeral = Ephemeral
    ClientRules = {"source_first", "dest_last", "keeps_ready", "leaves_due"}
    MaxFd = 2
    MaxDue = 2
    MaxQueue = 1
    h1 = h1
    h2 = h2
    a = a
    b = b
INVARIANTS
    TypeOK
    DescriptorsAccounted
    SourceHonoured
    BroadcastPermitted
    ReadyHasData
SYMMETRY HandleSymmetry
