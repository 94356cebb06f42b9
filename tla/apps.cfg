SPECIFICATION Spec
CONSTANTS
    Addr = {x1, x2, x3, x4, x5, x6, x7}
    MaxFd = 1
    File = {stdin}
    stdin = stdin
    NULL = NULL
    STREAM = STREAM
    App = {p, q}
    p = p
    q = q
    Name = {"GEA_defaultOstream", "handle"}
    Inherited <- MCInherited
    ClientRules = {"checks_insert", "checks_type", "removes_first", "uses_at_once"}
INVARIANTS
    TypeOK
    ShadowsAccounted
    SubsAccounted
    WatchesItsFile
    EntriesValid
    RegistrationKept
    UsesAreSafe
SYMMETRY AppSymmetry
