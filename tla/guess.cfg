SPECIFICATION Spec
CONSTANTS
    NDev = 3
    MAX_DEV = 2
    Wlan = {2}
    Kinds <- MCKinds
    MaxChanges = 2
INVARIANTS
    TypeOK
    BestOfSteady
    SteadyNeverAborts
PROPERTIES
    EndsIfSteady
    NearsTheEnd
