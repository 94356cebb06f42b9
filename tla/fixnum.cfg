SPECIFICATION Spec
CONSTANTS
    Size = 3
    Base = 4
    Weight <- MCWeight
    NsPerSec = 5
    Longs <- MCLongs
    Epochs <- MCEpochs
    MaxLaps = 3
    MaxFactor = 1
INVARIANTS
    TypeOK
    RoundTrip
    NetworkOrder
    CountsPeriods
    DriftBounded
