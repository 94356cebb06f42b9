SPECIFICATION Spec
CONSTANTS
    Letters = {"a"}
    Modules <- MCModules
    MaxArgs = 3
    BufSize = 2
    MaxInput = 5
INVARIANTS
    TypeOK
    NothingLost
    ArgvHolds
PROPERTIES
    ImplementsInterpreter
    EveryCommandRuns
    RunsToTheEnd
