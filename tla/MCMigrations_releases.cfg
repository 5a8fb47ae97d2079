SPECIFICATION Spec
CONSTANTS
    old = old
    new1 = new1
    new2 = new2
    Process <- MCProcess
    Known <- MCKnown
    Arg <- MCArg
    None = None
CHECK_DEADLOCK FALSE
INVARIANTS
    TypeOK
    CleanIsTrue
PROPERTIES
    GateHolds
    RefusalJustified
    WritesAllowed
    RunsEnd
