SPECIFICATION Spec
CHECK_DEADLOCK FALSE
CONSTANTS
    Items = {0, 1, 2}
    Width = 2
    MaxFailures = 1
    Kinds = {"agent", "deterministic"}
    LastCall = 1
    MaxStops = 2
INVARIANTS
    TypeOK
    EachItemCompletesOnce
    AnswersReachTheirCall
    ToleranceHolds
PROPERTY NoCallIsMadeAgain
