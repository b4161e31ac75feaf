SPECIFICATION Spec
CHECK_DEADLOCK FALSE
CONSTANTS
    Strands = {"hunt", "form"}
    Program <- MCAsks
    Kind <- MCKind
    Overlapping = {"look"}
    Asking = {"ask"}
    Answers = {yes, no}
    Recorded = 2
    MaxStops = 1
    MaxFailures = 1
    MaxAsked = 4
SYMMETRY MCSymmetry
INVARIANTS
    TypeOK
    ReplayIsTheRun
    NumberedByPlace
    EveryAnswerIsOnFile
    ReplayIsServed
