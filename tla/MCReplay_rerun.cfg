SPECIFICATION Spec
CHECK_DEADLOCK FALSE
CONSTANTS
    Strands = {"hunt", "form"}
    Program <- MCProgram
    Kind <- MCKind
    Overlapping = {"look"}
    Asking = {"ask"}
    Answers = {yes, no}
    Recorded = 1
    MaxStops = 1
    MaxFailures = 0
    MaxAsked = 3
INVARIANT SuspendedRunsReplay
