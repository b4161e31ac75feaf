SPECIFICATION Spec
CHECK_DEADLOCK FALSE
CONSTANTS
    Rollouts = {1, 2, 3}
    Turns <- MCTurns
    Failings <- MCFailings
    Concurrency = 2
    MaxAttempts = 3
INVARIANT OnlyTheMissingAreRun
