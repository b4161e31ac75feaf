\* Two overlapping arms that both stop the run, twice.
CONSTANTS
  Pipelines <- BothStop
  Ceiling = 2
  NoState = NoState
SPECIFICATION Spec
INVARIANT StoppedWorkIsSaved
