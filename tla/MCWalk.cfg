\* Seven ordinary pipelines of four to six nodes, two units at once.
CONSTANTS
  Pipelines <- Ordinary
  Ceiling = 2
  NoState = NoState
SPECIFICATION FairSpec
INVARIANTS
  TypeOK
  OverlapIsDeclared
  ArmsAreIndependent
  FinishedNodesRest
  InputsSettled
  CountsAreRounds
  LoopBound
  TerminalReached
PROPERTY EveryDriveEnds
