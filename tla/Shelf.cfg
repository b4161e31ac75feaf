\* Two calls about the two questions of a run that may stop once and go on.
CONSTANTS
  Questions = {q1, q2}
  Calls = {c1, c2}
  Attempts = 2
  MaxStops = 1
SPECIFICATION FairSpec
CHECK_DEADLOCK FALSE
INVARIANTS
  TypeOK
  HeldByOne
  AnsweredIsOff
PROPERTY CallsEnd
