\* Three callers of one run that stops up to twice.
CONSTANTS
  Workers = {w1, w2, w3}
  MaxStops = 2
SPECIFICATION FairSpec
CHECK_DEADLOCK FALSE
INVARIANTS
  TypeOK
  OneDriver
  GoesOnFromTheLastStop
  StaysResumable
PROPERTIES
  ClaimsAreResolved
  IsOneRun
