\* Two calls about one question of the two a run left.
CONSTANTS
  Questions = {q1, q2}
  Calls = {c1, c2}
  Attempts = 2
  MaxStops = 0
SPECIFICATION Spec
CHECK_DEADLOCK FALSE
INVARIANT AnsweredOnce
