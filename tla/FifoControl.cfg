SPECIFICATION FairSpec
CONSTANTS
  Motor = {m1, m2}
  Start = {0, 4}
  Step = 3
  MaxDelta = 7
  Delta <- Numbers
  NaN = NaN
  MaxLines = 3
INVARIANTS
  TypeOK
  StopsSoon
PROPERTIES
  Ramp
  StopEnds
  TargetIsReached
