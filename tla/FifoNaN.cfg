SPECIFICATION Spec
CONSTANTS
  Motor = {m1}
  Start = {0, 4}
  Step = 3
  MaxDelta = 7
  Delta <- NumbersAndNaN
  NaN = NaN
  MaxLines = 2
PROPERTIES
  Ramp
