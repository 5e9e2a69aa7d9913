SPECIFICATION Spec
CONSTANTS
  m1 = m1
  m2 = m2
  Motor = {m1}
  Visits <- OneTwice
  Repeat = 2
  Streaming = FALSE
  Feedbacks = {"plain"}
  MaxInbox = 2
  MaxLosses = 0
  MaxZeros = 0
INVARIANT
  PositionsAreReal
