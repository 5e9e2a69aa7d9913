SPECIFICATION Spec
CONSTANTS
  m1 = m1
  m2 = m2
  Motor = {m1, m2}
  Visits <- TwoTwice
  Repeat = 2
  Streaming = TRUE
  Feedbacks = {"plain", "alike"}
  MaxInbox = 2
  MaxLosses = 1
  MaxZeros = 1
INVARIANTS
  TypeOK
  OnMeansMit
  OffMeansDisabled
