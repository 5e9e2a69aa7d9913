SPECIFICATION ProgFairSpec
CONSTANTS
  m1 = m1
  m2 = m2
  Motor = {m1, m2}
  Visits <- TwoTwice
  Repeat = 2
  Streaming = FALSE
  Feedbacks = {"plain", "alike"}
  MaxInbox = 1
  MaxLosses = 1
  MaxZeros = 2
  Order <- InOrder
  Unknown = unknown
  Rounds = 2
INVARIANTS
  ProgTypeOK
  StatesAreReported
  EndsDisabled
  ZeroedAsAsked
PROPERTIES
  ShutsDown
