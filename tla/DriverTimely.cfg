SPECIFICATION FairSpec
CONSTANTS
  m1 = m1
  m2 = m2
  Motor = {m1, m2}
  Visits <- TwoTwice
  Repeat = 2
  Streaming = TRUE
  Feedbacks = {"plain"}
  MaxInbox = 1
  MaxLosses = 0
  MaxZeros = 2
INVARIANTS
  PositionsAreReal
  ZeroIsSaved
PROPERTIES
  FlagClears
  PowerSpec
