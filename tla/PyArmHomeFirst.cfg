SPECIFICATION PySpec
CONSTANTS
  N = 2
  Command = {z, h, a}
  Zero = z
  Home = h
  NoFrame = nf
  MaxSessions = 1
  MaxInterrupts = 0
PROPERTIES
  HomeFirst
