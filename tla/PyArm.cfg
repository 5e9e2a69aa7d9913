SPECIFICATION PyFairSpec
CONSTANTS
  N = 1
  Command = {z, h}
  Zero = z
  Home = h
  NoFrame = nf
  MaxSessions = 2
  MaxInterrupts = 2
INVARIANTS
  PyTypeOK
  ArmNeverFaults
  DisableIsQuiet
  FailedDisableParks
  DelReleases
PROPERTIES
  DisabledParked
  ArmMethodsReturn
