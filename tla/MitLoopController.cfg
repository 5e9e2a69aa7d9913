SPECIFICATION FairSpec
CONSTANTS
  N = 2
  Command = {z, a, b}
  Zero = z
  NoFrame = nf
  MaxSessions = 2
INVARIANTS
  TypeOK
  Inv
  ParkedStaysZero
  NoOrphanWorker
  NoTerminate
  ExceptionIsCurrent
  TickIsOneVector
PROPERTIES
  FailsOnlyUnconnected
  StreamSpec
  MethodsReturn
  CommandReachesMotor
