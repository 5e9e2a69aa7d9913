SPECIFICATION PathSpec
CONSTANTS
  Id = {1, 2, 17, 18, 19}
  MaxMotors = 3
  Limits <- Models
  KpMax = 1000
  KdMax = 10
  Commands <- SampleCommands
  Readings <- SampleReadings
  Undefined = {0, 65535}
INVARIANTS
  PathTypeOK
  EveryMotorFound
  FindsTheRightMotor
  CommandArrives
  StateArrives
