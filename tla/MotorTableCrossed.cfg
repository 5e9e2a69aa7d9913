SPECIFICATION Spec
CONSTANTS
  Id = {1, 2, 17}
  MaxMotors = 2
INVARIANT
  EveryMotorAddressed
