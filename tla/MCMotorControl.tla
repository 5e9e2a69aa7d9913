--------------------------- MODULE MCMotorControl ---------------------------
(***************************************************************************)
(* MotorControl on one and on two motors.  The map motors meets every      *)
(* motor twice; for two motors one of the orders is taken in which the     *)
(* entries of the two alternate.                                           *)
(***************************************************************************)
EXTENDS MotorControl

CONSTANTS m1, m2

OneTwice == <<m1, m1>>
TwoTwice == <<m1, m2, m1, m2>>
=============================================================================
