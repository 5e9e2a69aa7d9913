-------------------------- MODULE MotorPowerProofs --------------------------
(***************************************************************************)
(* On a link that loses nothing MotorControl implements MotorPower, for    *)
(* every set of motors, every order of the map motors, every number of     *)
(* repetitions and of calls of set_zero, however late the answers are and  *)
(* whatever feedback looks like.                                           *)
(***************************************************************************)
EXTENDS MotorControlProofs

USE DEF vars, motorVars, linkVars, objectVars, sharedVars, loopVars, armVars, zeroVars,
        Power!vars, Power!motorVars

(* What DriverInv and SavingInv do not say: where set_zero is with the zero  *)
(* it sets, and that enable_all comes after it only when it saves.           *)
ZeroInv ==
  /\ phase = "new" => zeros = 0
  /\ phase \in {"zero", "unload", "save"} => zeros # 0
  /\ phase \in {"unload", "save"} => persist
  /\ zeros # 0 /\ phase \in {"write", "read", "enable"} => persist
  /\ zeros # 0 /\ phase \in {"write", "read", "enable", "on"} => zero[target] = "new"

(* What holds when nothing can be lost. *)
LosslessInv ==
  /\ DriverInv /\ SavingInv /\ losses = 0
  /\ \A m \in Motor : Served(m)

LEMMA Lossless ==
  ASSUME MaxLosses = 0
  PROVE  DriverInv /\ SavingInv => LosslessInv
<1> SUFFICES ASSUME DriverInv, SavingInv
             PROVE  LosslessInv
  OBVIOUS
<1>1. losses = 0
  BY DEF DriverInv, TypeInv, LinkType
<1>2. \A m \in Motor : Spared(m)
  BY <1>1, EntriesPositive DEF Spared, DriverInv, TypeInv
<1>3. QED
  BY <1>1, <1>2 DEF LosslessInv, DriverInv, MotorInv

-----------------------------------------------------------------------------
LEMMA ZeroInvStep ==
  ASSUME LosslessInv, LosslessInv', ZeroInv, Step
  PROVE  ZeroInv'
<1> USE DEF LosslessInv
<1>1. CASE \/ UNCHANGED vars \/ Receive \/ ReadCode \/ SetFlag
           \/ \E m \in Motor : Streamed(m)
  BY <1>1, HiddenSteps DEF Hidden, ZeroInv
<1>2. CASE Connect
  BY <1>2 DEF Connect, Enter, ZeroInv
<1>3. CASE Disconnect
  BY <1>3 DEF Disconnect, Enter, ZeroInv
<1>4. ASSUME NEW m \in Motor, NEW save \in BOOLEAN, CallSetZero(m, save)
      PROVE  ZeroInv'
  BY <1>4 DEF CallSetZero, ZeroInv, DriverInv, TypeInv, CallType
<1>5. CASE WriteMode
  BY <1>5, WriteStep DEF ZeroInv
<1>6. CASE ReadMode
  BY <1>6, ReadStep DEF ZeroInv
<1>7. CASE EnableMotor
  BY <1>7, EnableStep DEF ZeroInv
<1>8. CASE DisableMotor
  BY <1>8, DisableStep DEF ZeroInv
<1>9. CASE ZeroMotor
  BY <1>9, ZeroStep DEF ZeroInv, DriverInv, TypeInv, MotorType, CallType
<1>10. CASE UnloadMotor
  BY <1>10, UnloadStep DEF ZeroInv
<1>11. CASE SaveMotor
  BY <1>11, SaveStep DEF ZeroInv, SavingInv, Saving
<1>12. QED
  BY <1>1, <1>2, <1>3, <1>4, <1>5, <1>6, <1>7, <1>8, <1>9, <1>10, <1>11
     DEF Step, Calls, Driver

-----------------------------------------------------------------------------
LEMMA PowerInit == Init => Power!Init
BY DEF Init, Power!Init, CallUnderWay

(* A step of a call is work of it or its end.                                *)
LEMMA WorkStep ==
  ASSUME LosslessInv', ZeroInv',
         UNCHANGED <<target, persist, zeros>>,
         Power!Zeroing,
         \/ phase \in {"write", "read", "enable"} /\ phase' \in {"write", "read", "enable", "on"}
         \/ phase = "zero" /\ phase' \in {"unload", "on"} /\ zeros # 0
         \/ phase = "unload" /\ phase' = "save" /\ zeros # 0
         \/ phase = "save" /\ phase' = "write" /\ zeros # 0
         \/ phase = "disable" /\ phase' \in {"disable", "off"}
  PROVE  Power!Next
<1>1. Power!Work
  <2>1. CallUnderWay \in {"opening", "zeroing", "closing"}
    BY DEF CallUnderWay
  <2>2. reg' \in [Motor -> Mode] /\ enabled' \in [Motor -> BOOLEAN]
    BY DEF LosslessInv, DriverInv, TypeInv, MotorType
  <2>3. QED
    BY <2>1, <2>2 DEF Power!Work
<1>2. CASE phase' = "on"
  <2>1. \A m \in Motor : enabled'[m] /\ reg'[m] = MIT
    BY <1>2 DEF LosslessInv, Served
  <2>2. CallUnderWay \in {"opening", "zeroing"} /\ CallUnderWay' = "open"
    BY <1>2 DEF CallUnderWay
  <2>3. CallUnderWay = "zeroing" => zeros # 0
    BY <1>2 DEF CallUnderWay
  <2>4. zeros # 0 => zero'[target] = "new" /\ (persist => flash'[target] = "new")
    BY <1>2 DEF LosslessInv, SavingInv, Saving, ZeroInv
  <2>5. Power!Opened
    BY <1>1, <2>1, <2>2, <2>3, <2>4 DEF Power!Opened
  <2>6. QED
    BY <2>5 DEF Power!Next
<1>3. CASE phase' = "off"
  <2>1. \A m \in Motor : ~enabled'[m]
    BY <1>3 DEF LosslessInv, Served
  <2>2. CallUnderWay = "closing" /\ CallUnderWay' = "closed"
    BY <1>3 DEF CallUnderWay
  <2>3. QED
    BY <1>1, <2>1, <2>2 DEF Power!Closed, Power!Next
<1>4. CASE phase' \notin {"on", "off"}
  <2>1. UNCHANGED CallUnderWay
    BY <1>4 DEF CallUnderWay
  <2>2. QED
    BY <1>1, <2>1 DEF Power!Proceed, Power!Next
<1>5. QED
  BY <1>2, <1>3, <1>4

LEMMA PowerStep ==
  ASSUME LosslessInv, LosslessInv', ZeroInv, ZeroInv', Step
  PROVE  [Power!Next]_(Power!vars)
<1>0. DriverInv /\ SavingInv /\ losses' = 0
  BY DEF LosslessInv
<1>1. CASE \/ UNCHANGED vars \/ Receive \/ ReadCode \/ SetFlag
           \/ \E m \in Motor : Streamed(m)
  BY <1>1, HiddenSteps DEF Hidden, CallUnderWay
<1>2. CASE Connect
  BY <1>2 DEF Connect, Enter, ZeroInv, CallUnderWay, Power!Connect, Power!Next
<1>3. CASE Disconnect
  BY <1>3 DEF Disconnect, Enter, CallUnderWay, Power!Disconnect, Power!Next
<1>4. ASSUME NEW m \in Motor, NEW save \in BOOLEAN, CallSetZero(m, save)
      PROVE  Power!Next
  BY <1>4 DEF CallSetZero, CallUnderWay, Power!SetZero, Power!Next
<1>5. CASE WriteMode
  BY <1>5, WriteStep, WorkStep DEF Power!Zeroing
<1>6. CASE ReadMode
  BY <1>6, ReadStep, WorkStep DEF Power!Zeroing
<1>7. CASE EnableMotor
  BY <1>7, EnableStep, WorkStep DEF Power!Zeroing
<1>8. CASE DisableMotor
  BY <1>8, DisableStep, WorkStep DEF Power!Zeroing
<1>9. CASE ZeroMotor
  <2>1. Power!Zeroing
    BY <1>0, <1>9, ZeroStep DEF Power!Zeroing, CallUnderWay
  <2>2. QED
    BY <1>0, <1>9, <2>1, ZeroStep, WorkStep DEF ZeroInv
<1>10. CASE UnloadMotor
  BY <1>0, <1>10, UnloadStep, WorkStep DEF Power!Zeroing, ZeroInv
<1>11. CASE SaveMotor
  <2>1. Power!Zeroing
    BY <1>0, <1>11, SaveStep DEF Power!Zeroing, CallUnderWay, ZeroInv
  <2>2. QED
    BY <1>0, <1>11, <2>1, SaveStep, WorkStep DEF ZeroInv
<1>12. QED
  BY <1>1, <1>2, <1>3, <1>4, <1>5, <1>6, <1>7, <1>8, <1>9, <1>10, <1>11
     DEF Step, Calls, Driver

(* While nothing is lost the calls do to the motors what MotorPower promises. *)
THEOREM PowerRefinement ==
  ASSUME MaxLosses = 0
  PROVE  Spec => PowerSpec
<1>1. Init => ZeroInv
  BY DEF Init, ZeroInv
<1>2. DriverInv /\ SavingInv => LosslessInv
  BY Lossless
<1>3. LosslessInv /\ LosslessInv' /\ ZeroInv /\ [Next]_vars => ZeroInv'
  BY ZeroInvStep, NextStep
<1>4. LosslessInv /\ LosslessInv' /\ ZeroInv /\ ZeroInv' /\ [Next]_vars
        => [Power!Next]_(Power!vars)
  BY PowerStep, NextStep
<1>5. QED
  BY <1>1, <1>2, <1>3, <1>4, PowerInit, DriverInvariance, SavingInvariance, PTL
     DEF Spec, PowerSpec, Power!Spec
=============================================================================
