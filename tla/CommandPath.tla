---------------------------- MODULE CommandPath ----------------------------
(***************************************************************************)
(* The way of one command from send_mit_all (src/backend/                  *)
(* dm_serial_backend.cpp) to a motor, and of one state back: the entry of  *)
(* the configuration is looked up in the driver's table (MotorTable), the  *)
(* limits found there scale the fields, and the frame (MitFrame) goes to a *)
(* CAN ID.                                                                 *)
(*                                                                         *)
(* The physical motors are not part of the repository: motor i listens to  *)
(* the CAN ID of entry i, answers with its master ID, and scales by the    *)
(* limits of its model.                                                    *)
(***************************************************************************)
EXTENDS MotorTable, MitFrame

CONSTANTS
  Limits,      \* Limits[i] is the row of limit_param for the model of entry i
  Commands,    \* the commands that occur
  Readings,    \* the states that motors report, in codes
  Undefined    \* what an undefined conversion to uint16_t may give

Positive == Nat \ {0}
LimitParam == [Q : Positive, DQ : Positive, TAU : Positive]

ASSUME LimitsAssumption == Limits \in [1..MaxMotors -> LimitParam]
ASSUME CommandsAssumption == Commands \subseteq [Field -> Int]
ASSUME ReadingsAssumption == Readings \subseteq Reading
ASSUME UndefinedAssumption == Undefined \subseteq Wide

VARIABLE bus   \* the last frame on the bus, and what it was sent or taken for

pathVars == <<vars, bus>>

PathTypeOK ==
  /\ TypeOK
  /\ bus.kind \in {"none", "mit", "state"}
  /\ bus.kind # "none" => bus.entry \in DOMAIN config /\ bus.data \in Seq(0..255)
  /\ bus.kind = "state" => bus.object \in DOMAIN config

PathInit == Init /\ bus = [kind |-> "none"]

TableStep == Next /\ UNCHANGED bus

(* control_mit sends to the CAN ID of motor m, and looks up the limits under *)
(* that ID.                                                                  *)
ControlMit(m, i, command, undefined) ==
  [kind |-> "mit", entry |-> i, command |-> command, id |-> config[m].can,
   data |-> Pack(EncodeAll(command, Limits[GetMotor(config[m].can)], undefined))]

(* canframeCallback stores a state in the motor it finds under the ID of     *)
(* the frame, and scales it by the limits of that motor.                     *)
TakeState(i, reading, rest) ==
  [kind |-> "state", entry |-> i, reading |-> reading,
   object |-> GetMotor(config[i].mst), data |-> PackState(reading, rest)]

(* Frames do not depend on one another: every frame is the first.            *)
Quiet == phase = "ready" /\ bus.kind = "none" /\ UNCHANGED vars

(* One round of send_mit_all. *)
SendMit(i, command, undefined) ==
  /\ Quiet
  /\ GetMotor(config[i].can) # 0
  /\ bus' = ControlMit(GetMotor(config[i].can), i, command, undefined)

(* canframeCallback, when it takes the frame for a state: which frames those *)
(* are depends on read_write_save, and that is in MotorControl.              *)
Callback(i, reading, rest) ==
  /\ Quiet
  /\ GetMotor(config[i].mst) # 0
  /\ bus' = TakeState(i, reading, rest)

PathNext ==
  \/ TableStep
  \/ \E i \in DOMAIN config, command \in Commands, undefined \in [Field -> Undefined] :
       SendMit(i, command, undefined)
  \/ \E i \in DOMAIN config, reading \in Readings, rest \in {0, 255} : Callback(i, reading, rest)

PathSpec == PathInit /\ [][PathNext]_pathVars

-----------------------------------------------------------------------------
(* The motors that listen to the frame on the bus. *)
Hearers == {j \in DOMAIN config : config[j].can = bus.id}

(* When no CAN ID is another motor's master ID, a command reaches the motor  *)
(* of its entry and no other, and every field that is in the range of that   *)
(* motor is within a quantum of what was asked, whatever the other fields    *)
(* are.                                                                      *)
CommandArrives ==
  bus.kind = "mit" /\ Uncrossed =>
    /\ Hearers = {bus.entry}
    /\ \A f \in Field :
         LET lo == Low(Limits[bus.entry])[f]
             hi == High(Limits[bus.entry])[f]
         IN  InRange(bus.command[f], lo, hi) =>
               StandsFor(Unpack(bus.data)[f], bus.command[f], lo, hi, Top(f))

(* A state that a motor reports is stored for that motor, as it was sent.    *)
StateArrives ==
  bus.kind = "state" /\ Uncrossed =>
    bus.object = bus.entry /\ UnpackState(bus.data) = bus.reading
=============================================================================
