----------------------------- MODULE MotorTable -----------------------------
(***************************************************************************)
(* How a motor of the configuration file becomes an entry of the driver's  *)
(* map: load_arm_config (src/yaml_loader.cpp) refuses duplicate IDs,       *)
(* Motor_Control's constructor adds every motor under two keys             *)
(* (damiao.cpp), and getMotor looks a motor up by its CAN ID, for commands *)
(* and states, or by the ID of an answer.                                  *)
(*                                                                         *)
(* The other checks of the loader concern one field at a time; a file that *)
(* fails one of them is rejected wherever the loader is.                   *)
(***************************************************************************)
EXTENDS Naturals, Sequences

CONSTANTS
  Id,         \* the 16-bit identifiers that occur
  MaxMotors   \* bound on the motors of a file

ASSUME MaxMotorsAssumption == MaxMotors \in Nat \ {0}

VARIABLES
  config,   \* config.motors; the motors are its indices
  phase,    \* "loading", then "rejected" or "adding", then "ready"
  motors,   \* the map: motors[id] is the motor stored under id
  added     \* the motors added so far

vars == <<config, phase, motors, added>>

Entry == [can : Id, mst : Id]

TypeOK ==
  /\ config \in Seq(Entry) /\ Len(config) <= MaxMotors
  /\ phase \in {"loading", "rejected", "adding", "ready"}
  /\ DOMAIN motors \subseteq Id
  /\ \A id \in DOMAIN motors : motors[id] \in 1..added
  /\ added \in 0..Len(config)

Init ==
  /\ config = <<>>
  /\ phase = "loading"
  /\ motors = [id \in {} |-> 0]
  /\ added = 0

-----------------------------------------------------------------------------
(* load_arm_config *)

(* mutant: master IDs are not compared *)
DuplicateCan(e) == \E i \in DOMAIN config : config[i].can = e.can

(* The IDs that can_ids and mst_ids hold already; one set does not know    *)
(* the other.                                                              *)
Duplicate(e) == \E i \in DOMAIN config : config[i].can = e.can \/ config[i].mst = e.mst

LoadMotor(e) ==
  /\ phase = "loading"
  /\ Len(config) < MaxMotors
  /\ IF Duplicate(e)
       THEN phase' = "rejected" /\ UNCHANGED config
       ELSE config' = Append(config, e) /\ UNCHANGED phase
  /\ UNCHANGED <<motors, added>>

(* A field is missing or malformed. *)
BadField ==
  /\ phase = "loading"
  /\ phase' = "rejected"
  /\ UNCHANGED <<config, motors, added>>

EndOfFile ==
  /\ phase = "loading"
  /\ phase' = IF config = <<>> THEN "rejected" ELSE "adding"
  /\ UNCHANGED <<config, motors, added>>

-----------------------------------------------------------------------------
(* addMotor: unordered_map::insert leaves a key that is taken as it is.    *)
Insert(map, key, value) ==
  [id \in DOMAIN map \cup {key} |-> IF id \in DOMAIN map THEN map[id] ELSE value]

(* mutant: motors are kept by master ID only *)
AddMotorByMaster ==
  /\ phase = "adding"
  /\ added < Len(config)
  /\ motors' = Insert(motors, config[added + 1].mst, added + 1)
  /\ added' = added + 1
  /\ UNCHANGED <<config, phase>>

(* mutant: the index counts from 0 *)
AddMotorFromZero ==
  /\ phase = "adding"
  /\ added < Len(config)
  /\ LET m == added + 1 IN
       motors' = Insert(Insert(motors, config[m].can, added), config[m].mst, added)
  /\ added' = added + 1
  /\ UNCHANGED <<config, phase>>

AddMotor ==
  /\ phase = "adding"
  /\ added < Len(config)
  /\ LET m == added + 1 IN
       motors' = Insert(Insert(motors, config[m].can, m), config[m].mst, m)
  /\ added' = added + 1
  /\ UNCHANGED <<config, phase>>

Connected ==
  /\ phase = "adding"
  /\ added = Len(config)
  /\ phase' = "ready"
  /\ UNCHANGED <<config, motors, added>>

Done == phase \in {"rejected", "ready"} /\ UNCHANGED vars

Next == (\E e \in Entry : LoadMotor(e)) \/ BadField \/ EndOfFile \/ AddMotor \/ Connected \/ Done

Spec == Init /\ [][Next]_vars

-----------------------------------------------------------------------------
(* getMotor(can_id) and getMotor(id of an answer); 0 is nullptr. *)
GetMotor(id) == IF id \in DOMAIN motors THEN motors[id] ELSE 0

(* Nobody's CAN ID is another motor's master ID. *)
Uncrossed ==
  \A i, j \in DOMAIN config : config[i].can = config[j].mst => i = j

(* A configured motor is never missing from the map, so send_mit_all and   *)
(* states cannot fail with "motor is not registered".                      *)
EveryMotorFound == phase = "ready" => \A i \in DOMAIN config : GetMotor(config[i].can) # 0

(* When no CAN ID is another motor's master ID, commands go to the motor   *)
(* they are meant for and answers to the motor they come from.             *)
FindsTheRightMotor ==
  phase = "ready" /\ Uncrossed =>
    \A i \in DOMAIN config : GetMotor(config[i].can) = i /\ GetMotor(config[i].mst) = i

(* README.md:373: send_mit_all sends a command to every motor: two entries *)
(* of the configuration never share one.                                   *)
EveryMotorAddressed ==
  phase = "ready" =>
    \A i, j \in DOMAIN config :
      GetMotor(config[i].can) = GetMotor(config[j].can) => i = j
=============================================================================
