-------------------------- MODULE MotorTableProofs --------------------------
(***************************************************************************)
(* Theorems about the table of motors, for any number of motors and any    *)
(* set of identifiers.                                                     *)
(***************************************************************************)
EXTENDS MotorTable, TLAPS

USE MaxMotorsAssumption

(* No two entries the loader accepted share a CAN ID or a master ID.         *)
Distinct ==
  \A i, j \in DOMAIN config :
    i # j => config[i].can # config[j].can /\ config[i].mst # config[j].mst

(* Every motor added is found under both IDs, and what is found under an ID  *)
(* has that ID as one of its two.                                            *)
Registered ==
  /\ \A i \in 1..added : config[i].can \in DOMAIN motors /\ config[i].mst \in DOMAIN motors
  /\ \A id \in DOMAIN motors : config[motors[id]].can = id \/ config[motors[id]].mst = id

(* Motors are added when the file was read, and all of them before any use.  *)
Progress ==
  /\ phase \in {"loading", "rejected"} => added = 0
  /\ phase = "ready" => added = Len(config)

TableInv == TypeOK /\ Distinct /\ Registered /\ Progress

LEMMA TableInit == Init => TableInv
BY DEF Init, TableInv, TypeOK, Distinct, Registered, Progress

(* Reading an entry of the file preserves the invariant.                     *)
LEMMA TableLoad ==
  ASSUME TableInv, NEW e \in Entry, LoadMotor(e)
  PROVE  TableInv'
<1> USE DEF TableInv
<1>1. CASE Duplicate(e)
  BY <1>1 DEF LoadMotor, TypeOK, Distinct, Registered, Progress
<1>2. CASE ~Duplicate(e)
  <2>1. config' = Append(config, e) /\ UNCHANGED <<phase, motors, added>>
    BY <1>2 DEF LoadMotor
  <2>2. /\ config' \in Seq(Entry) /\ Len(config') = Len(config) + 1
        /\ DOMAIN config' = DOMAIN config \cup {Len(config) + 1}
        /\ \A i \in DOMAIN config : config'[i] = config[i]
        /\ config'[Len(config) + 1] = e
    BY <2>1 DEF TypeOK
  <2>3. added = 0 /\ DOMAIN motors = {}
    <3>1. added = 0
      BY DEF LoadMotor, Progress
    <3>2. \A id \in DOMAIN motors : motors[id] \in 1..0
      BY <3>1 DEF TypeOK
    <3>3. 1..0 = {}
      OBVIOUS
    <3>4. QED
      BY <3>1, <3>2, <3>3
  <2>4. TypeOK'
    BY <2>1, <2>2, <2>3 DEF LoadMotor, TypeOK
  <2>5. Distinct'
    BY <1>2, <2>2 DEF Distinct, Duplicate
  <2>6. Registered' /\ Progress'
    BY <2>1, <2>3 DEF LoadMotor, Registered, Progress
  <2>7. QED
    BY <2>4, <2>5, <2>6
<1>3. QED
  BY <1>1, <1>2

(* insert keeps what a key holds and adds a key that is new.                 *)
LEMMA Inserted ==
  ASSUME NEW map, NEW key, NEW value
  PROVE  /\ DOMAIN Insert(map, key, value) = DOMAIN map \cup {key}
         /\ \A id \in DOMAIN map : Insert(map, key, value)[id] = map[id]
         /\ key \notin DOMAIN map => Insert(map, key, value)[key] = value
BY DEF Insert

(* Adding a motor preserves the invariant, whichever of its keys are taken.  *)
LEMMA TableAdd ==
  ASSUME TableInv, AddMotor
  PROVE  TableInv'
<1> USE DEF TableInv
<1> DEFINE m == added + 1
           once == Insert(motors, config[m].can, m)
<1>1. /\ m \in DOMAIN config /\ m \in 1..Len(config)
      /\ motors' = Insert(once, config[m].mst, m)
      /\ added' = m
      /\ UNCHANGED <<config, phase>>
  BY DEF AddMotor, TypeOK
<1>2. config[m].can \in Id /\ config[m].mst \in Id
  <2>1. config[m] \in Entry
    BY <1>1 DEF TypeOK
  <2>2. QED
    BY <2>1 DEF Entry
<1>3. added \in Nat /\ m \in Nat
  BY DEF TypeOK
<1> HIDE DEF m, once
<1>4. /\ DOMAIN motors' = DOMAIN motors \cup {config[m].can, config[m].mst}
      /\ \A id \in DOMAIN motors : motors'[id] = motors[id]
      /\ \A id \in DOMAIN motors' \ DOMAIN motors : motors'[id] = m
  <2>1. /\ DOMAIN once = DOMAIN motors \cup {config[m].can}
        /\ \A id \in DOMAIN motors : once[id] = motors[id]
        /\ config[m].can \notin DOMAIN motors => once[config[m].can] = m
    BY Inserted DEF once
  <2>2. /\ DOMAIN motors' = DOMAIN once \cup {config[m].mst}
        /\ \A id \in DOMAIN once : motors'[id] = once[id]
        /\ config[m].mst \notin DOMAIN once => motors'[config[m].mst] = m
    <3> DEFINE twice == Insert(once, config[m].mst, m)
    <3>1. /\ DOMAIN twice = DOMAIN once \cup {config[m].mst}
          /\ \A id \in DOMAIN once : twice[id] = once[id]
          /\ config[m].mst \notin DOMAIN once => twice[config[m].mst] = m
      BY Inserted
    <3>2. motors' = twice
      BY <1>1
    <3> HIDE DEF twice
    <3>3. QED
      BY <3>1, <3>2
  <2>3. QED
    BY <2>1, <2>2
<1>5. \A id \in DOMAIN motors : motors[id] \in 1..added
  BY DEF TypeOK
<1>6. TypeOK'
  BY <1>1, <1>2, <1>3, <1>4, <1>5 DEF TypeOK, m
<1>7. Registered'
  <2>1. \A i \in 1..added' : config'[i].can \in DOMAIN motors' /\ config'[i].mst \in DOMAIN motors'
    BY <1>1, <1>3, <1>4 DEF Registered, m
  <2>2. \A id \in DOMAIN motors' : config'[motors'[id]].can = id \/ config'[motors'[id]].mst = id
    BY <1>1, <1>4 DEF Registered
  <2>3. QED
    BY <2>1, <2>2 DEF Registered
<1>8. Distinct' /\ Progress'
  BY <1>1 DEF AddMotor, Distinct, Progress
<1>9. QED
  BY <1>6, <1>7, <1>8

(* A step of loading or adding preserves the invariant.                      *)
LEMMA TableStepInv ==
  ASSUME TableInv, [Next]_vars
  PROVE  TableInv'
<1> USE DEF TableInv, TypeOK, Distinct, Registered, Progress
<1>1. CASE \E e \in Entry : LoadMotor(e)
  BY <1>1, TableLoad
<1>2. CASE BadField
  BY <1>2 DEF BadField
<1>3. CASE EndOfFile
  BY <1>3 DEF EndOfFile
<1>4. CASE AddMotor
  BY <1>4, TableAdd
<1>5. CASE Connected
  BY <1>5 DEF Connected
<1>6. CASE Done \/ UNCHANGED vars
  BY <1>6 DEF Done, vars
<1>7. QED
  BY <1>1, <1>2, <1>3, <1>4, <1>5, <1>6 DEF Next

(* The inductive invariant of the table.                                     *)
THEOREM TableInvariance == Spec => []TableInv
<1>1. TableInv /\ [Next]_vars => TableInv'
  BY TableStepInv
<1>2. QED
  BY TableInit, <1>1, PTL DEF Spec

(* The map holds motors that were added, under IDs of the file.              *)
THEOREM TableTypeCorrect == Spec => []TypeOK
<1>1. TableInv => TypeOK
  BY DEF TableInv
<1>2. QED
  BY TableInvariance, <1>1, PTL

(* No command can fail because its motor is not in the map.                  *)
THEOREM NoMotorMissing == Spec => []EveryMotorFound
<1>1. TableInv => EveryMotorFound
  <2> SUFFICES ASSUME TableInv, phase = "ready", NEW i \in DOMAIN config
               PROVE  GetMotor(config[i].can) # 0
    BY DEF EveryMotorFound
  <2>1. config[i].can \in DOMAIN motors
    <3>1. i \in 1..added
      BY DEF TableInv, TypeOK, Progress
    <3>2. QED
      BY <3>1 DEF TableInv, Registered
  <2>2. motors[config[i].can] \in 1..added
    BY <2>1 DEF TableInv, TypeOK
  <2>3. QED
    BY <2>1, <2>2 DEF GetMotor
<1>2. QED
  BY TableInvariance, <1>1, PTL

(* Without crossed IDs, a motor is found under both of its IDs.              *)
LEMMA FoundMotor ==
  ASSUME TableInv, phase = "ready", Uncrossed, NEW i \in DOMAIN config
  PROVE  GetMotor(config[i].can) = i /\ GetMotor(config[i].mst) = i
<1> USE DEF TableInv
<1>1. i \in 1..added /\ \A k \in 1..added : k \in DOMAIN config
  BY DEF TypeOK, Progress
<1>2. config[i].can \in DOMAIN motors /\ config[i].mst \in DOMAIN motors
  BY <1>1 DEF Registered
<1>3. motors[config[i].can] \in DOMAIN config /\ motors[config[i].mst] \in DOMAIN config
  BY <1>1, <1>2 DEF TypeOK
<1>4. motors[config[i].can] = i
  BY <1>2, <1>3 DEF Registered, Distinct, Uncrossed
<1>5. motors[config[i].mst] = i
  BY <1>2, <1>3 DEF Registered, Distinct, Uncrossed
<1>6. QED
  BY <1>2, <1>4, <1>5 DEF GetMotor

(* Without crossed IDs, commands and answers find the motor they are for.    *)
THEOREM RightMotor == Spec => []FindsTheRightMotor
<1>1. TableInv => FindsTheRightMotor
  BY FoundMotor DEF FindsTheRightMotor
<1>2. QED
  BY TableInvariance, <1>1, PTL
=============================================================================
