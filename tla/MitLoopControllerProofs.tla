---------------------- MODULE MitLoopControllerProofs ----------------------
(***************************************************************************)
(* Theorems about MitLoopController, for every number of motors, every set *)
(* of commands and every number of sessions.                               *)
(***************************************************************************)
EXTENDS MitLoopController, TLAPS

USE NAssumption, CommandAssumption, SessionsAssumption

(* The properties Inv is made of, with what they are stated in. *)
USE DEF Motors, AllZero, vars, threadVars, callVars, appVars, tickVars,
        workVars, busVars

(* The initial state satisfies the inductive invariant. *)
LEMMA InitInv == Init => Inv
<1> SUFFICES ASSUME Init
             PROVE  Inv
  OBVIOUS
<1> USE DEF Init
<1>1. TypeOK
  <2>1. /\ commands \in [Motors -> Command]
        /\ snapshot \in [Motors -> Command]
        /\ last \in [Motors -> Command \cup {NoFrame}]
    OBVIOUS
  <2>2. /\ worker_exception \in 0..MaxSessions
        /\ session \in 0..MaxSessions
        /\ idx \in 1..(N + 1)
    OBVIOUS
  <2>3. QED
    BY <2>1, <2>2 DEF TypeOK
<1>2. ThreadInv /\ FailureInv /\ TickInv
  BY NAssumption DEF ThreadInv, FailureInv, TickInv
<1>3. QED
  BY <1>1, <1>2 DEF Inv, ParkedStaysZero, NoOrphanWorker, NoTerminate,
                    ExceptionIsCurrent

(* A step inside start() or stop() preserves the inductive invariant. *)
LEMMA MethodInv == Inv /\ fault = "none" /\ InsideMethod => Inv'
<1> SUFFICES ASSUME Inv, fault = "none", InsideMethod
             PROVE  Inv'
  OBVIOUS
<1> USE DEF Inv, TypeOK, ThreadInv, FailureInv, TickInv, ParkedStaysZero, NoOrphanWorker,
            NoTerminate, ExceptionIsCurrent
<1>1. CASE StartJoin
  BY <1>1 DEF StartJoin
<1>2. CASE StartSpawn
  <2> USE DEF StartSpawn
  <2>1. TypeOK'
    <3>1. session' \in 0..MaxSessions /\ worker_exception' \in 0..MaxSessions
      BY <1>2
    <3>2. /\ commands' \in [Motors -> Command]
          /\ snapshot' \in [Motors -> Command]
          /\ last' \in [Motors -> Command \cup {NoFrame}]
      BY <1>2
    <3>3. /\ running' \in BOOLEAN /\ control' \in BOOLEAN
          /\ was_running' \in BOOLEAN /\ dying' \in BOOLEAN
          /\ parked' \in BOOLEAN
      BY <1>2
    <3>4. /\ worker' \in {"none", "live", "exited"}
          /\ pc' = "idle"
          /\ result' \in {"ok", "noThread"}
          /\ wpc' \in {"test", wpc}
          /\ idx' = idx
          /\ fault' \in {"none", "terminate"}
      BY <1>2
    <3>5. QED
      BY <3>1, <3>2, <3>3, <3>4
  <2>2. ThreadInv' /\ FailureInv'
    BY <1>2
  <2>3. TickInv'
    BY <1>2
  <2>4. ExceptionIsCurrent' /\ ParkedStaysZero' /\ NoOrphanWorker'
    BY <1>2
  <2>5. NoTerminate'
    BY <1>2
  <2>6. QED
    BY <2>1, <2>2, <2>3, <2>4, <2>5
<1>3. CASE StartSpawnFails
  <2> USE DEF StartSpawnFails
  <2>1. TypeOK'
    <3>1. session' \in 0..MaxSessions /\ worker_exception' \in 0..MaxSessions
      BY <1>3
    <3>2. /\ commands' \in [Motors -> Command]
          /\ snapshot' \in [Motors -> Command]
          /\ last' \in [Motors -> Command \cup {NoFrame}]
      BY <1>3
    <3>3. /\ running' \in BOOLEAN /\ control' \in BOOLEAN
          /\ was_running' \in BOOLEAN /\ dying' \in BOOLEAN
          /\ parked' \in BOOLEAN
      BY <1>3
    <3>4. /\ worker' \in {"none", "live", "exited"}
          /\ pc' = "idle"
          /\ result' \in {"ok", "noThread"}
          /\ wpc' \in {"test", wpc}
          /\ idx' = idx
          /\ fault' \in {"none", "terminate"}
      BY <1>3
    <3>5. QED
      BY <3>1, <3>2, <3>3, <3>4
  <2>2. ThreadInv' /\ FailureInv'
    BY <1>3
  <2>3. TickInv'
    BY <1>3
  <2>4. ExceptionIsCurrent' /\ ParkedStaysZero' /\ NoOrphanWorker'
    BY <1>3
  <2>5. NoTerminate'
    BY <1>3
  <2>6. QED
    BY <2>1, <2>2, <2>3, <2>4, <2>5
<1>4. CASE StopJoin
  BY <1>4 DEF StopJoin
<1>5. CASE StopZero
  BY <1>5 DEF StopZero, Return
<1>6. CASE StopRethrow
  BY <1>6 DEF StopRethrow, Return
<1>7. CASE ArmDestructor
  BY <1>7 DEF ArmDestructor
<1>8. QED
  BY <1>1, <1>2, <1>3, <1>4, <1>5, <1>6, <1>7 DEF InsideMethod

(* A call of the application preserves the inductive invariant. *)
LEMMA CallInv == Inv /\ fault = "none" /\ Call => Inv'
<1> SUFFICES ASSUME Inv, fault = "none", Call
             PROVE  Inv'
  OBVIOUS
<1> USE DEF Inv, TypeOK, ThreadInv, FailureInv, TickInv, ParkedStaysZero, NoOrphanWorker,
            NoTerminate, ExceptionIsCurrent
<1>1. CASE StartCall
  BY <1>1 DEF StartCall
<1>2. CASE StopCall
  BY <1>2 DEF StopCall
<1>3. CASE \E m \in Motors, c \in Command : SetCommand(m, c)
  BY <1>3 DEF SetCommand
<1>4. CASE \E vec \in Vectors : SetAllCommands(vec)
  BY <1>4 DEF SetAllCommands, Vectors
<1>5. CASE Connect
  BY <1>5 DEF Connect
<1>6. CASE Disconnect
  <2> USE DEF Disconnect
  <2>1. TypeOK'
    BY <1>6
  <2>2. ThreadInv' /\ FailureInv' /\ TickInv'
    BY <1>6
  <2>3. ParkedStaysZero' /\ NoOrphanWorker'
    BY <1>6
  <2>4. NoTerminate' /\ ExceptionIsCurrent'
    BY <1>6
  <2>5. QED
    BY <2>1, <2>2, <2>3, <2>4
<1>7. QED
  BY <1>1, <1>2, <1>3, <1>4, <1>5, <1>6 DEF Call

(* A step of the worker preserves the inductive invariant. *)
LEMMA WorkerInv == Inv /\ fault = "none" /\ Worker => Inv'
<1> SUFFICES ASSUME Inv, fault = "none", Worker
             PROVE  Inv'
  OBVIOUS
<1> USE DEF Inv, TypeOK, ThreadInv, FailureInv, TickInv, ParkedStaysZero, NoOrphanWorker,
            NoTerminate, ExceptionIsCurrent
<1>1. CASE WorkerTest
  BY <1>1 DEF WorkerTest
<1>2. CASE WorkerSnapshot
  BY <1>2 DEF WorkerSnapshot
<1>3. CASE WorkerCheck
  BY <1>3 DEF WorkerCheck
<1>4. CASE WorkerSend
  BY <1>4 DEF WorkerSend
<1>5. CASE WorkerWake
  BY <1>5 DEF WorkerWake
<1>6. CASE WorkerCatch
  BY <1>6 DEF WorkerCatch
<1>7. CASE WorkerClear
  BY <1>7 DEF WorkerClear
<1>8. CASE WorkerExit
  BY <1>8 DEF WorkerExit
<1>9. QED
  BY <1>1, <1>2, <1>3, <1>4, <1>5, <1>6, <1>7, <1>8 DEF Worker

(* The invariant is inductive, so it holds in every reachable state. *)
THEOREM Invariance == Spec => []Inv
<1>1. Inv /\ [Next]_vars => Inv'
  <2> SUFFICES ASSUME Inv, [Next]_vars
               PROVE  Inv'
    OBVIOUS
  <2>1. CASE ApplicationStep
    BY <2>1, MethodInv, CallInv DEF ApplicationStep
  <2>2. CASE WorkerStep
    BY <2>2, WorkerInv DEF WorkerStep
  <2>3. CASE UNCHANGED vars
    BY <2>3 DEF Inv, TypeOK, ThreadInv, FailureInv, TickInv, ParkedStaysZero,
                NoOrphanWorker, NoTerminate, ExceptionIsCurrent
  <2>4. QED
    BY <2>1, <2>2, <2>3 DEF Next, Ended
<1>2. QED
  BY InitInv, <1>1, PTL DEF Spec

-----------------------------------------------------------------------------
(* Every variable keeps its type: no sequence of calls and interleavings   *)
(* gives commands_ another length or leaves a frame without a motor.       *)
THEOREM TypeCorrect == Spec => []TypeOK
<1>1. Inv => TypeOK
  BY DEF Inv
<1>2. QED
  BY <1>1, Invariance, PTL

(* After stop() has parked the motors they stay parked until start().      *)
THEOREM Parked == Spec => []ParkedStaysZero
<1>1. Inv => ParkedStaysZero
  BY DEF Inv
<1>2. QED
  BY <1>1, Invariance, PTL

(* stop() and start() always wait for a worker they told to end.           *)
THEOREM NoOrphan == Spec => []NoOrphanWorker
<1>1. Inv => NoOrphanWorker
  BY DEF Inv
<1>2. QED
  BY <1>1, Invariance, PTL

(* start() never overwrites a joinable thread.                             *)
THEOREM NeverTerminates == Spec => []NoTerminate
<1>1. Inv => NoTerminate
  BY DEF Inv
<1>2. QED
  BY <1>1, Invariance, PTL

(* stop() never rethrows an exception of an earlier session.               *)
THEOREM CurrentException == Spec => []ExceptionIsCurrent
<1>1. Inv => ExceptionIsCurrent
  BY DEF Inv
<1>2. QED
  BY <1>1, Invariance, PTL

(* When a tick is complete the bus carries the vector it was taken from.   *)
THEOREM OneVectorPerTick == Spec => []TickIsOneVector
<1>1. Inv => TickIsOneVector
  <2> SUFFICES ASSUME Inv, wpc = "sleep"
               PROVE  last = snapshot
    BY DEF TickIsOneVector
  <2>1. \A m \in Motors : last[m] = snapshot[m]
    BY DEF Inv, TickInv
  <2>2. QED
    BY <2>1 DEF Inv, TypeOK
<1>2. QED
  BY <1>1, Invariance, PTL

(* The worker only ever fails for want of a connection.                    *)
THEOREM FailsUnconnected == Spec => FailsOnlyUnconnected
<1>1. Inv /\ [Next]_vars => [wpc = "check" /\ wpc' = "catch" => ~control]_vars
  <2> SUFFICES ASSUME Inv, Next, wpc = "check", wpc' = "catch"
               PROVE  ~control
    OBVIOUS
  <2>1. WorkerCheck
    BY DEF Next, Ended, ApplicationStep, InsideMethod, Call, StartJoin,
           StartSpawn, StartSpawnFails, StopJoin, StopZero, StopRethrow,
           ArmDestructor, StartCall, StopCall, SetCommand, SetAllCommands,
           Connect, Disconnect, WorkerStep, Worker, WorkerTest,
           WorkerSnapshot, WorkerSend, WorkerWake, WorkerCatch, WorkerClear,
           WorkerExit
  <2>2. QED
    BY <2>1 DEF WorkerCheck, Inv, TypeOK
<1>2. QED
  BY <1>1, Invariance, PTL DEF Spec, FailsOnlyUnconnected

-----------------------------------------------------------------------------
(* The refinement: initial states map to initial states of CommandStream   *)
(* and every step to one of its steps or to a stutter.                     *)

USE DEF Stream!vars, Stream!Motors, Stream!AllZero

(* The loop starts as a closed stream that has sent nothing.               *)
LEMMA StreamInit == Init => Stream!Init
  BY DEF Init, Stream!Init, StreamOpen, StreamFailed, StreamNext

(* A step inside start() or stop() opens the stream, closes or aborts it,  *)
(* takes the connection away at the end, or is invisible on the bus.       *)
LEMMA StreamMethod ==
  Inv /\ fault = "none" /\ InsideMethod => [Stream!Next]_(Stream!vars)
<1> SUFFICES ASSUME Inv, fault = "none", InsideMethod
             PROVE  [Stream!Next]_(Stream!vars)
  OBVIOUS
<1> USE DEF StreamOpen, StreamFailed, StreamNext, Stream!Next
<1>1. CASE StartJoin
  BY <1>1 DEF StartJoin, Inv, TypeOK, ThreadInv
<1>2. CASE StartSpawn
  BY <1>2 DEF StartSpawn, Inv, ThreadInv, Stream!Open
<1>3. CASE StartSpawnFails
  BY <1>3 DEF StartSpawnFails, Inv, ThreadInv, Stream!Open
<1>4. CASE StopJoin
  BY <1>4 DEF StopJoin, Inv, TypeOK, ThreadInv
<1>5. CASE StopZero
  <2>1. worker = "none" /\ ~running /\ wpc = "none" /\ idx = N + 1 /\ was_running
    BY <1>5 DEF StopZero, Inv, ThreadInv, TickInv
  <2>2. CASE control
    BY <1>5, <2>1, <2>2 DEF StopZero, Stream!Close, Stream!End
  <2>3. CASE ~control
    BY <1>5, <2>1, <2>3 DEF StopZero, Return, Stream!Abort, Stream!End
  <2>4. QED
    BY <2>2, <2>3
<1>6. CASE StopRethrow
  BY <1>6 DEF StopRethrow, Return, Inv, ThreadInv
<1>7. CASE ArmDestructor
  BY <1>7 DEF ArmDestructor, Inv, TypeOK, ThreadInv, Stream!Link
<1>8. QED
  BY <1>1, <1>2, <1>3, <1>4, <1>5, <1>6, <1>7 DEF InsideMethod

(* A call of the application updates the commands, connects, disconnects   *)
(* or is invisible.                                                        *)
LEMMA StreamCall ==
  Inv /\ fault = "none" /\ Call => [Stream!Next]_(Stream!vars)
<1> SUFFICES ASSUME Inv, fault = "none", Call
             PROVE  [Stream!Next]_(Stream!vars)
  OBVIOUS
<1> USE DEF StreamOpen, StreamFailed, StreamNext, Stream!Next
<1>1. CASE StartCall
  BY <1>1 DEF StartCall
<1>2. CASE StopCall
  BY <1>2 DEF StopCall
<1>3. CASE \E m \in Motors, c \in Command : SetCommand(m, c)
  BY <1>3 DEF SetCommand, Inv, TypeOK, Stream!Update
<1>4. CASE \E vec \in Vectors : SetAllCommands(vec)
  BY <1>4 DEF SetAllCommands, Vectors, Inv, TypeOK, Stream!Update
<1>5. CASE Connect
  BY <1>5 DEF Connect, Stream!Link
<1>6. CASE Disconnect
  BY <1>6 DEF Disconnect, Inv, TypeOK, Stream!Link
<1>7. QED
  BY <1>1, <1>2, <1>3, <1>4, <1>5, <1>6 DEF Call

(* A step of the worker begins a tick, sends a frame of it, has it refused *)
(* or ends a stream that failed, or is invisible.                          *)
LEMMA StreamWorker ==
  Inv /\ fault = "none" /\ Worker => [Stream!Next]_(Stream!vars)
<1> SUFFICES ASSUME Inv, fault = "none", Worker
             PROVE  [Stream!Next]_(Stream!vars)
  OBVIOUS
<1> USE DEF StreamOpen, StreamFailed, StreamNext, Stream!Next
<1>1. CASE WorkerTest
  BY <1>1 DEF WorkerTest
<1>2. CASE WorkerSnapshot
  BY <1>2 DEF WorkerSnapshot, Inv, ThreadInv, FailureInv, TickInv, Stream!Tick
<1>3. CASE WorkerCheck
  BY <1>3 DEF WorkerCheck, Inv, TypeOK, ThreadInv, TickInv, Stream!Refuse
<1>4. CASE WorkerSend
  BY <1>4 DEF WorkerSend, Inv, ThreadInv, TickInv, Stream!Emit
<1>5. CASE WorkerWake
  BY <1>5 DEF WorkerWake
<1>6. CASE WorkerCatch
  BY <1>6 DEF WorkerCatch, Inv, TypeOK, ThreadInv, FailureInv
<1>7. CASE WorkerClear
  BY <1>7 DEF WorkerClear, Inv, ThreadInv
<1>8. CASE WorkerExit
  BY <1>8 DEF WorkerExit, Inv, ThreadInv, FailureInv, TickInv, Stream!Abort, Stream!End
<1>9. QED
  BY <1>1, <1>2, <1>3, <1>4, <1>5, <1>6, <1>7, <1>8 DEF Worker

(* The control loop implements CommandStream.                              *)
THEOREM Refinement == Spec => StreamSpec
<1>1. Inv /\ [Next]_vars => [Stream!Next]_(Stream!vars)
  <2> SUFFICES ASSUME Inv, [Next]_vars
               PROVE  [Stream!Next]_(Stream!vars)
    OBVIOUS
  <2>1. CASE ApplicationStep
    BY <2>1, StreamMethod, StreamCall DEF ApplicationStep
  <2>2. CASE WorkerStep
    BY <2>2, StreamWorker DEF WorkerStep
  <2>3. CASE UNCHANGED vars
    BY <2>3 DEF StreamOpen, StreamFailed, StreamNext
  <2>4. QED
    BY <2>1, <2>2, <2>3 DEF Next, Ended
<1>2. QED
  BY StreamInit, Invariance, <1>1, PTL DEF Spec, StreamSpec, Stream!Spec
=============================================================================
