---------------------------- MODULE PyArmProofs ----------------------------
(***************************************************************************)
(* Theorems about PyArm, for every number of motors, every set of commands *)
(* and every number of sessions and interrupts.  What Arm does to the loop *)
(* is a behaviour of MitLoopController, so the theorems about that module  *)
(* hold here too.                                                          *)
(***************************************************************************)
EXTENDS PyArm, MitLoopControllerProofs

USE DEF vars, loopVars, threadVars, callVars, appVars, tickVars, workVars, busVars, pyVars

(* Every motor was parked, or got no frame at all. *)
Still == \A m \in Motors : last[m] \in {Zero, NoFrame}

(* Which method of Arm the program is in, and where the call into C++ is. *)
PlaceInv ==
  /\ py \in {"starting", "states", "home", "poll", "sleep"} => method = "start"
  /\ py = "mit" => method = "mit"
  /\ pc \in {"startJoin", "startSpawn"} => py = "starting"
  /\ pc \in {"stopJoin", "stopZero", "stopRethrow"} => py \in {"stopping", "destroying"}
  /\ pc \in {"armDtor", "dead"} => py = "destroying"
  /\ py = "destroying" => dying /\ pc # "idle"
  /\ py = "stopping" => ~dying
  /\ py \in {"stopping", "disconnect", "destroying"} => ~running

(* Who may still send, and to whom. *)
SenderInv ==
  /\ wpc = "send" => control
  /\ pc = "stopJoin" /\ ~was_running => wpc \in {"none", "exit"}
  /\ wpc \in {"catch", "clear"} => Still
  /\ ~Still => control /\ (running \/ (was_running /\ pc \in {"stopJoin", "stopZero"}))
  /\ pc = "dead" => ~control
  /\ py = "stopping" /\ pc = "idle" => worker = "none"

PyInv ==
  /\ Inv
  /\ PyTypeOK
  /\ PlaceInv
  /\ SenderInv
  /\ fault = "none"
  /\ DisableIsQuiet
  /\ FailedDisableParks

-----------------------------------------------------------------------------
(* What Arm does to the loop.                                              *)

LEMMA NothingIsBatch == Nothing \in Batches
<1>1. Nothing \in [{} -> Command]
  BY DEF Nothing
<1>2. [{} -> Command] \in {[S -> Command] : S \in SUBSET Motors}
  OBVIOUS
<1>3. QED
  BY <1>1, <1>2 DEF Batches

(* mit() sets commands only for configured motors.                         *)
LEMMA BatchType == PySpec => [](batch \in Batches)
<1>1. PyInit => batch \in Batches
  BY DEF PyInit, Batches, Nothing
<1>2. batch \in Batches /\ [PyNext]_allVars => (batch \in Batches)'
  <2> SUFFICES ASSUME batch \in Batches, [PyNext]_allVars
               PROVE  batch' \in Batches
    OBVIOUS
  <2>1. Nothing \in Batches
    BY NothingIsBatch
  <2>2. ASSUME NEW m \in DOMAIN batch, MitEntry(m)
        PROVE  batch' \in Batches
    BY <2>2 DEF MitEntry, Batches
  <2>3. batch' \in Batches \cup {batch, Nothing} \/ (\E m \in DOMAIN batch : MitEntry(m))
    BY DEF PyNext, UserCalls, PyStep, PyEnvironment, InCxx, InWorker, Ended, allVars, pyVars,
           Enable, StartMitLoop, Mit, CallStop, Started, FirstStates, CommandHome, Poll, Sleep,
           MitUnknown, MitDone, StopTest, StopLoop, Stopped, Disarm, Destroy,
           KeyboardInterrupt, Feedback, Deadline
  <2>4. QED
    BY <2>1, <2>2, <2>3
<1>3. QED
  BY <1>1, <1>2, PTL DEF PySpec

(* Every step of the program is one the loop allows, or leaves it alone.   *)
LEMMA LoopStep == batch \in Batches /\ [PyNext]_allVars => [Next]_vars
<1> SUFFICES ASSUME batch \in Batches, [PyNext]_allVars, fault = "none", UserCalls \/ PyStep
             PROVE  Call \/ UNCHANGED vars
  BY DEF PyNext, PyEnvironment, KeyboardInterrupt, Feedback, Deadline, InCxx, InWorker,
         allVars, loopVars, Next, ApplicationStep, WorkerStep
<1> USE DEF loopVars
<1>1. CASE Enable
  BY <1>1 DEF Enable, Call
<1>2. CASE StartMitLoop
  BY <1>2 DEF StartMitLoop, Call
<1>3. CASE \E entries \in Batches : Mit(entries)
  BY <1>3 DEF Mit
<1>4. CASE \E name \in {"stop", "disable", "del"} : CallStop(name)
  BY <1>4 DEF CallStop
<1>5. CASE Started \/ FirstStates \/ Poll \/ Sleep \/ MitUnknown \/ MitDone \/ StopTest \/ Stopped
  BY <1>5 DEF Started, FirstStates, Poll, Sleep, MitUnknown, MitDone, StopTest, Stopped
<1>6. CASE CommandHome
  <2>1. [m \in Motors |-> Home] \in Vectors
    BY NAssumption, HomeAssumption DEF Vectors, Motors
  <2>2. QED
    BY <1>6, <2>1 DEF CommandHome, Call
<1>7. CASE \E m \in DOMAIN batch : MitEntry(m)
  <2>1. PICK m \in DOMAIN batch : MitEntry(m)
    BY <1>7
  <2>2. m \in Motors /\ batch[m] \in Command
    BY <2>1 DEF Batches
  <2>3. QED
    BY <2>1, <2>2 DEF MitEntry, Call
<1>8. CASE StopLoop \/ Destroy
  BY <1>8 DEF StopLoop, Destroy, Call
<1>9. CASE Disarm
  BY <1>9 DEF Disarm, Call
<1>10. QED
  BY <1>1, <1>2, <1>3, <1>4, <1>5, <1>6, <1>7, <1>8, <1>9 DEF UserCalls, PyStep

(* Whatever the program calls and wherever it is interrupted, the loop     *)
(* under it behaves as MitLoopController says: the theorems proved there   *)
(* hold for Arm.                                                           *)
THEOREM ArmUsesLoop == PySpec => Spec
<1>1. PyInit => Init
  BY DEF PyInit
<1>2. QED
  BY <1>1, BatchType, LoopStep, PTL DEF PySpec, Spec

(* The frames on the bus are a CommandStream also when Arm makes the calls. *)
THEOREM ArmStream == PySpec => StreamSpec
BY ArmUsesLoop, Refinement, PTL

-----------------------------------------------------------------------------
(* The invariant.  Arm clears the connection only with running_ clear and  *)
(* outside of the methods of the loop, where no worker is before its last  *)
(* test of running_; so no frame is sent without a connection, and a motor *)
(* that is not parked has somebody who still will park it.                 *)

LEMMA PyInitial == PyInit => PyInv
<1> SUFFICES ASSUME PyInit
             PROVE  PyInv
  OBVIOUS
<1>1. Inv
  BY InitInv DEF PyInit
<1>2. PyTypeOK
  <2>1. interrupts \in 0..MaxInterrupts
    BY InterruptsAssumption DEF PyInit
  <2>2. reported \in [Motors -> {"initial", "near", "far"}]
    BY DEF PyInit
  <2>3. TypeOK
    BY <1>1 DEF Inv
  <2>4. QED
    BY <2>1, <2>2, <2>3, NothingIsBatch DEF PyInit, PyTypeOK
<1>3. PlaceInv /\ SenderInv /\ fault = "none" /\ DisableIsQuiet /\ FailedDisableParks
  BY DEF PyInit, Init, PlaceInv, SenderInv, DisableIsQuiet, FailedDisableParks, Still
<1>4. QED
  BY <1>1, <1>2, <1>3 DEF PyInv

(* A step of the worker or inside start() or stop() keeps the invariant.   *)
LEMMA PyLoopStep == PyInv /\ (InCxx \/ InWorker) /\ Inv' => PyInv'
<1> SUFFICES ASSUME PyInv, InCxx \/ InWorker, Inv'
             PROVE  PyTypeOK' /\ PlaceInv' /\ SenderInv' /\ fault' = "none" /\ DisableIsQuiet'
                    /\ FailedDisableParks'
  BY DEF PyInv
<1> TypeOK /\ ThreadInv /\ NoOrphanWorker /\ TypeOK' /\ ThreadInv'
  BY DEF PyInv, Inv
<1> USE DEF PyInv, PlaceInv, SenderInv, DisableIsQuiet, FailedDisableParks, Still, TypeOK,
            ThreadInv, NoOrphanWorker,
            InCxx, InWorker, Return
<1>1. PyTypeOK'
  BY DEF PyTypeOK
<1>2. CASE InCxx
  <2>1. CASE StartJoin
    BY <1>2, <2>1, <1>1 DEF StartJoin
  <2>2. CASE StartSpawn
    BY <1>2, <2>2, <1>1 DEF StartSpawn
  <2>3. CASE StartSpawnFails
    BY <1>2, <2>3, <1>1 DEF StartSpawnFails
  <2>4. CASE StopJoin
    BY <1>2, <2>4, <1>1 DEF StopJoin
  <2>5. CASE StopZero
    BY <1>2, <2>5, <1>1 DEF StopZero, AllZero
  <2>6. CASE StopRethrow
    BY <1>2, <2>6, <1>1 DEF StopRethrow
  <2>7. CASE ArmDestructor
    BY <1>2, <2>7, <1>1 DEF ArmDestructor
  <2>8. QED
    BY <1>2, <2>1, <2>2, <2>3, <2>4, <2>5, <2>6, <2>7 DEF InsideMethod
<1>3. CASE InWorker
  <2>1. CASE WorkerTest
    BY <1>3, <2>1, <1>1 DEF WorkerTest
  <2>2. CASE WorkerSnapshot
    BY <1>3, <2>2, <1>1 DEF WorkerSnapshot
  <2>3. CASE WorkerCheck
    BY <1>3, <2>3, <1>1 DEF WorkerCheck
  <2>4. CASE WorkerSend
    BY <1>3, <2>4, <1>1 DEF WorkerSend
  <2>5. CASE WorkerWake
    BY <1>3, <2>5, <1>1 DEF WorkerWake
  <2>6. CASE WorkerCatch
    BY <1>3, <2>6, <1>1 DEF WorkerCatch
  <2>7. CASE WorkerClear
    BY <1>3, <2>7, <1>1 DEF WorkerClear
  <2>8. CASE WorkerExit
    BY <1>3, <2>8, <1>1 DEF WorkerExit
  <2>9. QED
    BY <1>3, <2>1, <2>2, <2>3, <2>4, <2>5, <2>6, <2>7, <2>8 DEF Worker
<1>4. QED
  BY <1>2, <1>3

(* A step of the Python program, an interrupt, feedback or the clock keeps *)
(* the invariant.                                                          *)
LEMMA PyProgramStep ==
  PyInv /\ (UserCalls \/ PyStep \/ PyEnvironment) /\ Inv' /\ (batch \in Batches)' => PyInv'
<1> SUFFICES ASSUME PyInv, UserCalls \/ PyStep \/ PyEnvironment, Inv', batch' \in Batches
             PROVE  PyTypeOK' /\ PlaceInv' /\ SenderInv' /\ fault' = "none" /\ DisableIsQuiet'
                    /\ FailedDisableParks'
  BY DEF PyInv
<1> TypeOK /\ ThreadInv /\ NoOrphanWorker /\ TypeOK' /\ ThreadInv'
  BY DEF PyInv, Inv
<1> USE DEF PyInv, PyTypeOK, PlaceInv, SenderInv, DisableIsQuiet, FailedDisableParks, Still,
            TypeOK, ThreadInv, NoOrphanWorker, Begin, Finish, Raise, InPython
<1>1. CASE Enable
  BY <1>1 DEF Enable, Connect
<1>2. CASE StartMitLoop
  BY <1>2 DEF StartMitLoop, StartCall
<1>3. CASE \E entries \in Batches : Mit(entries)
  BY <1>3 DEF Mit
<1>4. CASE \E name \in {"stop", "disable", "del"} : CallStop(name)
  BY <1>4 DEF CallStop
<1>5. CASE Started
  BY <1>5 DEF Started
<1>6. CASE FirstStates
  BY <1>6 DEF FirstStates
<1>7. CASE CommandHome
  BY <1>7 DEF CommandHome, SetAllCommands
<1>8. CASE Poll \/ Sleep
  BY <1>8 DEF Poll, Sleep
<1>9. CASE \E m \in DOMAIN batch : MitEntry(m)
  BY <1>9 DEF MitEntry, SetCommand
<1>10. CASE MitUnknown \/ MitDone
  BY <1>10 DEF MitUnknown, MitDone
<1>11. CASE StopTest
  BY <1>11 DEF StopTest, AfterStop
<1>12. CASE StopLoop
  BY <1>12 DEF StopLoop, StopCall
<1>13. CASE Stopped
  BY <1>13 DEF Stopped, AfterStop
<1>14. CASE Disarm
  BY <1>14 DEF Disarm, Disconnect
<1>15. CASE Destroy
  BY <1>15 DEF Destroy, StopCall
<1>16. CASE KeyboardInterrupt
  BY <1>16, InterruptsAssumption DEF KeyboardInterrupt
<1>17. CASE \E m \in Motors, where \in {"near", "far"} : Feedback(m, where)
  BY <1>17 DEF Feedback
<1>18. CASE Deadline
  BY <1>18 DEF Deadline
<1>19. QED
  BY <1>1, <1>2, <1>3, <1>4, <1>5, <1>6, <1>7, <1>8, <1>9, <1>10, <1>11, <1>12, <1>13, <1>14,
     <1>15, <1>16, <1>17, <1>18 DEF UserCalls, PyStep, PyEnvironment

(* The invariant holds in every reachable state of the program.            *)
THEOREM PyInvariance == PySpec => []PyInv
<1>1. PyInv /\ Inv' /\ (batch \in Batches)' /\ [PyNext]_allVars => PyInv'
  <2> SUFFICES ASSUME PyInv, Inv', (batch \in Batches)', [PyNext]_allVars
               PROVE  PyInv'
    OBVIOUS
  <2>1. CASE InCxx \/ InWorker
    BY <2>1, PyLoopStep
  <2>2. CASE UserCalls \/ PyStep \/ PyEnvironment
    BY <2>2, PyProgramStep
  <2>3. CASE UNCHANGED allVars
    BY <2>3 DEF allVars, loopVars, pyVars, PyInv, PyTypeOK, PlaceInv, SenderInv, DisableIsQuiet,
                FailedDisableParks, Still, Inv
  <2>4. QED
    BY <2>1, <2>2, <2>3 DEF PyNext, Ended, allVars, loopVars
<1>2. QED
  BY PyInitial, <1>1, ArmUsesLoop, Invariance, BatchType, PTL DEF PySpec

-----------------------------------------------------------------------------
(* Every variable of the program keeps its type.                           *)
THEOREM PyTypeCorrect == PySpec => []PyTypeOK
<1>1. PyInv => PyTypeOK
  BY DEF PyInv
<1>2. QED
  BY <1>1, PyInvariance, PTL

(* The worker never finds the connection gone in the middle of a tick.     *)
THEOREM NeverFaults == PySpec => []ArmNeverFaults
<1>1. PyInv => ArmNeverFaults
  BY DEF PyInv, ArmNeverFaults
<1>2. QED
  BY <1>1, PyInvariance, PTL

(* After disable() returned normally nobody sends to a motor.              *)
THEOREM QuietAfterDisable == PySpec => []DisableIsQuiet
<1>1. PyInv => DisableIsQuiet
  BY DEF PyInv
<1>2. QED
  BY <1>1, PyInvariance, PTL

(* A disable() that raised has stopped the loop and parked the motors.     *)
THEOREM ParkedWhenDisableRaises == PySpec => []FailedDisableParks
<1>1. PyInv => FailedDisableParks
  BY DEF PyInv
<1>2. QED
  BY <1>1, PyInvariance, PTL

(* The end of the program leaves neither a thread nor a connection.        *)
THEOREM ReleasedAtTheEnd == PySpec => []DelReleases
<1>1. PyInv => DelReleases
  BY DEF PyInv, SenderInv, Inv, ThreadInv, DelReleases
<1>2. QED
  BY <1>1, PyInvariance, PTL

(* The connection is only ever given up over parked motors.                *)
THEOREM ParkedBeforeDisabled == PySpec => DisabledParked
<1>1. PyInv /\ [PyNext]_allVars =>
        [control /\ ~control' => \A m \in Motors : last[m] \in {Zero, NoFrame}]_allVars
  <2> SUFFICES ASSUME PyInv, PyNext, control, ~control'
               PROVE  Still
    BY DEF Still
  <2>1. CASE Disarm
    BY <2>1 DEF Disarm, Disconnect, InPython, PyInv, PlaceInv, SenderInv
  <2>2. CASE ArmDestructor
    BY <2>2 DEF ArmDestructor, PyInv, PlaceInv, SenderInv
  <2>3. Disarm \/ ArmDestructor
    BY DEF PyNext, UserCalls, PyStep, PyEnvironment, InCxx, InWorker, Ended, vars, loopVars,
           Enable, StartMitLoop, Mit, CallStop, Started, FirstStates, CommandHome, Poll, Sleep,
           MitEntry, MitUnknown, MitDone, StopTest, StopLoop, Stopped, Destroy,
           KeyboardInterrupt, Feedback, Deadline, Connect, StartCall, SetAllCommands,
           SetCommand, StopCall, InsideMethod, StartJoin, StartSpawn, StartSpawnFails, StopJoin,
           StopZero, StopRethrow, Worker, WorkerTest, WorkerSnapshot, WorkerCheck, WorkerSend,
           WorkerWake, WorkerCatch, WorkerClear, WorkerExit
  <2>4. QED
    BY <2>1, <2>2, <2>3
<1>2. QED
  BY <1>1, PyInvariance, PTL DEF PySpec, DisabledParked
=============================================================================
