------------------------------- MODULE PyArm -------------------------------
(***************************************************************************)
(* The Python class Arm (dm_openarm/python/dm_openarm/arm.py) on top of    *)
(* MitLoopController: its methods are short programs of calls into C++,    *)
(* and between two calls the worker thread runs on, feedback arrives, time *)
(* passes and Ctrl+C may raise KeyboardInterrupt.                          *)
(*                                                                         *)
(* A call into C++ holds the GIL, so an interrupt waits until it returns.  *)
(* set_zero changes nothing that is modelled here, and states() and        *)
(* commands() change nothing at all; neither has an action.                *)
(***************************************************************************)
EXTENDS MitLoopController

CONSTANTS
  Home,           \* the command start_mit_loop gives every motor: kp=12, kd=0.6, q=0
  MaxInterrupts   \* bound on the number of KeyboardInterrupts

ASSUME HomeAssumption == Home \in Command
ASSUME InterruptsAssumption == MaxInterrupts \in Nat

VARIABLES
  py,          \* where the program is; "user" is between two methods of Arm
  method,      \* the method of Arm that was called last
  outcome,     \* how it ended
  batch,       \* mit(): the CAN IDs still to be set, with their commands
  reported,    \* what states() says of each position; "initial" is 0.0, nothing received
  timedOut,    \* time.monotonic() >= deadline
  homed,       \* history: set_all_commands(Home) was called in this session
  interrupts   \* KeyboardInterrupts so far

loopVars == vars
pyVars == <<py, method, outcome, batch, reported, timedOut, homed, interrupts>>
allVars == <<loopVars, pyVars>>

Batches == UNION {[S -> Command] : S \in SUBSET Motors}
Nothing == [m \in {} |-> Zero]

PyTypeOK ==
  /\ TypeOK
  /\ py \in {"user", "starting", "states", "home", "poll", "sleep", "mit",
             "stopTest", "stopCall", "stopping", "disconnect", "destroy",
             "destroying"}
  /\ method \in {"none", "enable", "start", "mit", "stop", "disable", "del"}
  /\ outcome \in {"ok", "error", "interrupt"}
  /\ batch \in Batches
  /\ reported \in [Motors -> {"initial", "near", "far"}]
  /\ timedOut \in BOOLEAN
  /\ homed \in BOOLEAN
  /\ interrupts \in 0..MaxInterrupts

PyInit ==
  /\ Init
  /\ py = "user"
  /\ method = "none"
  /\ outcome = "ok"
  /\ batch = Nothing
  /\ reported = [m \in Motors |-> "initial"]
  /\ timedOut = FALSE
  /\ homed = FALSE
  /\ interrupts = 0

-----------------------------------------------------------------------------
Begin(name, place) ==
  /\ py = "user"
  /\ method' = name
  /\ py' = place

Finish ==
  /\ py' = "user"
  /\ outcome' = "ok"

(* An exception leaves the method; __del__ swallows it (and Python ignores *)
(* a KeyboardInterrupt in it), and the destructors follow.                 *)
Raise(how) ==
  /\ py' = IF method = "del" THEN "destroy" ELSE "user"
  /\ outcome' = how

(* Control returns from C++ to Python. *)
InPython(place) == py = place /\ pc = "idle"

-----------------------------------------------------------------------------
(* enable(): a new Motor_Control has new Motor objects at position 0.0.    *)
Enable ==
  /\ Begin("enable", "user")
  /\ Connect
  /\ outcome' = "ok"
  /\ reported' = [m \in Motors |-> "initial"]
  /\ UNCHANGED <<batch, timedOut, homed, interrupts>>

(* start_mit_loop(): start() returns at once when the loop runs already.   *)
StartMitLoop ==
  /\ IF running
       THEN Begin("start", "states") /\ UNCHANGED <<loopVars, homed>>
       ELSE Begin("start", "starting") /\ StartCall /\ homed' = FALSE
  /\ UNCHANGED <<outcome, batch, reported, timedOut, interrupts>>

Started ==
  /\ InPython("starting")
  /\ IF result = "noThread"
       THEN Raise("error")
       ELSE py' = "states" /\ UNCHANGED outcome
  /\ UNCHANGED <<loopVars, method, batch, reported, timedOut, homed, interrupts>>

(* states() throws when the arm is not connected. *)
FirstStates ==
  /\ InPython("states")
  /\ IF control
       THEN py' = "home" /\ UNCHANGED outcome
       ELSE Raise("error")
  /\ UNCHANGED <<loopVars, method, batch, reported, timedOut, homed, interrupts>>

CommandHome ==
  /\ InPython("home")
  /\ SetAllCommands([m \in Motors |-> Home])
  /\ homed' = TRUE
  /\ timedOut' = FALSE
  /\ py' = "poll"
  /\ UNCHANGED <<method, outcome, batch, reported, interrupts>>

(* abs(0.0) < pos_tol: a motor that never reported counts as near zero.    *)
AllNear == \A m \in Motors : reported[m] \in {"initial", "near"}

(* mutant: the deadline is not looked at *)
PollForever ==
  /\ InPython("poll")
  /\ IF AllNear THEN Finish ELSE py' = "sleep" /\ UNCHANGED outcome
  /\ UNCHANGED <<loopVars, method, batch, reported, timedOut, homed, interrupts>>

Poll ==
  /\ InPython("poll")
  /\ IF AllNear \/ timedOut THEN Finish ELSE py' = "sleep" /\ UNCHANGED outcome
  /\ UNCHANGED <<loopVars, method, batch, reported, timedOut, homed, interrupts>>

Sleep ==
  /\ InPython("sleep")
  /\ py' = "poll"
  /\ UNCHANGED <<loopVars, method, outcome, batch, reported, timedOut, homed,
                 interrupts>>

-----------------------------------------------------------------------------
(* mit(): one set_command per entry of the dictionary; one entry when it   *)
(* is called with a CAN ID.  An ID that is not configured raises and       *)
(* leaves the entries before it set.                                       *)
Mit(entries) ==
  /\ Begin("mit", "mit")
  /\ batch' = entries
  /\ UNCHANGED <<loopVars, outcome, reported, timedOut, homed, interrupts>>

MitEntry(m) ==
  /\ InPython("mit")
  /\ SetCommand(m, batch[m])
  /\ batch' = [k \in DOMAIN batch \ {m} |-> batch[k]]
  /\ UNCHANGED <<py, method, outcome, reported, timedOut, homed, interrupts>>

MitUnknown ==
  /\ InPython("mit")
  /\ Raise("error")
  /\ batch' = Nothing
  /\ UNCHANGED <<loopVars, method, reported, timedOut, homed, interrupts>>

MitDone ==
  /\ InPython("mit")
  /\ batch = Nothing
  /\ Finish
  /\ UNCHANGED <<loopVars, method, batch, reported, timedOut, homed, interrupts>>

-----------------------------------------------------------------------------
(* stop_mit_loop(), which disable() begins with; __exit__ and __del__ call *)
(* disable().                                                              *)
CallStop(name) ==
  /\ Begin(name, "stopTest")
  /\ UNCHANGED <<loopVars, outcome, batch, reported, timedOut, homed, interrupts>>

AfterStop ==
  IF method = "stop" THEN Finish ELSE py' = "disconnect" /\ UNCHANGED outcome

(* mutant: disable() does not stop the loop *)
StopTestSkipped ==
  /\ InPython("stopTest")
  /\ AfterStop
  /\ UNCHANGED <<loopVars, method, batch, reported, timedOut, homed, interrupts>>

StopTest ==
  /\ InPython("stopTest")
  /\ IF running THEN py' = "stopCall" /\ UNCHANGED outcome ELSE AfterStop
  /\ UNCHANGED <<loopVars, method, batch, reported, timedOut, homed, interrupts>>

StopLoop ==
  /\ InPython("stopCall")
  /\ StopCall
  /\ ~dying'
  /\ py' = "stopping"
  /\ UNCHANGED <<method, outcome, batch, reported, timedOut, homed, interrupts>>

Stopped ==
  /\ InPython("stopping")
  /\ IF result = "ok" THEN AfterStop ELSE Raise("error")
  /\ UNCHANGED <<loopVars, method, batch, reported, timedOut, homed, interrupts>>

(* _arm.disable() *)
Disarm ==
  /\ InPython("disconnect")
  /\ Disconnect
  /\ IF method = "del" THEN Raise("ok") ELSE Finish
  /\ UNCHANGED <<method, batch, reported, timedOut, homed, interrupts>>

(* The attributes die with the object: _arm is kept alive by _loop, so     *)
(* ~MitLoopController runs first and ~DmArm after it.                      *)
Destroy ==
  /\ InPython("destroy")
  /\ StopCall
  /\ dying'
  /\ py' = "destroying"
  /\ UNCHANGED <<method, outcome, batch, reported, timedOut, homed, interrupts>>

-----------------------------------------------------------------------------
KeyboardInterrupt ==
  /\ py \notin {"user", "destroy", "destroying"}
  /\ pc = "idle"
  /\ interrupts < MaxInterrupts
  /\ interrupts' = interrupts + 1
  /\ batch' = Nothing
  /\ Raise("interrupt")
  /\ UNCHANGED <<loopVars, method, reported, timedOut, homed>>

Feedback(m, where) ==
  /\ control
  /\ reported' = [reported EXCEPT ![m] = where]
  /\ UNCHANGED <<loopVars, py, method, outcome, batch, timedOut, homed, interrupts>>

Deadline ==
  /\ py \in {"poll", "sleep"}
  /\ timedOut' = TRUE
  /\ UNCHANGED <<loopVars, py, method, outcome, batch, reported, homed, interrupts>>

-----------------------------------------------------------------------------
UserCalls ==
  \/ Enable
  \/ StartMitLoop
  \/ \E entries \in Batches : Mit(entries)
  \/ \E name \in {"stop", "disable", "del"} : CallStop(name)

PyStep ==
  \/ Started \/ FirstStates \/ CommandHome \/ Poll \/ Sleep
  \/ (\E m \in DOMAIN batch : MitEntry(m)) \/ MitUnknown \/ MitDone
  \/ StopTest \/ StopLoop \/ Stopped \/ Disarm \/ Destroy

PyEnvironment ==
  \/ KeyboardInterrupt
  \/ \E m \in Motors, where \in {"near", "far"} : Feedback(m, where)
  \/ Deadline

InCxx == InsideMethod /\ UNCHANGED pyVars
InWorker == Worker /\ UNCHANGED pyVars

PyNext ==
  \/ fault = "none" /\ (UserCalls \/ PyStep \/ PyEnvironment \/ InCxx \/ InWorker)
  \/ Ended /\ UNCHANGED pyVars

PySpec == PyInit /\ [][PyNext]_allVars

(* The interpreter and the worker are scheduled, and the clock advances.   *)
PyFairness ==
  /\ WF_allVars(fault = "none" /\ (PyStep \/ InCxx))
  /\ WF_allVars(fault = "none" /\ InWorker)
  /\ WF_allVars(fault = "none" /\ Deadline)

PyFairSpec == PySpec /\ PyFairness

-----------------------------------------------------------------------------
(* Arm never takes the connection away under a worker that may still send, *)
(* wherever an exception or Ctrl+C cuts a method short.                    *)
ArmNeverFaults == fault = "none"

(* When disable() returns normally the motors are disabled and no worker   *)
(* can send them another frame.                                            *)
DisableIsQuiet ==
  py = "user" /\ method = "disable" /\ outcome = "ok"
    => ~control /\ wpc \in {"none", "exit"}

(* When disable() raises, because stop() does, the connection stays and    *)
(* the motors stay enabled.  But the loop has ended, so that another       *)
(* disable() is not stopped short by it, and the motors are parked, so     *)
(* that nothing moves until then.                                          *)
FailedDisableParks ==
  py = "user" /\ method = "disable" /\ outcome = "error"
    => ~running /\ worker = "none" /\ \A m \in Motors : last[m] \in {Zero, NoFrame}

(* However the program ends, the arm is disabled and no thread is left.    *)
DelReleases == pc = "dead" => ~control /\ worker = "none"

(* Motors are disabled only after their last MIT frame was the zero        *)
(* command, so none is enabled again with a stale one in force.            *)
DisabledParked ==
  [][control /\ ~control' => \A m \in Motors : last[m] \in {Zero, NoFrame}]_allVars

(* Every method of Arm returns, start_mit_loop() at its deadline.          *)
ArmMethodsReturn ==
  py # "user" ~> py = "user" \/ pc = "dead" \/ fault # "none"

(* arm.py:38: all motors are first commanded to position 0.  (Zero has     *)
(* position 0 as well.)  It does not hold: the worker runs before the home *)
(* commands are set, and sends what mit() set before start_mit_loop().     *)
HomeFirst ==
  [][wpc = "send" /\ idx' = idx + 1 /\ ~homed => last'[idx] \in {Home, Zero}]_allVars

(* arm.py:38-40: start_mit_loop() blocks until every motor reports a       *)
(* position near 0 or the timeout has elapsed.                             *)
ReturnsNearZero ==
  [][InPython("poll") /\ py' = "user" /\ outcome' = "ok" /\ ~timedOut
       => \A m \in Motors : reported[m] = "near"]_allVars
=============================================================================
