# DM OpenArm in TLA+

Specifications, model-checking configurations and proofs for the DM OpenArm
control library (`src/dm_openarm`): C++17 code that drives the motors of a
5-DOF arm over a USB-to-CAN-FD adapter, its Python package, its command-line
programs, and the vendor driver that is compiled into it
(`third_party/damiao_sdk/src/protocol/damiao.cpp`).

Paths below are relative to `src/dm_openarm` unless they begin with `src/`. The
vendor driver is in the repository twice, byte for byte the same: in
`third_party/damiao_sdk`, which the library is built from, and in
`src/resources/DMmotor`, which is the SDK with its demo. Line numbers of
`damiao.cpp` and `damiao.h` are valid in both; the map names the second.

## 1. Inventory

| Component | State it keeps | Operations | Talks to |
|---|---|---|---|
| `MitLoopController` (`src/mit_loop_controller.cpp`) | `commands_` under `mutex_`, atomic `running_`, `worker_`, `worker_exception_` | `start`, `stop`, `running`, `set_command`, `set_all_commands`, `commands`, destructor; `worker_loop` in a thread of its own | calls `DmArm::send_mit_all` from the worker and `send_zero_mit_all` from `stop` |
| `DmArm`, `DmSerialBackend` (`src/dm_arm.cpp`, `src/backend/dm_serial_backend.cpp`) | `control_` (the connection), `init_data_`, `config_` | `connect`, `disable`, `send_mit_all`, `send_zero_mit_all`, `set_zero`, `set_zero_all`, `states` | owns a `Motor_Control`; no lock of its own |
| `Arm` (`python/dm_openarm/arm.py`) | `_arm`, `_loop` | `enable`, `disable`, `start_mit_loop`, `stop_mit_loop`, `mit`, `set_zero`, `states`, `with`, `__del__` | short programs of calls into C++; a call holds the GIL |
| `Motor_Control` (`damiao.cpp`) | `motors` (id to motor, every motor under two ids), `read_write_save`, per motor `mode`, `state_q/dq/tau`, `param_map` | constructor (adds, enables), destructor (disables), `set_zero_position`, `save_motor_param`, `enable_all`, `control_mit`; `canframeCallback` on the USB library's thread | `usb_class` (closed binary), the motors |
| Loader (`src/yaml_loader.cpp`) | none | `load_arm_config` | its `ArmConfig` fills the table of motors |
| `arm_mit_control` (`examples/arm_mit_control.cpp`, `src/mit_control_command.cpp`) | `running`, targets: home, requested, active; a FIFO | reads lines, applies them, ramps, sends | other processes write the FIFO; SIGINT |
| `hold_position`, `check_comm`, `enable_disable`, `set_zero_position` (`examples`), demo of the SDK (`src/resources/DMmotor/src/main.cpp`) | a flag of the signal handler, counters, the commands to hold | sequences and loops of calls | `DmArm`, in the demo `Motor_Control`; SIGINT |
| `src/python_script/*` | - | straight-line clients | `Arm` |
| `Motor`, `MotorGroup`, `MotorBackend` | value classes | - | used by nothing else |

Three threads matter: the application (one thread: calls through the binding
are serialised by the GIL, which no call releases), the worker of the MIT loop,
and the thread of the USB library that runs `canframeCallback`. A fourth actor is
SIGINT, which sets a flag in the C++ programs and raises `KeyboardInterrupt` at any
bytecode in Python.

What is hard, and what makes each component correct:

* **MIT loop.** Start, stop and failure of the worker interleave; a joinable
  thread must not be overwritten, an old exception not be reported, nothing sent
  after the zero frames. A tick sends one version of the commands, whatever is
  set meanwhile.
* **Connection.** `control_` is used by the worker without a lock, so somebody must
  see to it that it is not reset meanwhile. In C++ that is left to the caller; in
  Python it is the order of the calls in `Arm`, under exceptions and Ctrl+C.
* **Driver.** One flag, set before a frame and cleared by the callback, decides how
  the next answer is decoded. Frames and answers can be lost or late. The motor
  may have been left enabled or in another mode by an earlier program. All motors
  must end enabled in MIT mode after connecting and after `set_zero(persist)`, and
  disabled after disconnecting.
* **Table of motors and frames.** CAN IDs and master IDs share one map and one name
  space, but are compared separately. A command is scaled by the limits found there
  into five fields of 12 and 16 bits that share bytes; nothing clamps a field.
* **Programs.** They read `states()` once after a sleep and act on it, zero motors one
  after the other while each save disables one motor and enables all, and end by an
  exception, a signal, or normally.
* **arm_mit_control.** Lines arrive at any time and in batches; targets are ramped;
  `stop` and SIGINT race the iteration under way.

`PROJECT.json` lists the hazards at their lines, with the properties that cover
them.

## 2. Modules

| Module | Models | State and code |
|---|---|---|
| `CommandStream` | abstract: what the loop promises on the bus | `up` (the connection), `open`, `failed` (a tick was refused), the commands asked for, the version being sent, the next motor, the last frame of each motor |
| `MitLoopController` | the loop on top of `DmSerialBackend`'s connection | `running`, `worker`, `worker_exception`, `commands`, `control` are the members of the same name; `pc` and `wpc` place the application inside `start`/`stop`/the destructors and the worker inside `worker_loop`; `snapshot`, `idx` are locals |
| `MitLoopControllerProofs` | theorems about it | |
| `PyArm` | `class Arm` (EXTENDS `MitLoopController`) | `py` places the program inside a method of `Arm`; every C++ call it makes is an action of `MitLoopController` |
| `MotorControl`, `MCMotorControl` | `Motor_Control` with the motors and the link, and `set_zero` of the backend | `phase`, `at`, `reps` place the calling thread in `enable_all`, `disable_all`, `set_zero`; `flag` is `read_write_save`; `handling` places the callback; `reg`, `enabled`, `zero`, `flash` are in the motors |
| `MotorPower` | abstract: what connecting, `set_zero` and disconnecting promise about the motors | the call under way, and mode, power and zero of every motor |
| `MotorControlProofs`, `MotorPowerProofs` | theorems about `MotorControl`; the second, that it implements `MotorPower` | |
| `Programs`, `MCPrograms`, `ProgramsProofs` | the programs of `examples` and the demo of the SDK, `arm_mit_control` as far as its calls go (EXTENDS `MotorControl`) | a program is the script of its calls; `ip` is the call it has come to, `unsent` the rest of a `send_mit_all`, the other variables are the locals of `main` |
| `FifoControl`, `MCFifoControl`, `FifoControlProofs` | `arm_mit_control` from its first target on, with its parser | the variables of `main` and the FIFO |
| `MotorTable`, `MotorTableProofs` | loader, `addMotor`, `getMotor` | `config`, `motors` |
| `MitFrame` | `float_to_uint`, `uint_to_float`, packing and unpacking, as operators | |
| `CommandPath`, `MCCommandPath`, `CommandPathProofs` | `control_mit` and the end of `canframeCallback` (EXTENDS `MotorTable`, `MitFrame`) | `bus` is a frame, made from an entry of the configuration by way of the table, or taken back the same way |

One action is one access to shared state with the local code up to the next one.
`start()` is `StartCall` (test of `running_`), `StartJoin`, `StartSpawn`; `stop()`
is `StopCall` (`exchange`), `StopJoin`, `StopZero`, `StopRethrow`; `worker_loop` is
`WorkerTest`, `WorkerSnapshot`, `WorkerCheck` (the checks of `send_mit_all`), one
`WorkerSend` per motor, `WorkerWake`, and `WorkerCatch`, `WorkerClear` when it
throws. `README.md:243` says that stopping sends a zero command and then stops the thread;
the code (`mit_loop_controller.cpp:56-64`), and the model with it, joins the thread first,
and ends with the same frames on the bus. `std::thread`'s constructor may throw (`StartSpawnFails`): `running_` then
stays true without a thread, so `start()` does nothing until `stop()` was called.
A worker that finds `control_` null in the middle of a tick is undefined behaviour:
it sets `fault` and nothing is said about the program from then on.

In `MotorControl` the driver's steps are `ReadCode` (the mode is read), `SetFlag`,
and the sending of the frame; the callback's are `Dispatch` (the flag is tested),
`TakeReply`, `ClearFlag` and `TakeState`. The motors are not in the repository;
they are modelled from the frames the driver sends and the answers it parses,
and are marked external in the map. The same holds for the link, which delivers in
order, late, or not at all.

In `MitFrame` a float is an integer, its multiple of a unit: the truncation to
`uint16_t`, the widths, shifts and masks are those of the code, the rounding of
`float` is left out. A conversion that C++ leaves undefined gives an arbitrary code.

## 3. Runs

| Run | What it asks | Result |
|---|---|---|
| `mit_loop` | Methods in any order, `disable()` under a running loop included: is the thread's lifecycle sound (`NoOrphanWorker`, `NoTerminate`, `ExceptionIsCurrent`), is a tick one vector (`TickIsOneVector`), do motors stay parked (`ParkedStaysZero`), does the worker fail only without a connection (`FailsOnlyUnconnected`), are the frames a `CommandStream` (`StreamSpec`), do methods return and commands arrive (`MethodsReturn`, `CommandReachesMotor`)? | holds, 265,365 states |
| `py_arm` | Does `Arm` keep the connection while the worker may use it (`ArmNeverFaults`), is it quiet after `disable()`, released at the end, parked before it is disabled (`DisabledParked`)? Has a `disable()` that raised ended the loop and parked the motors (`FailedDisableParks`)? Do methods return? | holds, 829,337 states |
| `py_arm_home_first` | arm.py:38, "All motors are first commanded to position 0" | violated: the worker starts before `set_all_commands`, and first sends what `mit()` set before `start_mit_loop()` |
| `py_arm_near_zero` | arm.py:38-40, blocks until every motor reports a position near 0 | violated: 0.0, the position before any feedback, passes |
| `driver_lossy` | Late answers, look-alike feedback, MIT frames meanwhile, motors left in any state, one loss: does connecting end with every motor enabled in MIT mode, disconnecting with every motor disabled? | holds, 848,730 states |
| `driver_timely` | If each answer arrives within the `usleep` after its frame: are stored positions feedback, is the zero saved, is the flag cleared again, do calls do to the motors what `MotorPower` says (`PowerSpec`)? | holds, 19,600 states |
| `driver_late` | damiao.cpp:530, what that branch decodes is ordinary feedback | violated when one register answer is late |
| `fifo` | Ramp, stop, targets | holds, 430,496 states |
| `fifo_nan` | src/README.md:423, targets are ramped at 0.6 rad/s | violated: `move 0x01 nan` |
| `programs` | SIGINT at any point, no adapter, an argument that names no motor, one loss: do the programs end (`ShutsDown`), leave the motors disabled unless they are killed (`EndsDisabled`), act only on states that were reported (`StatesAreReported`), zero and save what they were asked to and no other motor (`ZeroedAsAsked`)? | holds, 88,110 states |
| `command_path` | Is every motor of an accepted file found, the right one when no CAN ID is another motor's master ID? Does a command then reach that motor only, each field in range within a quantum, whatever the other fields are, and is a state stored as it was sent? | holds, 241,527 states |
| `motor_table_crossed` | src/README.md:373, `send_mit_all` reaches all motors | violated: a CAN ID equal to another motor's master ID |

Every passing property has a mutant: a change of a mapped definition that a
plausible bug would make and that the property detects under the run's own
configuration (`PROJECT.json`, `mutants`; the mutants stand next to the
definitions they change).

### Bounds

* `mit_loop`: 2 motors (a tick is interrupted between frames), commands zero, a and
  b (a torn vector differs from every whole one), 2 sessions (what one leaves for
  the next). The theorems remove all three bounds.
* `py_arm`: 1 motor (ticks are the subject of `mit_loop`), 2 sessions, 2
  interrupts (one in a method and one in the `disable()` that follows it). The two
  `py_arm_*` runs need one session: each trace is in the first one.
* `driver_*`: 2 motors in the map under two ids each, in an order in which their
  entries alternate; frames repeated twice rather than 5 times, so one loss must be
  survived by repetition and not by chance; `MaxInbox` answers owed to the caller,
  plus one to the loop. `driver_lossy` has one loss: with two, both writes of a
  motor's mode register can be lost, the read then makes the driver adopt the
  motor's old mode, and later connects write that mode back. That is a limit of the
  code, which writes once per map entry. `driver_timely` sets `MaxInbox` to 1,
  the assumption that 2 ms of `usleep` outlast the answer.
* `fifo`: 2 motors, 3 lines, moves smaller than a step, larger, at the limit and
  above it, of both signs; start positions that are not a multiple of the step
  apart.
* `programs`: 2 motors, 2 rounds of the loop of `check_comm` (100 in the code), one
  loss, answers in time. `StatesAreReported` and `ZeroedAsAsked` speak of runs without
  a loss: with one, a motor that did not answer is sent to 0.0, or a zero is not
  saved although the program says so. That no other motor is zeroed holds in all of
  them.
* `motor_table_crossed`, `command_path`: 3 motors over 5 ids, which leaves room for
  distinct, equal and crossed ones. Commands are at the ends of the ranges, odd, a bit
  outside and far outside; limits are those of two models, in units of 0.5; an
  undefined conversion gives 0 or 65535 (all bits clear or set) in each field.

### Fairness

`WF` of the worker and of the part of the application that is inside a method: both
are threads the operating system schedules, `sleep_until` returns, a USB write
returns, `join` returns when the thread has ended. What the application calls next
has no fairness. `PyArm` adds the clock reaching the deadline.
`MotorControl` assumes that the calling thread comes back from `usleep` and that the
library delivers what has arrived; not that anything arrives. `Programs` assumes the same of `main()` and of the callback
as long as the process is not killed. `FifoControl`
assumes the main loop is scheduled; neither writers nor SIGINT are fair.

## 4. Proofs

`MitLoopControllerProofs` proves, for every number of motors, every set of commands
and every bound on sessions:

* `Invariance`: `Spec => []Inv`. The safety properties are not inductive by
  themselves: that the zero frames are the last needs that no worker is alive at
  `StopZero`; that one `start()` overwrites no thread needs that `worker_` is "none" at
  `StartSpawn`. `ThreadInv` says where each thread may be while the other is where
  it is (in particular `worker_` is not joinable once `join` was passed, and
  `running_` is false inside `stop`), `FailureInv` says when an exception is stored (a
  worker whose `running_` was cleared without one is being joined by `stop`), and
  `TickInv` relates the worker's place to how much of the snapshot is on the bus. `Inv` is their conjunction with the type
  invariant and the properties; `mit_loop` checks it first. One lemma per group
  of actions (`MethodInv`, `CallInv`, `WorkerInv`) has one step per action.
* `TypeCorrect`, `Parked`, `NoOrphan`, `NeverTerminates`, `CurrentException`,
  `OneVectorPerTick`: the invariants of the run.
* `FailsUnconnected`: the action property.
* `Refinement`: `Spec => StreamSpec`, the refinement of `CommandStream` under the
  mapping `up <- control, open <- StreamOpen, failed <- StreamFailed, cmds <- commands,
  cur <- snapshot, next <- StreamNext`. The stream is open as long as somebody may still
  send: a running worker, or a `stop()` that owes the zero frames. It may end without
  the zero frames (`Abort`) only when a tick was refused or the connection is gone;
  `FailureInv` is what excludes every other end.

They rest on the ASSUMEs of `MitLoopController` only: at least one motor, the zero
command is a command, no command is `NoFrame`, at least one session.

`PyArmProofs` proves `ArmUsesLoop`: a behaviour of `PySpec` is one of `Spec`, the
environment of the loop being the methods of `Arm`. So `Inv` and `StreamSpec`
(`ArmStream`) hold under it, and the proofs build on them. `NeverFaults`,
`QuietAfterDisable`, `ReleasedAtTheEnd`, `ParkedWhenDisableRaises`,
`ParkedBeforeDisabled` and `PyTypeCorrect` follow from `PyInvariance`. `PyInv` adds to `Inv` where a method of `Arm` may be
while the call into C++ is where it is (`PlaceInv`: in particular the loop does not
run once `disable()` or `__del__` is past `stop()`), and who may still send
(`SenderInv`: a worker that sends has the connection, and a motor whose last frame is
not zero has somebody left to park it). The second is what makes "parked before
disabled" inductive: a worker that was killed by its own exception has sent nothing
but zero commands or nothing.

`MotorControlProofs` is about any set of motors, any order of the map, any number of
repetitions and calls, with or without a control loop sending meanwhile. Each of its
four parts assumes of the link only what it needs:

* Types need nothing. `DriverTypeCorrect`: the callback never takes from an empty inbox
  and the loops stay within the map.
* What becomes of a motor depends on the losses only. `DriverInvariance` proves
  `DriverInv`: for each motor that has more entries in the map than frames and
  answers were lost so far (`Spared`), `Served` says where each loop has brought it. A
  loop can leave a motor behind only by losing a frame at every entry it came past,
  so the number of entries passed in vain is at most the number of losses
  (`Behind`); when the loop is over that would be all of its entries. `SparedMotors`
  follows without any assumption; `OnIsMit` and `OffIsDisabled` from `Spare`: every
  motor has more entries than frames and answers can be lost. `addMotor` gives a
  motor two, so one loss is survived, as `driver_lossy` checks, and two are not. Late
  answers and look-alike feedback do no harm.
* `SavedZero` assumes that nothing is lost (`MaxLosses = 0`), since the frames of
  `set_zero` are sent once. `SavingInv` follows the zero from the frame that sets it to
  flash; it holds as long as nothing was lost, and needs no answer in time.
* `RealPositions` assumes `Timely`: `usleep` outlasts the answer to a frame, and what a
  control loop is answered does not look like a register answer. Losses do no harm.
  `driver_late` shows garbage positions without the first; without the second the flag
  is cleared while the register answer is still under way. `AnswerInv` says that
  the caller is owed one answer at most, and that while it is the answer to a register
  access the flag is set and the callback is not about to store it.

`MotorPowerProofs` proves `PowerRefinement`: while nothing is lost `Spec => PowerSpec`, the
refinement of `MotorPower`. A call is mapped from `phase`; `enable_all` belongs to
connecting as long as `set_zero` was never called and to `set_zero` afterwards. Besides
`DriverInv` and `SavingInv`, whose primed forms give what holds when a call returns, it
needs `ZeroInv`: `enable_all` after a `set_zero` means that it saves, and the zero is set
by then.

`ProgramsProofs` puts the programs on top of that: every step of a program is a `Step` of
the driver or the failure to open the adapter (`DriverPart`), for any arm, any arguments,
and SIGINT at any point.

* `ProgInvariance`: a program that opened the adapter keeps `DriverInv`, and one that did
  not does nothing more. `ProgTypeCorrect` and, assuming `Spare`, `ProgramsEndDisabled`
  follow.
* `ProgramsReadPositions`: with answers in time no register answer is stored, whatever
  is lost and, unlike in `RealPositions`, whatever feedback looks like. The reason is in
  the scripts: each sleeps after `send_mit_all`, at once or after `states()`, so no
  feedback is under way when the next call begins (`LooseInv`).
* `ProgramsReadStates` (`StatesAreReported`) assumes answers in time and a frame for
  enabling that is sent more than once; that nothing is lost is part of the property.
  `FlagInv` adds to `AnswerInv` that an answer which is no register's finds the flag clear,
  so it is stored; `FedInv` that in the loop that enables, only the answer to the last
  frame sent may not be stored yet.
* `ProgramsZeroAsAsked` assumes nothing. `AskedInv` holds with losses: `set_zero` works on
  a motor that was asked for, with `persist` as the arguments say. `ZeroedInv` holds until
  something is lost: a motor asked for is still to come, being zeroed, or done.
* `ProgramsPower`: while nothing is lost every program implements `MotorPower`. No run
  states it; the mapping is that of `PowerSpec`, with a program that could not open
  the adapter mapped to one that never began.

`FifoControlProofs`: `AtMostOneLate` and `RampKept`, for every step, start, limit and
number of lines; `RampKept` assumes that no delta is NaN, which `fifo_nan` shows to be
needed. `FifoInv` says that what is sent is the active target, a number, and that no
iteration begins after `running` was cleared.

`MotorTableProofs`: `NoMotorMissing`, `RightMotor`, for any number of motors and ids.
`TableInv`: accepted ids are distinct per kind, and what the map has under an id is a
motor with that id.

`CommandPathProofs`: the five codes of a frame and the three of feedback are read back
from the shared bytes as they were packed (`FieldsDoNotMix`, `ReadingArrives`), for all
codes; `EncodeInRange` bounds the code and the error for all limits. With the table
that gives `EveryCommandArrives`, `EveryStateArrives` and `PathTypeCorrect`, for any
configuration, limits and commands.

All safety and action properties and both refinements that a passing run checks are
proved. Only model-checked: the liveness properties (`MethodsReturn`,
`CommandReachesMotor`, `ArmMethodsReturn`, `FlagClears`, `ShutsDown`,
`StopEnds`, `TargetIsReached`), since they rest on fairness, which is out of the prover's
reach here.

## 5. Not modelled

* Time: the pacing of ticks (`next_tick`), the timing of `usleep`. A deadline is an
  event that happens sometime. The repository bounds no rate, so there is nothing to
  hold the burst after a stall to.
* `set_zero` together with the commands a running loop holds: `MotorControl` has the
  stream of frames, `MitLoopController` the commands, and no document says what is to
  happen to commands given before a zero.
* Data races on `float` fields and on `param_map` between callback and reader: no
  reader relates two fields, so a torn state cannot be told from two states.
* The rounding of `float` in the encoding.
* `control_pos_vel`, `control_vel`, `change_motor_param`, `changeMotorLimit`,
  `refresh_motor_status`, `Motor`, `MotorGroup`, `MotorBackend`: not called.
* The closed USB library, the firmware of the motors, YAML syntax, printing,
  `src/resources/DMmotor/src/dev_sn.cpp` (lists adapters), `build` (generated).
* `src/python_script/*`: straight-line clients; `PyArm` lets methods be called in any
  order.
* `tests/test_python_api.py` and `python/dm_openarm/examples/mit_loop_control.py` use
  methods `Arm` no longer has.

## 6. Plan

Done in this order: `CommandStream` and `MitLoopController` with its proofs, `PyArm`,
`MotorControl`, `FifoControl`, `MotorTable`, `MitFrame`, `CommandPath`, `Programs`,
`MotorPower`, and the proofs about all of them. Left:

1. A finer bound on losses: enabling and disabling repeat their frame at every entry, so
   they survive more losses than the entries count; only the mode is written once per
   entry.
2. The programs on the table of motors: `Visits` is an arbitrary order here, which
   `MotorTable` could be shown to provide.
3. Positions relative to the zero, to compose `set_zero` with a running loop; a clock,
   for the pacing of ticks.
