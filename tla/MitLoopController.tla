------------------------- MODULE MitLoopController -------------------------
(***************************************************************************)
(* The background MIT control loop (dm_openarm/src/mit_loop_controller.cpp)*)
(* on top of the connection that DmArm and DmSerialBackend own             *)
(* (src/dm_arm.cpp, src/backend/dm_serial_backend.cpp).                    *)
(*                                                                         *)
(* Two threads are modelled.  The application side calls the public        *)
(* methods one after the other: a C++ program drives the arm from one      *)
(* thread, and the Python binding keeps the GIL during a call, so calls of *)
(* several Python threads do not overlap either.  The worker is the thread *)
(* that start() spawns; it interleaves with the application at every       *)
(* access to shared state.                                                 *)
(*                                                                         *)
(* Here the application may call the methods in ANY order, disable() of    *)
(* the arm while the loop runs included; PyArm restricts the order to what *)
(* the Python class does.  Calls that throw before they change anything    *)
(* (a frequency that is not positive, an unknown CAN ID, connecting twice) *)
(* are stuttering steps and have no action.                                *)
(***************************************************************************)
EXTENDS Naturals

CONSTANTS
  N,            \* number of configured motors; motor i is entry i of config_.motors
  Command,      \* the MIT commands that occur
  Zero,         \* MitCommand{}: every field 0.0
  NoFrame,      \* no MIT frame was sent to the motor yet
  MaxSessions   \* bound on the number of times a worker is spawned

ASSUME NAssumption == N \in Nat \ {0}
ASSUME CommandAssumption == Zero \in Command /\ NoFrame \notin Command
ASSUME SessionsAssumption == MaxSessions \in Nat \ {0}

VARIABLES
  running,           \* running_, the atomic flag
  worker,            \* worker_: "none" is not joinable, "exited" is joinable and finished
  worker_exception,  \* worker_exception_: 0 is nullptr, k was thrown in session k
  commands,          \* commands_, guarded by mutex_
  control,           \* is control_ of the backend non-null?
  pc,                \* where the application is inside a method
  was_running,       \* the local of stop()
  result,            \* how the last stop() or start() ended
  dying,             \* the destructors are being run
  wpc,               \* where the worker is inside worker_loop
  snapshot,          \* the local of worker_loop
  idx,               \* the motor the loop of send_mit_all has reached; N + 1 outside it
  last,              \* the last MIT frame put on the bus for each motor
  session,           \* number of workers spawned so far
  parked,            \* history: stop() sent its zero frames and no start() followed
  fault              \* undefined behaviour or std::terminate happened

threadVars == <<running, worker, worker_exception>>
callVars == <<was_running, result, dying>>
appVars == <<pc, callVars>>
tickVars == <<snapshot, idx>>
workVars == <<wpc, tickVars>>
busVars == <<last, session, parked, fault>>
vars == <<threadVars, commands, control, appVars, workVars, busVars>>

Motors == 1..N
AllZero == [m \in Motors |-> Zero]

(* Argument vectors of set_all_commands: of the right length or not. *)
Vectors == UNION {[1..k -> Command] : k \in 0..(N + 1)}

TypeOK ==
  /\ running \in BOOLEAN
  /\ worker \in {"none", "live", "exited"}
  /\ worker_exception \in 0..MaxSessions
  /\ commands \in [Motors -> Command]
  /\ control \in BOOLEAN
  /\ pc \in {"idle", "startJoin", "startSpawn", "stopJoin", "stopZero",
             "stopRethrow", "armDtor", "dead"}
  /\ was_running \in BOOLEAN
  /\ result \in {"ok", "notConnected", "workerFailed", "noThread"}
  /\ dying \in BOOLEAN
  /\ wpc \in {"none", "test", "snap", "check", "send", "sleep", "catch",
              "clear", "exit"}
  /\ snapshot \in [Motors -> Command]
  /\ idx \in 1..(N + 1)
  /\ last \in [Motors -> Command \cup {NoFrame}]
  /\ session \in 0..MaxSessions
  /\ parked \in BOOLEAN
  /\ fault \in {"none", "terminate", "nullControl"}

Init ==
  /\ running = FALSE
  /\ worker = "none"
  /\ worker_exception = 0
  /\ commands = AllZero
  /\ control = FALSE
  /\ pc = "idle"
  /\ was_running = FALSE
  /\ result = "ok"
  /\ dying = FALSE
  /\ wpc = "none"
  /\ snapshot = AllZero
  /\ idx = N + 1
  /\ last = [m \in Motors |-> NoFrame]
  /\ session = 0
  /\ parked = FALSE
  /\ fault = "none"

-----------------------------------------------------------------------------
(* start().  When running_ is already set it returns at once, which is a   *)
(* stuttering step.  Otherwise an old worker is joined, the old exception  *)
(* dropped and a thread spawned.                                           *)

StartCall ==
  /\ pc = "idle"
  /\ ~running
  /\ session < MaxSessions
  /\ pc' = "startJoin"
  /\ UNCHANGED <<threadVars, commands, control, callVars, workVars, busVars>>

(* mutant: the old thread is not joined *)
StartJoinSkipped ==
  /\ pc = "startJoin"
  /\ pc' = "startSpawn"
  /\ UNCHANGED <<threadVars, commands, control, callVars, workVars, busVars>>

(* worker_.join() returns once the worker has left worker_loop; it is      *)
(* skipped when the thread is not joinable.                                *)
StartJoin ==
  /\ pc = "startJoin"
  /\ worker # "live"
  /\ worker' = "none"
  /\ pc' = "startSpawn"
  /\ UNCHANGED <<running, worker_exception, commands, control, callVars,
                 workVars, busVars>>

(* mutant: the exception of the session before is kept *)
StartSpawnKeepsException ==
  /\ pc = "startSpawn"
  /\ running' = TRUE
  /\ parked' = FALSE
  /\ pc' = "idle"
  /\ result' = "ok"
  /\ session' = session + 1
  /\ worker' = "live"
  /\ wpc' = "test"
  /\ UNCHANGED <<worker_exception, commands, control, was_running, dying,
                 tickVars, last, fault>>

(* Assigning a new thread to a joinable worker_ calls std::terminate. *)
StartSpawn ==
  /\ pc = "startSpawn"
  /\ worker_exception' = 0
  /\ running' = TRUE
  /\ parked' = FALSE
  /\ pc' = "idle"
  /\ result' = "ok"
  /\ session' = session + 1
  /\ IF worker = "none"
       THEN worker' = "live" /\ wpc' = "test" /\ UNCHANGED fault
       ELSE fault' = "terminate" /\ UNCHANGED <<worker, wpc>>
  /\ UNCHANGED <<commands, control, was_running, dying, tickVars, last>>

(* std::thread's constructor throws std::system_error when the system has  *)
(* no thread to give: running_ was set before and is not reset.            *)
StartSpawnFails ==
  /\ pc = "startSpawn"
  /\ worker_exception' = 0
  /\ running' = TRUE
  /\ parked' = FALSE
  /\ pc' = "idle"
  /\ result' = "noThread"
  /\ UNCHANGED <<worker, commands, control, was_running, dying, workVars,
                 last, session, fault>>

-----------------------------------------------------------------------------
(* stop(), and ~MitLoopController which calls it and swallows what it      *)
(* throws.  The caller goes on, or ~DmArm runs next.                       *)

Return(r) ==
  /\ pc' = IF dying THEN "armDtor" ELSE "idle"
  /\ result' = r

(* running_.exchange(false) *)
StopCall ==
  /\ pc = "idle"
  /\ was_running' = running
  /\ running' = FALSE
  /\ pc' = "stopJoin"
  /\ dying' \in BOOLEAN
  /\ UNCHANGED <<worker, worker_exception, commands, control, result,
                 workVars, busVars>>

(* mutant: stop() goes on while the worker still runs *)
StopJoinNotWaiting ==
  /\ pc = "stopJoin"
  /\ pc' = IF was_running THEN "stopZero" ELSE "stopRethrow"
  /\ UNCHANGED <<threadVars, commands, control, callVars, workVars, busVars>>

StopJoin ==
  /\ pc = "stopJoin"
  /\ worker # "live"
  /\ worker' = "none"
  /\ pc' = IF was_running THEN "stopZero" ELSE "stopRethrow"
  /\ UNCHANGED <<running, worker_exception, commands, control, callVars,
                 workVars, busVars>>

(* mutant: nothing is sent when the loop stops *)
StopZeroSkipped ==
  /\ pc = "stopZero"
  /\ pc' = "stopRethrow"
  /\ UNCHANGED <<threadVars, commands, control, callVars, workVars, busVars>>

(* arm_.send_zero_mit_all() throws on a backend without a connection; the  *)
(* exception of the worker then stays where it is.  Nobody else sends or   *)
(* changes the connection meanwhile, so its frames are one step.           *)
StopZero ==
  /\ pc = "stopZero"
  /\ IF control
       THEN /\ last' = AllZero
            /\ parked' = TRUE
            /\ pc' = "stopRethrow"
            /\ UNCHANGED result
       ELSE /\ Return("notConnected")
            /\ UNCHANGED <<last, parked>>
  /\ UNCHANGED <<threadVars, commands, control, was_running, dying, workVars,
                 session, fault>>

StopRethrow ==
  /\ pc = "stopRethrow"
  /\ Return(IF worker_exception # 0 THEN "workerFailed" ELSE "ok")
  /\ worker_exception' = 0
  /\ UNCHANGED <<running, worker, commands, control, was_running, dying,
                 workVars, busVars>>

-----------------------------------------------------------------------------
(* set_command and set_all_commands: one critical section of mutex_ each.  *)

(* mutant: the CAN ID, which counts from 1, is taken for the index *)
SetCommandShifted(m, c) ==
  /\ pc = "idle"
  /\ commands' = [k \in Motors \cup {m + 1} |-> IF k = m + 1 THEN c ELSE commands[k]]
  /\ UNCHANGED <<threadVars, control, appVars, workVars, busVars>>

SetCommand(m, c) ==
  /\ pc = "idle"
  /\ commands' = [commands EXCEPT ![m] = c]
  /\ UNCHANGED <<threadVars, control, appVars, workVars, busVars>>

(* mutant: the length is not checked *)
SetAllCommandsUnchecked(vec) ==
  /\ pc = "idle"
  /\ commands' = vec
  /\ UNCHANGED <<threadVars, control, appVars, workVars, busVars>>

(* A vector of another length is refused. *)
SetAllCommands(vec) ==
  /\ pc = "idle"
  /\ DOMAIN vec = DOMAIN commands
  /\ commands' = vec
  /\ UNCHANGED <<threadVars, control, appVars, workVars, busVars>>

-----------------------------------------------------------------------------
(* The connection.  control_ is assigned after Motor_Control's constructor *)
(* has enabled the motors; reset() clears it before the destructor runs.   *)

Connect ==
  /\ pc = "idle"
  /\ ~control
  /\ control' = TRUE
  /\ UNCHANGED <<threadVars, commands, appVars, workVars, busVars>>

Disconnect ==
  /\ pc = "idle"
  /\ control' = FALSE
  /\ UNCHANGED <<threadVars, commands, appVars, workVars, busVars>>

(* mutant: the destructor does not disable *)
ArmDestructorEmpty ==
  /\ pc = "armDtor"
  /\ pc' = "dead"
  /\ UNCHANGED <<threadVars, commands, control, callVars, workVars, busVars>>

(* ~DmArm, after ~MitLoopController *)
ArmDestructor ==
  /\ pc = "armDtor"
  /\ control' = FALSE
  /\ pc' = "dead"
  /\ UNCHANGED <<threadVars, commands, callVars, workVars, busVars>>

-----------------------------------------------------------------------------
(* worker_loop(), up to the access to shared state that ends each step.    *)

(* mutant: while(true) *)
WorkerTestForever ==
  /\ wpc = "test"
  /\ wpc' = "snap"
  /\ UNCHANGED <<threadVars, commands, control, appVars, tickVars, busVars>>

WorkerTest ==
  /\ wpc = "test"
  /\ wpc' = IF running THEN "snap" ELSE "exit"
  /\ UNCHANGED <<threadVars, commands, control, appVars, tickVars, busVars>>

(* mutant: the copy is taken before the loop, not in it *)
WorkerSnapshotOnce ==
  /\ wpc = "snap"
  /\ snapshot' = IF last[1] = NoFrame THEN commands ELSE snapshot
  /\ idx' = 1
  /\ wpc' = "check"
  /\ UNCHANGED <<threadVars, commands, control, appVars, busVars>>

(* The copy is taken under mutex_. *)
WorkerSnapshot ==
  /\ wpc = "snap"
  /\ snapshot' = commands
  /\ idx' = 1
  /\ wpc' = "check"
  /\ UNCHANGED <<threadVars, commands, control, appVars, busVars>>

(* The checks at the head of DmSerialBackend::send_mit_all. *)
WorkerCheck ==
  /\ wpc = "check"
  /\ wpc' = IF control /\ DOMAIN snapshot = Motors THEN "send" ELSE "catch"
  /\ UNCHANGED <<threadVars, commands, control, appVars, tickVars, busVars>>

(* mutant: commands_ is read frame by frame instead of the snapshot *)
WorkerSendLive ==
  /\ wpc = "send"
  /\ control
  /\ last' = [last EXCEPT ![idx] = commands[idx]]
  /\ idx' = idx + 1
  /\ wpc' = IF idx = N THEN "sleep" ELSE "send"
  /\ UNCHANGED <<threadVars, commands, control, appVars, snapshot, session,
                 parked, fault>>

(* mutant: running_ is tested between the frames of a tick *)
WorkerSendCut ==
  /\ wpc = "send"
  /\ control
  /\ last' = [last EXCEPT ![idx] = snapshot[idx]]
  /\ idx' = idx + 1
  /\ wpc' = IF idx = N THEN "sleep" ELSE IF running THEN "send" ELSE "exit"
  /\ UNCHANGED <<threadVars, commands, control, appVars, snapshot, session,
                 parked, fault>>

(* One round of its loop: control_ is dereferenced without a check, so a   *)
(* connection that was reset meanwhile is undefined behaviour.             *)
WorkerSend ==
  /\ wpc = "send"
  /\ IF control
       THEN /\ last' = [last EXCEPT ![idx] = snapshot[idx]]
            /\ idx' = idx + 1
            /\ wpc' = IF idx = N THEN "sleep" ELSE "send"
            /\ UNCHANGED fault
       ELSE /\ fault' = "nullControl"
            /\ UNCHANGED <<wpc, idx, last>>
  /\ UNCHANGED <<threadVars, commands, control, appVars, snapshot, session,
                 parked>>

(* sleep_until(next_tick) returns *)
WorkerWake ==
  /\ wpc = "sleep"
  /\ wpc' = "test"
  /\ UNCHANGED <<threadVars, commands, control, appVars, tickVars, busVars>>

WorkerCatch ==
  /\ wpc = "catch"
  /\ worker_exception' = session
  /\ idx' = N + 1
  /\ wpc' = "clear"
  /\ UNCHANGED <<running, worker, commands, control, appVars, snapshot,
                 busVars>>

WorkerClear ==
  /\ wpc = "clear"
  /\ running' = FALSE
  /\ wpc' = "exit"
  /\ UNCHANGED <<worker, worker_exception, commands, control, appVars,
                 tickVars, busVars>>

WorkerExit ==
  /\ wpc = "exit"
  /\ worker' = "exited"
  /\ wpc' = "none"
  /\ UNCHANGED <<running, worker_exception, commands, control, appVars,
                 tickVars, busVars>>

-----------------------------------------------------------------------------
(* What runs inside a method once it was called, and what the application  *)
(* chooses to call.                                                        *)
InsideMethod ==
  \/ StartJoin \/ StartSpawn \/ StartSpawnFails
  \/ StopJoin \/ StopZero \/ StopRethrow
  \/ ArmDestructor

Call ==
  \/ StartCall
  \/ StopCall
  \/ \E m \in Motors, c \in Command : SetCommand(m, c)
  \/ \E vec \in Vectors : SetAllCommands(vec)
  \/ Connect
  \/ Disconnect

Worker ==
  \/ WorkerTest \/ WorkerSnapshot \/ WorkerCheck \/ WorkerSend \/ WorkerWake
  \/ WorkerCatch \/ WorkerClear \/ WorkerExit

(* Nothing is said about the program once its behaviour is undefined. *)
ApplicationStep == fault = "none" /\ (InsideMethod \/ Call)
ReturningStep == fault = "none" /\ InsideMethod
WorkerStep == fault = "none" /\ Worker

Ended == (fault # "none" \/ pc = "dead") /\ UNCHANGED vars

Next == ApplicationStep \/ WorkerStep \/ Ended

Spec == Init /\ [][Next]_vars

(* Both threads are scheduled by the operating system; sleep_until and a   *)
(* USB write return.  What the application calls next is its own choice.   *)
Fairness == WF_vars(ReturningStep) /\ WF_vars(WorkerStep)

FairSpec == Spec /\ Fairness

-----------------------------------------------------------------------------
(* Once stop() has sent its zero frames and until the next start(), the    *)
(* last MIT frame every motor got is the zero command and no worker is     *)
(* left that could send another (stop() joins before it sends).            *)
ParkedStaysZero == parked => last = AllZero /\ worker = "none"

(* A worker that is still alive after running_ was cleared is either being *)
(* joined by stop() or on its way out after an exception: no method can    *)
(* leave behind a worker that nobody waits for.                            *)
NoOrphanWorker ==
  worker = "live" /\ ~running => pc = "stopJoin" \/ wpc = "exit"

(* start() never assigns a thread to a worker_ that is still joinable,     *)
(* whatever became of the worker before (it failed, or stop() ended it).   *)
NoTerminate == fault # "terminate"

(* An exception stop() may rethrow was thrown by the latest worker, never  *)
(* by one of an earlier session.                                           *)
ExceptionIsCurrent == worker_exception \in {0, session}

(* The frames of one tick are one value of commands_: no tick mixes the    *)
(* vectors of two set_all_commands calls made while it was being sent.     *)
TickIsOneVector == wpc = "sleep" => last = snapshot

(* Where each thread may be while the other is where it is. *)
ThreadInv ==
  /\ worker = "live" <=> wpc # "none"
  /\ pc \in {"startSpawn", "stopZero", "stopRethrow", "armDtor", "dead"}
       => worker = "none"
  /\ pc \in {"startJoin", "startSpawn", "stopJoin", "stopZero", "stopRethrow"}
       => ~running
  /\ pc \in {"startJoin", "startSpawn"} => session < MaxSessions
  /\ pc = "stopZero" => was_running

(* What was sent of the tick under way. *)
TickInv ==
  /\ wpc \in {"check", "catch"} => idx = 1
  /\ wpc = "send" => idx \in Motors
  /\ wpc \notin {"check", "catch", "send"} => idx = N + 1
  /\ wpc \in {"send", "sleep"} => \A m \in 1..(idx - 1) : last[m] = snapshot[m]

(* A worker that has not failed leaves no exception, and only its stop()   *)
(* gets it out of its loop; one that has failed leaves its own.            *)
FailureInv ==
  /\ worker = "live" => session > 0
  /\ wpc \in {"test", "snap", "check", "send", "sleep", "catch"} => worker_exception = 0
  /\ wpc = "clear" => worker_exception # 0
  /\ worker = "live" /\ ~running /\ worker_exception = 0 => pc = "stopJoin" /\ was_running

(* The inductive invariant the proofs rest on: the safety properties above *)
(* with the places of both threads and the progress of the tick.           *)
Inv ==
  /\ TypeOK
  /\ ThreadInv
  /\ FailureInv
  /\ TickInv
  /\ ParkedStaysZero
  /\ NoOrphanWorker
  /\ NoTerminate
  /\ ExceptionIsCurrent

(* With a connection the worker cannot fail: the vector it sends always    *)
(* has one command per motor.                                              *)
FailsOnlyUnconnected == [][wpc = "check" /\ wpc' = "catch" => ~control]_vars

(* Every method that was called returns; stop() and start() do not wait    *)
(* for a worker that never ends.                                           *)
MethodsReturn ==
  pc \notin {"idle", "dead"} ~> (pc \in {"idle", "dead"} \/ fault # "none")

(* A command set while a worker runs reaches its motor, unless it is       *)
(* replaced, the loop ends or the program breaks first.                    *)
CommandReachesMotor ==
  \A m \in Motors, c \in Command :
    (worker = "live" /\ commands[m] = c)
      ~> \/ last[m] = c
         \/ commands[m] # c
         \/ worker # "live"
         \/ fault # "none"

-----------------------------------------------------------------------------
(* The frames on the bus are a CommandStream.  It is open from the moment  *)
(* running_ is set until nobody can send a frame any more: the worker has  *)
(* ended and no stop() that still owes the zero frames is under way.       *)
StreamOpen ==
  \/ running
  \/ worker = "live"
  \/ was_running /\ pc \in {"stopJoin", "stopZero"}

(* send_mit_all has thrown, though the exception may not be stored yet. *)
StreamFailed == StreamOpen /\ (wpc = "catch" \/ worker_exception # 0)
StreamNext == IF wpc = "catch" THEN N + 1 ELSE idx

Stream == INSTANCE CommandStream WITH
  up <- control, open <- StreamOpen, failed <- StreamFailed,
  cmds <- commands, cur <- snapshot, next <- StreamNext

(* Every behaviour of the loop is one of CommandStream: no tick is cut     *)
(* short by stop() or by a failure, none mixes versions of commands_,      *)
(* nothing follows the zero frames of stop() before the next start(), and  *)
(* they are left out only when a tick failed or the connection is gone.    *)
StreamSpec == Stream!Spec
=============================================================================
