------------------------------ MODULE Programs ------------------------------
(***************************************************************************)
(* The programs that drive the arm from one thread, on top of the driver   *)
(* and its callback (MotorControl): examples/hold_position.cpp,            *)
(* set_zero_position.cpp, check_comm.cpp, enable_disable.cpp and           *)
(* arm_mit_control.cpp, and the demo of the SDK                            *)
(* (src/resources/DMmotor/src/main.cpp).                                   *)
(*                                                                         *)
(* They are combinations of a few calls, so a program is the script of the *)
(* calls its main() makes.  hold_position, arm_mit_control and the demo    *)
(* have a handler for SIGINT; the others are killed by it, with the motors *)
(* as they are.  What arm_mit_control does with the lines it reads and the *)
(* targets it sends is in FifoControl; here it matters where the targets   *)
(* come from.                                                              *)
(***************************************************************************)
EXTENDS MotorControl

CONSTANTS
  Order,     \* the configured motors, in the order of the file
  Unknown,   \* the ID of no motor, or an argument that is no ID
  Rounds     \* iterations of check_comm (100 in the code)

ASSUME OrderAssumption == Order \in Seq(Motor) /\ \A m \in Motor : \E k \in DOMAIN Order : Order[k] = m
ASSUME UnknownAssumption == Unknown \notin Motor
ASSUME RoundsAssumption == Rounds \in Nat

VARIABLES
  prog,      \* the program
  ip,        \* the instruction of its script it has come to
  unsent,    \* send_mit_all: the motors it has still to send to
  command,   \* the positions it sends, or starts from: "zero" for MitCommand{}, or as read
  rounds,    \* the counter of check_comm's loop
  targets,   \* set_zero_position: the IDs that are still to be zeroed
  asked,     \* all of them
  save,      \* false with --runtime-only
  running,   \* the flag of the signal handler
  outcome    \* how main() goes: normally, by an exception, or killed

progVars == <<prog, ip, unsent, command, rounds, targets, asked, save, running, outcome>>
argVars == <<prog, asked, save>>
allVars == <<vars, progVars>>

HoldScript  == <<"send", "sleep", "hold", "loop", "send", "states", "sleep", "again", "disable">>
ZeroScript  == <<"send", "sleep", "states", "target", "send", "sleep", "states", "disable">>
CheckScript == <<"loop", "send", "states", "sleep", "again", "disable">>
CycleScript == <<"send", "sleep", "disable">>
DemoScript  == <<"loop", "send", "states", "sleep", "again", "disable">>

(* The states() in its loop answer a line "status". *)
FifoScript  == <<"send", "sleep", "hold", "fifo",
                 "loop", "states", "send", "sleep", "again", "disable">>

Script == [hold |-> HoldScript, zero |-> ZeroScript, check |-> CheckScript,
           cycle |-> CycleScript, demo |-> DemoScript, fifo |-> FifoScript]

Handles == {"hold", "demo", "fifo"}

Place(instruction) == CHOOSE k \in DOMAIN Script[prog] : Script[prog][k] = instruction

ProgTypeOK ==
  /\ TypeOK
  /\ prog \in DOMAIN Script
  /\ ip \in DOMAIN Script[prog]
  /\ unsent \in Seq(Motor)
  /\ command \in [Motor -> {"zero", "initial", "fed", "garbage"}]
  /\ rounds \in 0..Rounds
  /\ targets \in Seq(Motor \cup {Unknown})
  /\ asked \subseteq Motor \cup {Unknown}
  /\ save \in BOOLEAN
  /\ running \in BOOLEAN
  /\ outcome \in {"ok", "error", "notOpened", "killed"}

(* The arguments of set_zero_position: an ID, or all. *)
ProgInit ==
  /\ Init
  /\ prog \in DOMAIN Script
  /\ ip = 1
  /\ unsent = <<>>
  /\ command = [m \in Motor |-> "zero"]
  /\ rounds = 0
  /\ targets \in {<<id>> : id \in Motor \cup {Unknown}} \cup {Order}
  /\ asked = {targets[k] : k \in DOMAIN targets}
  /\ save \in BOOLEAN
  /\ prog # "zero" => targets = Order /\ save
  /\ running = TRUE
  /\ outcome = "ok"

-----------------------------------------------------------------------------
Open ==
  /\ Connect
  /\ UNCHANGED progVars

(* usb_class's constructor throws: there is no Motor_Control to destroy.     *)
OpenFails ==
  /\ phase = "new"
  /\ phase' = "off"
  /\ outcome' = "notOpened"
  /\ UNCHANGED <<motorVars, linkVars, objectVars, sharedVars, at, reps, armVars, zeroVars,
                 argVars, ip, unsent, command, rounds, targets, running>>

(* main() has come to an instruction; no driver call is under way.           *)
At(instruction) ==
  /\ phase = "on"
  /\ unsent = <<>>
  /\ Script[prog][ip] = instruction

GoTo(place) == ip' = place /\ UNCHANGED <<argVars, command, running, outcome>>

(* send_mit_all or send_zero_mit_all: frames to all motors without a pause.  *)
Send ==
  /\ At("send")
  /\ unsent' = Order
  /\ GoTo(ip + 1)
  /\ UNCHANGED <<vars, rounds, targets>>

SendFrame ==
  /\ unsent # <<>>
  /\ unsent' = Tail(unsent)
  /\ IF reg[Head(unsent)] = MIT THEN Feed(Head(unsent), "loop") ELSE UNCHANGED linkVars
  /\ UNCHANGED <<motorVars, objectVars, sharedVars, loopVars, armVars, zeroVars,
                 argVars, ip, command, rounds, targets, running, outcome>>

(* The period of the loop outlasts the answers, as usleep does.              *)
Sleep ==
  /\ At("sleep")
  /\ Owed("loop") < MaxInbox
  /\ GoTo(ip + 1)
  /\ UNCHANGED <<vars, unsent, rounds, targets>>

States ==
  /\ At("states")
  /\ GoTo(ip + 1)
  /\ UNCHANGED <<vars, unsent, rounds, targets>>

(* hold_commands(arm.states()); the targets of arm_mit_control *)
Hold ==
  /\ At("hold")
  /\ command' = position
  /\ ip' = ip + 1
  /\ UNCHANGED <<vars, argVars, unsent, rounds, targets, running, outcome>>

(* mutant: the loop looks neither at the flag nor at its counter *)
ContinuesForever == TRUE

(* while(running), or i < 100 in check_comm *)
Continues == IF prog = "check" THEN rounds < Rounds ELSE running

Loop ==
  /\ At("loop")
  /\ GoTo(IF Continues THEN ip + 1 ELSE Place("disable"))
  /\ rounds' = IF Continues /\ prog = "check" THEN rounds + 1 ELSE rounds
  /\ UNCHANGED <<vars, unsent, targets>>

Again ==
  /\ At("again")
  /\ GoTo(Place("loop"))
  /\ UNCHANGED <<vars, unsent, rounds, targets>>

-----------------------------------------------------------------------------
ZeroTarget ==
  /\ At("target")
  /\ targets # <<>>
  /\ Head(targets) # Unknown
  /\ CallSetZero(Head(targets), save)
  /\ targets' = Tail(targets)
  /\ GoTo(ip)
  /\ UNCHANGED <<unsent, rounds>>

(* parse_can_id or set_zero throws; the arm is destroyed on the way to the   *)
(* handler in main(), which disconnects it.                                  *)
ZeroThrows ==
  /\ At("target")
  /\ targets # <<>>
  /\ Head(targets) = Unknown
  /\ outcome' = "error"
  /\ Disconnect
  /\ UNCHANGED <<argVars, ip, unsent, command, rounds, targets, running>>

(* FifoCommandReader's constructor makes and opens the FIFO, or throws.      *)
OpenFifo ==
  /\ At("fifo")
  /\ GoTo(ip + 1)
  /\ UNCHANGED <<vars, unsent, rounds, targets>>

OpenFifoThrows ==
  /\ At("fifo")
  /\ outcome' = "error"
  /\ Disconnect
  /\ UNCHANGED <<argVars, ip, unsent, command, rounds, targets, running>>

Zeroed ==
  /\ At("target")
  /\ targets = <<>>
  /\ GoTo(ip + 1)
  /\ UNCHANGED <<vars, unsent, rounds, targets>>

(* arm.disable(), or the end of the scope of control in the demo *)
Disable ==
  /\ At("disable")
  /\ Disconnect
  /\ UNCHANGED progVars

-----------------------------------------------------------------------------
(* SIGINT; a line "stop" clears the flag of arm_mit_control as well.         *)
Interrupt ==
  /\ phase # "off"
  /\ outcome = "ok"
  /\ IF prog \in Handles
       THEN running' = FALSE /\ UNCHANGED outcome
       ELSE outcome' = "killed" /\ UNCHANGED running
  /\ UNCHANGED <<vars, argVars, ip, unsent, command, rounds, targets>>

Main ==
  \/ Open \/ OpenFails \/ Send \/ SendFrame \/ Sleep \/ States \/ Hold \/ Loop \/ Again
  \/ ZeroTarget \/ ZeroThrows \/ Zeroed \/ OpenFifo \/ OpenFifoThrows \/ Disable
  \/ (Driver /\ UNCHANGED progVars)

Callback == Receive /\ UNCHANGED progVars

Over == (outcome = "killed" \/ Off) /\ UNCHANGED allVars

ProgNext ==
  \/ outcome # "killed" /\ (Main \/ Callback)
  \/ Interrupt
  \/ Over

ProgSpec == ProgInit /\ [][ProgNext]_allVars

ProgFairSpec ==
  /\ ProgSpec
  /\ WF_allVars(outcome # "killed" /\ Main)
  /\ WF_allVars(outcome # "killed" /\ Callback)
-----------------------------------------------------------------------------
(* When nothing is lost, every motor has reported since it was connected     *)
(* whenever a program reads states(); hold_position sends it where it is,    *)
(* and arm_mit_control starts from there: not from 0.0, nor is the interval  *)
(* shown that was never assigned.                                            *)
StatesAreReported ==
  losses = 0 => \A m \in Motor : /\ At("states") => position[m] = "fed"
                                 /\ command[m] \in {"zero", "fed"}

(* A program that opened the adapter and was not killed leaves every motor   *)
(* disabled, the way out over an exception included.                         *)
EndsDisabled ==
  phase = "off" /\ outcome # "notOpened" => \A m \in Motor : ~enabled[m]

(* set_zero_position zeroes no motor but those it was asked to, and writes   *)
(* no flash with --runtime-only, whatever is lost; the other programs zero   *)
(* nothing.  If it ends normally and nothing was lost it has zeroed them     *)
(* all, in flash exactly when it says so, even when others were saved and    *)
(* all motors enabled again in between.                                      *)
ZeroedAsAsked ==
  /\ \A m \in Motor : /\ zero[m] = "new" => prog = "zero" /\ m \in asked
                      /\ flash[m] = "new" => zero[m] = "new" /\ save
  /\ prog = "zero" /\ phase = "off" /\ outcome = "ok" /\ losses = 0 =>
       \A m \in asked : zero[m] = "new" /\ (save => flash[m] = "new")

(* Ctrl+C, wherever it arrives, ends the programs that handle it, and the    *)
(* others end by themselves.                                                 *)
ShutsDown == (~running \/ prog \notin Handles) ~> (phase = "off" \/ outcome = "killed")
=============================================================================
