---------------------------- MODULE FifoControl ----------------------------
(***************************************************************************)
(* The program arm_mit_control (dm_openarm/examples/arm_mit_control.cpp)   *)
(* with the parser of its commands (src/mit_control_command.cpp): other    *)
(* processes write lines to a FIFO, and the main loop reads what is there, *)
(* applies it to the targets, moves the active position of every motor one *)
(* step towards its target and sends it.  Ctrl+C arrives at any time.      *)
(*                                                                         *)
(* Positions are counted in a unit the step is a multiple of.  A line the  *)
(* parser or require_known_motor rejects, and status, change nothing: they *)
(* are the line "ignored".                                                 *)
(***************************************************************************)
EXTENDS Integers, Sequences

CONSTANTS
  Motor,      \* the configured motors
  Start,      \* the positions a motor may report after connecting
  Step,       \* kMaxTargetVelocityRadPerSec times the loop period
  MaxDelta,   \* max_delta_rad, the limit of one move
  Delta,      \* the deltas that are written: numbers std::stod accepts
  NaN,        \* not a number: every comparison with it is false
  MaxLines    \* bound on the lines that are written

ASSUME StepAssumption == Step \in Nat \ {0}
ASSUME DeltaAssumption == MaxDelta \in Nat /\ Delta \subseteq Int \cup {NaN}
ASSUME StartAssumption == Start \subseteq Int
ASSUME NaNAssumption == NaN \notin Int
ASSUME LinesAssumption == MaxLines \in Nat

VARIABLES
  running,     \* the flag of the signal handler
  fifo,        \* the complete lines in the FIFO
  lines,       \* read_lines(): the lines of this iteration still to be applied
  phase,       \* where the main loop is
  home,        \* home_targets
  requested,   \* requested_targets
  active,      \* active_targets
  sent,        \* the position of the last MIT frame of each motor
  written,     \* lines written so far
  late         \* history: frames sent since running was cleared

vars == <<running, fifo, lines, phase, home, requested, active, sent, written, late>>

Position == Int \cup {NaN}

Line == [kind : {"move"}, motor : Motor, delta : Delta]
          \cup [kind : {"home"}, motor : Motor]
          \cup [kind : {"homeAll", "stop", "ignored"}]

TypeOK ==
  /\ running \in BOOLEAN
  /\ fifo \in Seq(Line)
  /\ lines \in Seq(Line)
  /\ phase \in {"top", "lines", "send", "off"}
  /\ home \in [Motor -> Int]
  /\ requested \in [Motor -> Position]
  /\ active \in [Motor -> Position]
  /\ sent \in [Motor -> Position]
  /\ written \in 0..MaxLines
  /\ late \in Nat

(* mutant: room is reserved for the requested targets, none is pushed *)
InitNoTargets ==
  /\ running = TRUE
  /\ fifo = <<>>
  /\ lines = <<>>
  /\ phase = "top"
  /\ home \in [Motor -> Start]
  /\ requested = [m \in {} |-> 0]
  /\ active = home
  /\ sent = home
  /\ written = 0
  /\ late = 0

(* After connect() and the first states(); the first frame that follows is *)
(* counted from the position the motor reported.                           *)
Init ==
  /\ running = TRUE
  /\ fifo = <<>>
  /\ lines = <<>>
  /\ phase = "top"
  /\ home \in [Motor -> Start]
  /\ requested = home
  /\ active = home
  /\ sent = home
  /\ written = 0
  /\ late = 0

-----------------------------------------------------------------------------
(* Arithmetic of the floating-point unit. *)
IsLess(x, y) == x # NaN /\ y # NaN /\ x < y
Plus(x, y) == IF x = NaN \/ y = NaN THEN NaN ELSE x + y
Distance(x, y) == IF x < y THEN y - x ELSE x - y

(* parse_delta: std::abs(value) > max_delta_rad is refused. *)
Accepted(delta) == ~(IsLess(MaxDelta, delta) \/ IsLess(delta, -MaxDelta))

(* mutant: only an approach from below is slowed down *)
ApproachFast(current, target) ==
  IF IsLess(current, Plus(target, -Step)) THEN current + Step ELSE target

(* mutant: no dead band of one step around the target *)
ApproachPast(current, target) ==
  IF IsLess(current, target) THEN current + Step ELSE current - Step

(* approach_target *)
Approach(current, target) ==
  IF IsLess(current, Plus(target, -Step)) THEN current + Step
  ELSE IF IsLess(Plus(target, Step), current) THEN current - Step
  ELSE target

-----------------------------------------------------------------------------
(* The writers of the FIFO, and the signal handler. *)

Write(line) ==
  /\ phase # "off"
  /\ written < MaxLines
  /\ written' = written + 1
  /\ fifo' = Append(fifo, line)
  /\ UNCHANGED <<running, lines, phase, home, requested, active, sent, late>>

Interrupt ==
  /\ phase # "off"
  /\ running' = FALSE
  /\ UNCHANGED <<fifo, lines, phase, home, requested, active, sent, written, late>>

-----------------------------------------------------------------------------
(* One iteration: while(running), read_lines(), every line, every motor.   *)

(* mutant: do ... while(running) without the test at the top *)
TopForever ==
  /\ phase = "top"
  /\ phase' = "lines"
  /\ lines' = fifo
  /\ fifo' = <<>>
  /\ UNCHANGED <<running, home, requested, active, sent, written, late>>

Top ==
  /\ phase = "top"
  /\ IF running
       THEN phase' = "lines" /\ lines' = fifo /\ fifo' = <<>>
       ELSE phase' = "off" /\ UNCHANGED <<fifo, lines>>
  /\ UNCHANGED <<running, home, requested, active, sent, written, late>>

(* mutant: running is not cleared *)
ApplyIgnoringStop(line) ==
  /\ requested' =
       CASE line.kind = "move" /\ Accepted(line.delta) ->
              [requested EXCEPT ![line.motor] = Plus(@, line.delta)]
         [] line.kind = "home" -> [requested EXCEPT ![line.motor] = home[line.motor]]
         [] line.kind = "homeAll" -> home
         [] OTHER -> requested
  /\ UNCHANGED running

(* stop clears running; the lines after it are applied all the same. *)
Apply(line) ==
  /\ requested' =
       CASE line.kind = "move" /\ Accepted(line.delta) ->
              [requested EXCEPT ![line.motor] = Plus(@, line.delta)]
         [] line.kind = "home" -> [requested EXCEPT ![line.motor] = home[line.motor]]
         [] line.kind = "homeAll" -> home
         [] OTHER -> requested
  /\ running' = (running /\ line.kind # "stop")

ApplyLine ==
  /\ phase = "lines"
  /\ lines # <<>>
  /\ lines' = Tail(lines)
  /\ Apply(Head(lines))
  /\ UNCHANGED <<fifo, phase, home, active, sent, written, late>>

LinesDone ==
  /\ phase = "lines"
  /\ lines = <<>>
  /\ phase' = "send"
  /\ UNCHANGED <<running, fifo, lines, home, requested, active, sent, written, late>>

Send ==
  /\ phase = "send"
  /\ active' = [m \in Motor |-> Approach(active[m], requested[m])]
  /\ sent' = active'
  /\ late' = IF running THEN late ELSE late + 1
  /\ phase' = "top"
  /\ UNCHANGED <<running, fifo, lines, home, requested, written>>

MainLoop == Top \/ ApplyLine \/ LinesDone \/ Send

Off == phase = "off" /\ UNCHANGED vars

Next == (\E line \in Line : Write(line)) \/ Interrupt \/ MainLoop \/ Off

Spec == Init /\ [][Next]_vars

(* sleep_until returns and the program is scheduled. *)
FairSpec == Spec /\ WF_vars(MainLoop)

-----------------------------------------------------------------------------
(* README.md:423: the position a motor is sent to changes by at most Step  *)
(* from one frame to the next, whatever lines arrive between them, homing  *)
(* included.                                                               *)
Ramp ==
  [][\A m \in Motor :
       sent'[m] # sent[m] =>
         sent[m] # NaN /\ sent'[m] # NaN /\ Distance(sent'[m], sent[m]) <= Step]_vars

(* Once the program was told to stop, by a line or by Ctrl+C, it sends at  *)
(* most the frames of the iteration under way.                             *)
StopsSoon == late <= 1

(* A stop that was written ends the program, unless Ctrl+C did before.     *)
StopEnds ==
  (\E k \in DOMAIN fifo : fifo[k].kind = "stop") ~> phase = "off"

(* When no more lines come, every motor reaches its target and stays.      *)
TargetIsReached == <>[](\A m \in Motor : sent[m] = requested[m] \/ ~running)
=============================================================================
