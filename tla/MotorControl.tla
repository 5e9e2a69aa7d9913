---------------------------- MODULE MotorControl ----------------------------
(***************************************************************************)
(* The driver Motor_Control (third_party/damiao_sdk/.../damiao.cpp) as       *)
(* DmSerialBackend uses it: connecting and enabling the motors, zeroing      *)
(* one, disabling them, and the callback that receives what they answer.     *)
(*                                                                           *)
(* The thread inside a driver call, the thread of the USB library that       *)
(* runs canframeCallback, and a control loop that sends MIT frames           *)
(* interleave at every access to what they share: the mode of each motor,    *)
(* and read_write_save, one flag for all motors, which says how the next     *)
(* answer is to be read.                                                     *)
(*                                                                           *)
(* The motors and the link are not part of the repository.  A motor is       *)
(* modelled from the frames the driver sends and the answers it parses:      *)
(* it obeys enable, disable and zero frames sent to its CAN ID plus the      *)
(* offset of its control mode, and saves its parameters when disabled.       *)
(* Every frame and every answer may be lost.                                 *)
(***************************************************************************)
EXTENDS Naturals, Sequences, FiniteSets

CONSTANTS
  Motor,        \* the configured motors
  Visits,       \* the motors in the order a loop over the map motors meets them
  Repeat,       \* how often enable_all and disable_all send a frame (5 in the code)
  Streaming,    \* does a control loop send MIT frames meanwhile?
  Feedbacks,    \* feedback frames: "plain", or "alike" with 33, 55 or AA in data[2]
  MaxInbox,     \* bound on the answers the calling thread is owed when it goes
                \* on; 1 when its usleep outlasts the answer to every frame
  MaxLosses,    \* bound on the frames and answers that are lost
  MaxZeros      \* bound on the calls of set_zero

ASSUME VisitsAssumption ==
  Visits \in Seq(Motor) /\ Visits # <<>> /\ \A m \in Motor : \E k \in DOMAIN Visits : Visits[k] = m
ASSUME RepeatAssumption == Repeat \in Nat \ {0}
ASSUME StreamingAssumption == Streaming \in BOOLEAN
ASSUME FeedbacksAssumption == Feedbacks \subseteq {"plain", "alike"}
ASSUME BoundsAssumption == /\ MaxInbox \in Nat \ {0}
                           /\ MaxLosses \in Nat
                           /\ MaxZeros \in Nat

VARIABLES
  \* the motors
  reg,        \* CTRL_MODE, register 10
  enabled,
  zero,       \* the zero position in force
  flash,      \* the zero position that survives a power cycle
  \* the link
  inbox,      \* the answers under way; the callback works on the first
  losses,
  \* the driver
  mode,       \* Motor::mode, what the driver takes the register for
  position,   \* Motor::state_q: "initial", fed back, or garbage
  flag,       \* read_write_save
  handling,   \* where canframeCallback is with the first answer
  phase,      \* the loop the calling thread is in
  at,         \* the entry of motors that loop has reached
  reps,       \* how often the frame for that entry was sent
  armed,      \* what was done for a frame that was not sent yet: "no", the mode
              \* to write was "read", the flag was "set"
  code,       \* the mode that frame writes
  target,     \* the motor set_zero works on
  persist,    \* its argument
  zeros       \* calls of set_zero so far

motorVars == <<reg, enabled, zero, flash>>
linkVars == <<inbox, losses>>
objectVars == <<mode, position>>
sharedVars == <<flag, handling>>
loopVars == <<phase, at, reps>>
armVars == <<armed, code>>
zeroVars == <<target, persist, zeros>>
vars == <<motorVars, linkVars, objectVars, sharedVars, loopVars, armVars, zeroVars>>

MIT == "MIT"
Mode == {MIT, "POS_VEL"}

Loops == {"write", "read", "enable", "disable"}

(* An answer is for the calling thread or for the control loop, which        *)
(* nothing in the frame tells.                                               *)
Answers ==
  [kind : {"param"}, motor : Motor, value : Mode, to : {"caller"}]
    \cup [kind : {"saved"} \cup Feedbacks, motor : Motor, to : {"caller", "loop"}]

Owing(who) == {k \in DOMAIN inbox : inbox[k].to = who}
Owed(who) == Cardinality(Owing(who))

TypeOK ==
  /\ reg \in [Motor -> Mode]
  /\ enabled \in [Motor -> BOOLEAN]
  /\ zero \in [Motor -> {"old", "new"}]
  /\ flash \in [Motor -> {"old", "new"}]
  /\ inbox \in Seq(Answers) /\ Owed("caller") <= MaxInbox
  /\ losses \in 0..MaxLosses
  /\ mode \in [Motor -> Mode]
  /\ position \in [Motor -> {"initial", "fed", "garbage"}]
  /\ flag \in BOOLEAN
  /\ handling \in {"no", "reply", "clear", "state"}
  /\ phase \in Loops \cup {"new", "on", "zero", "unload", "save", "off"}
  /\ at \in 1..Len(Visits)
  /\ reps \in 0..(Repeat - 1)
  /\ armed \in {"no", "read", "set"}
  /\ code \in Mode
  /\ target \in Motor
  /\ persist \in BOOLEAN
  /\ zeros \in 0..MaxZeros

(* The motors are as an earlier program, or its crash, has left them.        *)
Init ==
  /\ reg \in [Motor -> Mode]
  /\ enabled \in [Motor -> BOOLEAN]
  /\ zero = [m \in Motor |-> "old"]
  /\ flash = [m \in Motor |-> "old"]
  /\ inbox = <<>>
  /\ losses = 0
  /\ mode = [m \in Motor |-> MIT]
  /\ position = [m \in Motor |-> "initial"]
  /\ flag = FALSE
  /\ handling = "no"
  /\ phase = "new"
  /\ at = 1
  /\ reps = 0
  /\ armed = "no"
  /\ code = MIT
  /\ target \in Motor
  /\ persist = FALSE
  /\ zeros = 0

-----------------------------------------------------------------------------
(* The link and the motors.                                                  *)

(* The driver sleeps after every frame it sends; MaxInbox - 1 answers may    *)
(* be slower than that.                                                      *)
Room == Owed("caller") < MaxInbox

Lose ==
  /\ losses < MaxLosses
  /\ losses' = losses + 1
  /\ UNCHANGED inbox

Answer(a) ==
  \/ inbox' = Append(inbox, a) /\ UNCHANGED losses
  \/ Lose

FrameLost == Lose /\ UNCHANGED motorVars

Feed(m, who) == \E k \in Feedbacks : Answer([kind |-> k, motor |-> m, to |-> who])

Param(m, v) == Answer([kind |-> "param", motor |-> m, value |-> v, to |-> "caller"])

(* write_motor_param of register 10 *)
MotorWrites(m, v) ==
  \/ /\ reg' = [reg EXCEPT ![m] = v]
     /\ Param(m, v)
     /\ UNCHANGED <<enabled, zero, flash>>
  \/ FrameLost

(* read_motor_param of register 10 *)
MotorReads(m) ==
  \/ Param(m, reg[m]) /\ UNCHANGED motorVars
  \/ FrameLost

(* control_cmd: a frame for another mode is for another CAN ID.              *)
MotorObeys(m, effect) ==
  \/ mode[m] = reg[m] /\ effect /\ Feed(m, "caller")
  \/ mode[m] # reg[m] /\ UNCHANGED <<motorVars, linkVars>>
  \/ FrameLost

Switch(m, on) == enabled' = [enabled EXCEPT ![m] = on] /\ UNCHANGED <<reg, zero, flash>>
SetZero(m) == zero' = [zero EXCEPT ![m] = "new"] /\ UNCHANGED <<reg, enabled, flash>>

MotorSaves(m) ==
  \/ /\ ~enabled[m]
     /\ flash' = [flash EXCEPT ![m] = zero[m]]
     /\ Answer([kind |-> "saved", motor |-> m, to |-> "caller"])
     /\ UNCHANGED <<reg, enabled, zero>>
  \/ enabled[m] /\ UNCHANGED <<motorVars, linkVars>>
  \/ FrameLost

-----------------------------------------------------------------------------
(* enable_all() and disable_all() are loops over motors, the map addMotor()  *)
(* fills: every motor is in it under its CAN ID and its master ID, so a      *)
(* loop meets it twice.                                                      *)

(* What follows a loop. *)
After(loop) ==
  CASE loop = "write"   -> "read"
    [] loop = "read"    -> "enable"
    [] loop = "enable"  -> "on"
    [] loop = "disable" -> "off"

Enter(loop) == phase' = loop /\ at' = 1 /\ reps' = 0

(* mutant: j <= 5 *)
AdvanceOnceMore(n) ==
  \/ reps < n /\ reps' = reps + 1 /\ UNCHANGED <<phase, at>>
  \/ reps = n /\ at < Len(Visits) /\ reps' = 0 /\ at' = at + 1 /\ UNCHANGED phase
  \/ reps = n /\ at = Len(Visits) /\ Enter(After(phase))

(* The frame of the current entry was sent; the loop sends it n times.       *)
Advance(n) ==
  \/ reps + 1 < n /\ reps' = reps + 1 /\ UNCHANGED <<phase, at>>
  \/ reps + 1 = n /\ at < Len(Visits) /\ reps' = 0 /\ at' = at + 1 /\ UNCHANGED phase
  \/ reps + 1 = n /\ at = Len(Visits) /\ Enter(After(phase))

(* switchControlMode(motor, toControlModeCode(motor.GetMotorMode())): the    *)
(* mode is read before the flag is set.                                      *)
ReadCode ==
  /\ phase = "write"
  /\ armed = "no"
  /\ Room
  /\ code' = mode[Visits[at]]
  /\ armed' = "read"
  /\ UNCHANGED <<motorVars, linkVars, objectVars, sharedVars, loopVars, zeroVars>>

(* read_write_save is set before the frame is sent. *)
SetFlag ==
  /\ phase \in {"write", "read", "save"}
  /\ armed = IF phase = "write" THEN "read" ELSE "no"
  /\ Room
  /\ flag' = TRUE
  /\ armed' = "set"
  /\ UNCHANGED <<motorVars, linkVars, objectVars, handling, loopVars, code, zeroVars>>

(* A frame leaves the driver. *)
Sending(loop) ==
  /\ phase = loop
  /\ armed = IF loop \in {"write", "read", "save"} THEN "set" ELSE "no"
  /\ Room
  /\ armed' = "no"
  /\ UNCHANGED <<objectVars, sharedVars, code, zeroVars>>

WriteMode ==
  /\ Sending("write")
  /\ MotorWrites(Visits[at], code)
  /\ Advance(1)

ReadMode ==
  /\ Sending("read")
  /\ MotorReads(Visits[at])
  /\ Advance(Repeat)

EnableMotor ==
  /\ Sending("enable")
  /\ MotorObeys(Visits[at], Switch(Visits[at], TRUE))
  /\ Advance(Repeat)

DisableMotor ==
  /\ Sending("disable")
  /\ MotorObeys(Visits[at], Switch(Visits[at], FALSE))
  /\ Advance(Repeat)

-----------------------------------------------------------------------------
(* DmSerialBackend.                                                          *)

Connect ==
  /\ phase = "new"
  /\ Enter("write")
  /\ UNCHANGED <<motorVars, linkVars, objectVars, sharedVars, armVars, zeroVars>>

(* mutant: the destructor does not call disable_all *)
DisconnectOnly ==
  /\ phase = "on"
  /\ phase' = "off"
  /\ UNCHANGED <<motorVars, linkVars, objectVars, sharedVars, at, reps, armVars, zeroVars>>

Disconnect ==
  /\ phase = "on"
  /\ Enter("disable")
  /\ UNCHANGED <<motorVars, linkVars, objectVars, sharedVars, armVars, zeroVars>>

CallSetZero(m, save) ==
  /\ phase = "on"
  /\ zeros < MaxZeros
  /\ zeros' = zeros + 1
  /\ target' = m
  /\ persist' = save
  /\ phase' = "zero"
  /\ UNCHANGED <<motorVars, linkVars, objectVars, sharedVars, at, reps, armVars>>

(* mutant: the motor is not disabled before it is told to save *)
ZeroMotorLoaded ==
  /\ Sending("zero")
  /\ MotorObeys(target, SetZero(target))
  /\ phase' = IF persist THEN "save" ELSE "on"
  /\ UNCHANGED <<at, reps>>

ZeroMotor ==
  /\ Sending("zero")
  /\ MotorObeys(target, SetZero(target))
  /\ phase' = IF persist THEN "unload" ELSE "on"
  /\ UNCHANGED <<at, reps>>

(* save_motor_param disables the motor with a single frame first.            *)
UnloadMotor ==
  /\ Sending("unload")
  /\ MotorObeys(target, Switch(target, FALSE))
  /\ phase' = "save"
  /\ UNCHANGED <<at, reps>>

(* mutant: enable_all is not called after saving *)
SaveMotorOnly ==
  /\ Sending("save")
  /\ MotorSaves(target)
  /\ phase' = "on"
  /\ UNCHANGED <<at, reps>>

SaveMotor ==
  /\ Sending("save")
  /\ MotorSaves(target)
  /\ Enter("write")

(* The control loop sends a MIT frame (control_mit), whatever the calling    *)
(* thread is doing; a motor in another mode does not answer.  The next one   *)
(* is sent after the answer, a tick of the loop later.                       *)
MitFrame(m) ==
  /\ Streaming
  /\ phase \notin {"new", "off"}
  /\ Owed("loop") = 0
  /\ reg[m] = MIT
  /\ Feed(m, "loop")
  /\ UNCHANGED <<motorVars, objectVars, sharedVars, loopVars, armVars, zeroVars>>

-----------------------------------------------------------------------------
(* canframeCallback.  The flag is tested first.                              *)
Dispatch ==
  /\ handling = "no"
  /\ inbox # <<>>
  /\ handling' = IF flag THEN "reply" ELSE "state"
  /\ UNCHANGED <<motorVars, linkVars, objectVars, flag, loopVars, armVars, zeroVars>>

(* mutant: any answer clears the flag *)
TakeReplyAny ==
  /\ handling = "reply"
  /\ handling' = "clear"
  /\ mode' = IF Head(inbox).kind = "param"
               THEN [mode EXCEPT ![Head(inbox).motor] = Head(inbox).value] ELSE mode
  /\ UNCHANGED <<motorVars, linkVars, position, flag, loopVars, armVars, zeroVars>>

(* mutant: an answer that was handled does not clear the flag *)
TakeReplyKeeping ==
  /\ handling = "reply"
  /\ handling' = "no"
  /\ inbox' = Tail(inbox)
  /\ mode' = IF Head(inbox).kind = "param"
               THEN [mode EXCEPT ![Head(inbox).motor] = Head(inbox).value] ELSE mode
  /\ UNCHANGED <<motorVars, losses, position, flag, loopVars, armVars, zeroVars>>

(* An answer with 33, 55 or AA in data[2] will clear the flag; the value of  *)
(* a register is taken over (feedback that looks alike names no motor in     *)
(* data[0..1]).  Other answers are dropped.                                  *)
TakeReply ==
  /\ handling = "reply"
  /\ LET a == Head(inbox) IN
       /\ IF a.kind = "plain"
            THEN handling' = "no" /\ inbox' = Tail(inbox)
            ELSE handling' = "clear" /\ UNCHANGED inbox
       /\ mode' = IF a.kind = "param" THEN [mode EXCEPT ![a.motor] = a.value] ELSE mode
  /\ UNCHANGED <<motorVars, losses, position, flag, loopVars, armVars, zeroVars>>

(* The flag may have been set again for the next frame since it was tested.  *)
ClearFlag ==
  /\ handling = "clear"
  /\ flag' = FALSE
  /\ handling' = "no"
  /\ inbox' = Tail(inbox)
  /\ UNCHANGED <<motorVars, losses, objectVars, loopVars, armVars, zeroVars>>

(* With the flag clear, whatever it is is taken for a position.              *)
TakeState ==
  /\ handling = "state"
  /\ handling' = "no"
  /\ inbox' = Tail(inbox)
  /\ LET a == Head(inbox) IN
       position' = [position EXCEPT ![a.motor] =
                      IF a.kind \in Feedbacks THEN "fed" ELSE "garbage"]
  /\ UNCHANGED <<motorVars, losses, mode, flag, loopVars, armVars, zeroVars>>

Receive == Dispatch \/ TakeReply \/ ClearFlag \/ TakeState

-----------------------------------------------------------------------------
Driver ==
  \/ ReadCode \/ SetFlag \/ WriteMode \/ ReadMode \/ EnableMotor \/ DisableMotor
  \/ ZeroMotor \/ UnloadMotor \/ SaveMotor

Calls ==
  \/ Connect
  \/ Disconnect
  \/ \E m \in Motor, save \in BOOLEAN : CallSetZero(m, save)

Off == phase = "off" /\ inbox = <<>> /\ UNCHANGED vars

Next == Calls \/ Driver \/ (\E m \in Motor : MitFrame(m)) \/ Receive \/ Off

Spec == Init /\ [][Next]_vars

(* The calling thread comes back from usleep, and the library delivers.      *)
FairSpec == Spec /\ WF_vars(Driver) /\ WF_vars(Receive)

-----------------------------------------------------------------------------
(* Connecting leaves every motor enabled in MIT mode, and the driver         *)
(* knowing it, whatever mode the motor was left in; so does set_zero.  The   *)
(* repeated frames make up for one that is lost.                             *)
OnMeansMit ==
  phase = "on" => \A m \in Motor : enabled[m] /\ reg[m] = MIT /\ mode[m] = MIT

(* Destroying the driver leaves every motor disabled.                        *)
OffMeansDisabled == phase = "off" => \A m \in Motor : ~enabled[m]

(* damiao.cpp:530: what is read as a position is ordinary feedback.          *)
PositionsAreReal == \A m \in Motor : position[m] # "garbage"

(* README.md:194: set_zero(persist=True) has written the flash when it       *)
(* returns.                                                                  *)
ZeroIsSaved == phase = "on" /\ persist => flash[target] = "new"

(* The flag does not stay set: feedback is not dropped for ever.             *)
FlagClears == flag ~> ~flag

-----------------------------------------------------------------------------
(* A call seen from outside.  enable_all is part of connecting until         *)
(* set_zero was called, and of set_zero from then on.                        *)
CallUnderWay ==
  CASE phase = "new" -> "none"
    [] phase = "on"  -> "open"
    [] phase = "off" -> "closed"
    [] phase = "disable" -> "closing"
    [] phase \in {"zero", "unload", "save"} -> "zeroing"
    [] phase \in {"write", "read", "enable"} -> IF zeros = 0 THEN "opening" ELSE "zeroing"

Power == INSTANCE MotorPower WITH call <- CallUnderWay, subject <- target, keep <- persist

(* Whatever the loops, the flag and the callback do, while nothing is lost   *)
(* the calls do to the motors what MotorPower says and no more: no motor but *)
(* the one asked for is zeroed, none is left disabled when set_zero returns, *)
(* and nothing changes between calls.                                        *)
PowerSpec == Power!Spec
=============================================================================
