--------------------------- MODULE ProgramsProofs ---------------------------
(***************************************************************************)
(* Theorems about the programs that drive the arm from one thread, for any *)
(* arm and any arguments, wherever SIGINT arrives and whatever frames are  *)
(* lost or answers late.                                                   *)
(***************************************************************************)
EXTENDS Programs, MotorPowerProofs

USE DEF vars, motorVars, linkVars, objectVars, sharedVars, loopVars, armVars, zeroVars,
        progVars, argVars, allVars

-----------------------------------------------------------------------------
(* The scripts.                                                              *)

Places == DOMAIN Script[prog]
Instruction == Script[prog][ip]

(* Only "disable" ends a script; whatever loops has its loop; frames that    *)
(* were sent are waited for before anything is called; and only the script   *)
(* of set_zero_position has a "target", its fourth instruction.              *)
LEMMA Scripts ==
  ASSUME NEW p \in DOMAIN Script, NEW k \in DOMAIN Script[p]
  PROVE  /\ Script[p][k] # "disable" => k + 1 \in DOMAIN Script[p]
         /\ \E j \in DOMAIN Script[p] : Script[p][j] = "disable"
         /\ Script[p][k] = "again" => \E j \in DOMAIN Script[p] : Script[p][j] = "loop"
         /\ Script[p][k] = "send" =>
              \/ Script[p][k + 1] = "sleep"
              \/ Script[p][k + 1] = "states" /\ Script[p][k + 2] = "sleep"
         /\ Script[p][k] \in {"target", "again", "loop"} /\ p = "zero" => k = 4
         /\ Script[p][k] = "target" => p = "zero"
         /\ p = "zero" => k \in 1..8 /\ (Script[p][k] = "disable" <=> k = 8)
         /\ p = "zero" => Script[p][k] \notin {"loop", "again"}
         /\ 1 \in DOMAIN Script[p]
<1>1. CASE p = "hold"
  BY <1>1 DEF Script, HoldScript
<1>2. CASE p = "zero"
  BY <1>2 DEF Script, ZeroScript
<1>3. CASE p = "check"
  BY <1>3 DEF Script, CheckScript
<1>4. CASE p = "cycle"
  BY <1>4 DEF Script, CycleScript
<1>5. CASE p = "demo"
  BY <1>5 DEF Script, DemoScript
<1>6. CASE p = "fifo"
  BY <1>6 DEF Script, FifoScript
<1>7. QED
  BY <1>1, <1>2, <1>3, <1>4, <1>5, <1>6 DEF Script

-----------------------------------------------------------------------------
(* Types.                                                                    *)

ProgType ==
  /\ prog \in DOMAIN Script
  /\ ip \in Places
  /\ unsent \in Seq(Motor)
  /\ command \in [Motor -> {"zero", "initial", "fed", "garbage"}]
  /\ rounds \in 0..Rounds
  /\ targets \in Seq(Motor \cup {Unknown})
  /\ asked \subseteq Motor \cup {Unknown}
  /\ save \in BOOLEAN
  /\ running \in BOOLEAN
  /\ outcome \in {"ok", "error", "notOpened", "killed"}

(* The next instruction, and the one a jump goes to, are in the script.      *)
LEMMA NextPlace ==
  ASSUME ProgType
  PROVE  /\ Instruction # "disable" => ip + 1 \in Places
         /\ Place("disable") \in Places /\ Script[prog][Place("disable")] = "disable"
         /\ Instruction = "again" => /\ Place("loop") \in Places
                                     /\ Script[prog][Place("loop")] = "loop"
<1>1. prog \in DOMAIN Script /\ ip \in DOMAIN Script[prog]
  BY DEF ProgType, Places
<1>2. \E j \in DOMAIN Script[prog] : Script[prog][j] = "disable"
  BY <1>1, Scripts
<1>3. Instruction = "again" => \E j \in DOMAIN Script[prog] : Script[prog][j] = "loop"
  BY <1>1, Scripts DEF Instruction
<1>4. Instruction # "disable" => ip + 1 \in Places
  BY <1>1, Scripts DEF Instruction, Places
<1>5. Place("disable") \in Places /\ Script[prog][Place("disable")] = "disable"
  BY <1>2 DEF Place, Places
<1>6. Instruction = "again" => /\ Place("loop") \in Places
                               /\ Script[prog][Place("loop")] = "loop"
  BY <1>3 DEF Place, Places
<1>7. QED
  BY <1>4, <1>5, <1>6

(* The steps of a program that only change its own variables. *)
Thinks == Send \/ Sleep \/ States \/ Hold \/ Loop \/ Again \/ Zeroed \/ OpenFifo \/ Interrupt

LEMMA ThinksQuietly == Thinks => UNCHANGED vars
BY DEF Thinks, Send, Sleep, States, Hold, Loop, Again, Zeroed, OpenFifo, Interrupt

LEMMA ProgramSteps ==
  ASSUME [ProgNext]_allVars
  PROVE  \/ UNCHANGED allVars
         \/ Thinks
         \/ (Driver \/ Receive \/ Connect \/ Disable) /\ UNCHANGED progVars
         \/ OpenFails \/ SendFrame \/ ZeroTarget \/ ZeroThrows \/ OpenFifoThrows
BY DEF ProgNext, Main, Callback, Over, Open, Disable, Thinks

LEMMA ThinksType ==
  ASSUME ProgType, TypeInv, Thinks
  PROVE  ProgType'
<1>1. prog' = prog
  BY DEF Thinks, Send, Sleep, States, Hold, Loop, Again, Zeroed, OpenFifo, Interrupt, GoTo
<1>2. CASE Send
  BY <1>1, <1>2, NextPlace, OrderAssumption DEF Send, At, GoTo, Instruction, Places, ProgType
<1>3. CASE Sleep \/ States \/ Zeroed \/ OpenFifo
  BY <1>1, <1>3, NextPlace
     DEF Sleep, States, Zeroed, OpenFifo, At, GoTo, Instruction, Places, ProgType
<1>4. CASE Hold
  BY <1>1, <1>4, NextPlace DEF Hold, At, Instruction, Places, ProgType, TypeInv, ObjectType
<1>5. CASE Loop
  <2>1. ip' \in Places
    BY <1>5, NextPlace DEF Loop, GoTo, At, Instruction
  <2>2. rounds' \in 0..Rounds
    BY <1>5, RoundsAssumption DEF Loop, Continues, ProgType
  <2>3. QED
    BY <1>1, <1>5, <2>1, <2>2 DEF Loop, GoTo, Places, ProgType
<1>6. CASE Again
  BY <1>1, <1>6, NextPlace DEF Again, At, GoTo, Instruction, Places, ProgType
<1>7. CASE Interrupt
  BY <1>1, <1>7 DEF Interrupt, Places, ProgType
<1>8. QED
  BY <1>2, <1>3, <1>4, <1>5, <1>6, <1>7 DEF Thinks

LEMMA ProgTypeStep ==
  ASSUME ProgType, TypeInv, [ProgNext]_allVars
  PROVE  ProgType'
<1>1. CASE UNCHANGED progVars
  BY <1>1 DEF ProgType, Places
<1>2. CASE OpenFails
  BY <1>2 DEF OpenFails, ProgType, Places
<1>3. CASE SendFrame
  <2>1. unsent' \in Seq(Motor)
    BY <1>3 DEF SendFrame, ProgType
  <2>2. QED
    BY <1>3, <2>1 DEF SendFrame, ProgType, Places
<1>4. CASE ZeroTarget
  <2>1. targets' \in Seq(Motor \cup {Unknown})
    BY <1>4 DEF ZeroTarget, ProgType
  <2>2. QED
    BY <1>4, <2>1 DEF ZeroTarget, GoTo, ProgType, Places
<1>5. CASE ZeroThrows \/ OpenFifoThrows
  BY <1>5 DEF ZeroThrows, OpenFifoThrows, ProgType, Places
<1>6. QED
  BY <1>1, <1>2, <1>3, <1>4, <1>5, ProgramSteps, ThinksType

(* What a step of a program is to the driver: a step of its own, unless the  *)
(* adapter could not be opened.                                              *)
LEMMA FrameStep ==
  ASSUME ProgType, SendFrame
  PROVE  UNCHANGED vars \/ \E m \in Motor : Streamed(m)
<1>1. Head(unsent) \in Motor
  BY DEF ProgType, SendFrame
<1>2. CASE reg[Head(unsent)] = MIT
  BY <1>1, <1>2 DEF SendFrame, Streamed
<1>3. CASE reg[Head(unsent)] # MIT
  BY <1>3 DEF SendFrame
<1>4. QED
  BY <1>2, <1>3

LEMMA ZeroCall ==
  ASSUME ProgType, ZeroTarget
  PROVE  /\ Head(targets) \in Motor
         /\ CallSetZero(Head(targets), save)
         /\ Calls
<1>1. Head(targets) \in Motor /\ save \in BOOLEAN
  BY DEF ProgType, ZeroTarget
<1>2. QED
  BY <1>1 DEF ZeroTarget, Calls

LEMMA DriverPart ==
  ASSUME ProgType, [ProgNext]_allVars
  PROVE  Step \/ OpenFails
<1>1. CASE UNCHANGED allVars
  BY <1>1 DEF Step
<1>2. CASE Thinks
  BY <1>2, ThinksQuietly DEF Step
<1>3. CASE Driver \/ Receive \/ Connect \/ Disable \/ ZeroThrows \/ OpenFifoThrows
  BY <1>3 DEF Step, Calls, Disable, ZeroThrows, OpenFifoThrows
<1>4. CASE SendFrame
  BY <1>4, FrameStep DEF Step
<1>5. CASE ZeroTarget
  BY <1>5, ZeroCall DEF Step
<1>6. QED
  BY <1>1, <1>2, <1>3, <1>4, <1>5, ProgramSteps

LEMMA ProgTypes ==
  ASSUME ProgType, TypeInv, Handled, [ProgNext]_allVars
  PROVE  ProgType' /\ TypeInv' /\ Handled'
<1>1. CASE Step
  BY <1>1, TypeStep, ProgTypeStep
<1>2. CASE OpenFails
  BY <1>2, ProgTypeStep, KeepType
     DEF OpenFails, TypeInv, MotorType, ObjectType, LoopType, CallType, Handled
<1>3. QED
  BY <1>1, <1>2, DriverPart

LEMMA ProgInitType ==
  ASSUME ProgInit
  PROVE  ProgType /\ TypeInv /\ Handled
<1>1. TypeInv /\ Handled
  BY InitType DEF ProgInit, Init, Handled
<1>2. targets \in Seq(Motor \cup {Unknown})
  <2>1. \A id \in Motor \cup {Unknown} : <<id>> \in Seq(Motor \cup {Unknown})
    OBVIOUS
  <2>2. Order \in Seq(Motor \cup {Unknown})
    BY OrderAssumption
  <2>3. targets = Order \/ \E id \in Motor \cup {Unknown} : targets = <<id>>
    BY DEF ProgInit
  <2>4. QED
    BY <2>1, <2>2, <2>3
<1>3. asked \subseteq Motor \cup {Unknown}
  BY <1>2 DEF ProgInit
<1>4. ip \in Places
  <2>1. prog \in DOMAIN Script
    BY DEF ProgInit
  <2>2. 1 \in DOMAIN Script[prog]
    BY <2>1 DEF Script, HoldScript, ZeroScript, CheckScript, CycleScript, DemoScript, FifoScript
  <2>3. QED
    BY <2>2 DEF ProgInit, Places
<1>5. QED
  BY <1>1, <1>2, <1>3, <1>4, RoundsAssumption DEF ProgInit, ProgType

(* Every variable keeps its type: no script is left, whatever the arguments  *)
(* and wherever SIGINT comes, and the driver is used within its own types.   *)
THEOREM ProgTypeCorrect == ProgSpec => []ProgTypeOK
<1>1. ProgInit => ProgType /\ TypeInv /\ Handled
  BY ProgInitType
<1>2. ProgType /\ TypeInv /\ Handled /\ [ProgNext]_allVars => (ProgType /\ TypeInv /\ Handled)'
  BY ProgTypes
<1>3. ProgType /\ TypeInv => ProgTypeOK
  BY DEF ProgType, Places, TypeInv, MotorType, LinkType, ObjectType, LoopType, CallType,
         TypeOK, ProgTypeOK
<1>4. QED
  BY <1>1, <1>2, <1>3, PTL DEF ProgSpec

-----------------------------------------------------------------------------
(* A program that could not open the adapter does nothing more; for the rest *)
(* the invariant of the driver holds.  Frames that are still to be sent keep *)
(* the program from its next instruction.                                    *)

OpenInv ==
  /\ phase = "new" \/ outcome = "notOpened" => inbox = <<>> /\ handling = "no" /\ unsent = <<>>
  /\ outcome = "notOpened" => phase = "off"
  /\ unsent # <<>> => phase = "on"
  /\ outcome # "notOpened" => DriverInv

LEMMA DriverPhase ==
  ASSUME Driver
  PROVE  /\ phase \notin {"new", "on", "off"}
         /\ phase' \notin {"new", "zero"}
         /\ phase' \in {"disable", "off"} => phase = "disable"
         /\ phase = "disable" => phase' \in {"disable", "off"}
<1>1. CASE ReadCode \/ SetFlag
  BY <1>1 DEF ReadCode, SetFlag
<1>2. CASE WriteMode \/ ReadMode \/ EnableMotor \/ DisableMotor
  BY <1>2, WriteStep, ReadStep, EnableStep, DisableStep
<1>3. CASE ZeroMotor \/ UnloadMotor \/ SaveMotor
  BY <1>3 DEF ZeroMotor, UnloadMotor, SaveMotor, Sending, Enter
<1>4. QED
  BY <1>1, <1>2, <1>3 DEF Driver

LEMMA ReceivePhase ==
  ASSUME Receive
  PROVE  /\ UNCHANGED <<motorVars, losses, loopVars, armVars, zeroVars>>
         /\ handling # "no" \/ inbox # <<>>
BY DEF Receive, Dispatch, TakeReply, ClearFlag, TakeState

LEMMA Frozen ==
  ASSUME OpenInv, outcome = "notOpened", [ProgNext]_allVars
  PROVE  UNCHANGED allVars
<1>1. phase = "off" /\ inbox = <<>> /\ handling = "no" /\ unsent = <<>>
  BY DEF OpenInv
<1>2. ~Thinks
  BY <1>1 DEF Thinks, Send, Sleep, States, Hold, Loop, Again, Zeroed, OpenFifo, Interrupt, At
<1>3. ~(Driver \/ Receive \/ Connect \/ Disable)
  BY <1>1, DriverPhase, ReceivePhase DEF Connect, Disable, At
<1>4. ~(OpenFails \/ SendFrame \/ ZeroTarget \/ ZeroThrows \/ OpenFifoThrows)
  BY <1>1 DEF OpenFails, SendFrame, ZeroTarget, ZeroThrows, OpenFifoThrows, At
<1>5. QED
  BY <1>2, <1>3, <1>4, ProgramSteps

LEMMA StaysOpened ==
  ASSUME outcome # "notOpened", ~OpenFails, [ProgNext]_allVars
  PROVE  outcome' # "notOpened"
BY ProgramSteps
   DEF Thinks, Send, Sleep, States, Hold, Loop, Again, Zeroed, OpenFifo, Interrupt, GoTo,
       SendFrame, ZeroTarget, ZeroThrows, OpenFifoThrows

LEMMA OpenStep ==
  ASSUME ProgType, OpenInv, [ProgNext]_allVars
  PROVE  OpenInv'
<1>1. CASE UNCHANGED allVars
  BY <1>1, DriverStep DEF OpenInv, Step
<1>2. CASE outcome = "notOpened"
  BY <1>1, <1>2, Frozen
<1>3. CASE OpenFails
  BY <1>3 DEF OpenInv, OpenFails
<1>4. CASE outcome # "notOpened" /\ ~OpenFails
  <2>1. DriverInv /\ outcome' # "notOpened"
    BY <1>4, StaysOpened DEF OpenInv
  <2>2. Step
    BY <1>4, DriverPart
  <2>3. DriverInv'
    BY <2>1, <2>2, DriverStep
  <2>4. /\ phase' = "new" => inbox' = <<>> /\ handling' = "no" /\ unsent' = <<>>
        /\ unsent' # <<>> => phase' = "on"
    <3>1. CASE Thinks
      BY <3>1 DEF OpenInv, Thinks, Send, Sleep, States, Hold, Loop, Again, Zeroed, OpenFifo, Interrupt, At
    <3>2. CASE (Driver \/ Receive \/ Connect \/ Disable) /\ UNCHANGED progVars
      BY <3>2, DriverPhase, ReceivePhase DEF OpenInv, Connect, Disable, Disconnect, At, Enter
    <3>3. CASE SendFrame
      BY <3>3 DEF OpenInv, SendFrame
    <3>4. CASE ZeroTarget \/ ZeroThrows \/ OpenFifoThrows
      BY <3>4 DEF OpenInv, ZeroTarget, ZeroThrows, OpenFifoThrows, At, CallSetZero, Disconnect, Enter
    <3>5. CASE UNCHANGED allVars
      BY <3>5 DEF OpenInv
    <3>6. QED
      BY <1>4, <3>1, <3>2, <3>3, <3>4, <3>5, ProgramSteps
  <2>5. QED
    BY <2>1, <2>3, <2>4 DEF OpenInv
<1>5. QED
  BY <1>2, <1>3, <1>4

ProgInv == ProgType /\ TypeInv /\ Handled /\ OpenInv

LEMMA ProgInvInit == ProgInit => ProgInv
<1> SUFFICES ASSUME ProgInit
             PROVE  ProgInv
  OBVIOUS
<1>1. ProgType /\ TypeInv /\ Handled
  BY ProgInitType
<1>2. DriverInv
  BY <1>1, MotorInit DEF DriverInv, ProgInit
<1>3. OpenInv
  BY <1>2 DEF OpenInv, ProgInit, Init
<1>4. QED
  BY <1>1, <1>3 DEF ProgInv

LEMMA ProgInvStep == ProgInv /\ [ProgNext]_allVars => ProgInv'
BY ProgTypes, OpenStep DEF ProgInv

THEOREM ProgInvariance == ProgSpec => []ProgInv
BY ProgInvInit, ProgInvStep, PTL DEF ProgSpec

(* However a program that opened the adapter ends, every motor it used is    *)
(* disabled, if fewer frames are lost than the map has entries for it; the   *)
(* way out over an exception, late answers and the frames of send_mit_all    *)
(* make no difference.                                                       *)
THEOREM ProgramsEndDisabled ==
  ASSUME Spare
  PROVE  ProgSpec => []EndsDisabled
<1>1. ProgInv => EndsDisabled
  BY AllSpared DEF ProgInv, OpenInv, DriverInv, MotorInv, Served, EndsDisabled
<1>2. QED
  BY <1>1, ProgInvariance, PTL

-----------------------------------------------------------------------------
(* The frames of send_mit_all are answered without being waited for, and     *)
(* feedback may look like a register's value.  Every script sleeps after     *)
(* send_mit_all, at once or after states(), so no such answer is under way   *)
(* when the next call begins.                                                *)

Loose == unsent # <<>> \/ Owing("loop") # {}

LooseInv ==
  Loose => /\ phase = "on"
           /\ \/ Instruction = "sleep"
              \/ Instruction = "states" /\ Script[prog][ip + 1] = "sleep"

LEMMA TightCalm ==
  ASSUME Owing("loop") = {}
  PROVE  Calm
BY DEF Owing, Calm

LEMMA SleepEmpties ==
  ASSUME MaxInbox = 1, LinkType, Owed("loop") < MaxInbox
  PROVE  Owing("loop") = {}
<1>1. Owing("loop") = Of(inbox, "loop")
  BY DEF Owing, Of
<1>2. IsFiniteSet(Owing("loop")) /\ Cardinality(Owing("loop")) \in Nat
  BY <1>1, OfFinite DEF LinkType
<1>3. Cardinality(Owing("loop")) = 0
  BY <1>2 DEF Owed
<1>4. QED
  BY <1>2, <1>3, FS_EmptySet

(* Neither a call nor the callback asks for an answer to a control loop.     *)
LEMMA DriverTight ==
  ASSUME TypeInv, AnswerInv, Driver, Owing("loop") = {}
  PROVE  Owing("loop")' = {}
<1>1. CASE UNCHANGED inbox
  BY <1>1 DEF Owing
<1>2. ASSUME NEW a, Expected(a), inbox' = Append(inbox, a)
      PROVE  Owing("loop")' = {}
  <2>1. /\ inbox'[Len(inbox) + 1] = a /\ a.to # "loop"
        /\ \A k \in DOMAIN inbox : inbox'[k] = inbox[k]
        /\ \A k \in DOMAIN inbox' : k \in DOMAIN inbox \/ k = Len(inbox) + 1
    BY <1>2, Appended DEF Expected, TypeInv
  <2>2. QED
    BY <2>1 DEF Owing
<1>3. QED
  BY <1>1, <1>2, DriverAnswered DEF Answered

LEMMA ReceiveInbox ==
  ASSUME TypeInv, Handled, Receive
  PROVE  \/ UNCHANGED inbox
         \/ /\ inbox # <<>> /\ inbox' = Tail(inbox)
            /\ \A k \in DOMAIN inbox' : /\ k \in Nat /\ k + 1 \in DOMAIN inbox /\ k + 1 # 1
                                       /\ inbox'[k] = inbox[k + 1]
            /\ \A k \in DOMAIN inbox : k # 1 => /\ k \in Nat /\ k - 1 \in DOMAIN inbox'
                                               /\ inbox'[k - 1] = inbox[k]
<1>1. UNCHANGED inbox \/ (inbox # <<>> /\ inbox' = Tail(inbox))
  BY DEF Receive, Dispatch, TakeReply, ClearFlag, TakeState, Handled
<1>2. QED
  BY <1>1 DEF TypeInv, LinkType

LEMMA LooseThinks ==
  ASSUME MaxInbox = 1, ProgInv, LooseInv, Thinks
  PROVE  LooseInv'
<1>1. prog \in DOMAIN Script /\ ip \in DOMAIN Script[prog] /\ UNCHANGED <<vars, prog>>
  BY ThinksQuietly
     DEF ProgInv, ProgType, Places, Thinks, Send, Sleep, States, Hold, Loop, Again, Zeroed, OpenFifo,
         Interrupt, GoTo
<1>2. Owing("loop")' = Owing("loop")
  BY <1>1 DEF Owing
<1>3. CASE Send
  <2>1. phase' = "on" /\ ip' = ip + 1
    BY <1>1, <1>3 DEF Send, At, GoTo
  <2>2. \/ Script[prog][ip + 1] = "sleep"
        \/ Script[prog][ip + 1] = "states" /\ Script[prog][ip + 2] = "sleep"
    BY <1>1, <1>3, Scripts DEF Send, At
  <2>3. ip + 2 = ip' + 1
    BY <1>1, <2>1 DEF Script, HoldScript, ZeroScript, CheckScript, CycleScript, DemoScript, FifoScript
  <2>4. QED
    BY <1>1, <2>1, <2>2, <2>3 DEF LooseInv, Instruction
<1>4. CASE Sleep
  <2>1. Owing("loop") = {}
    BY <1>4, SleepEmpties DEF Sleep, ProgInv, TypeInv
  <2>2. QED
    BY <1>2, <1>4, <2>1 DEF Sleep, At, LooseInv, Loose
<1>5. CASE States
  BY <1>1, <1>2, <1>5 DEF States, At, GoTo, LooseInv, Loose, Instruction
<1>6. CASE Hold \/ Loop \/ Again \/ Zeroed \/ OpenFifo
  BY <1>2, <1>6 DEF Hold, Loop, Again, Zeroed, OpenFifo, At, LooseInv, Loose, Instruction
<1>7. CASE Interrupt
  BY <1>1, <1>2, <1>7 DEF Interrupt, LooseInv, Loose, Instruction
<1>8. QED
  BY <1>3, <1>4, <1>5, <1>6, <1>7 DEF Thinks

LEMMA LooseStep ==
  ASSUME MaxInbox = 1, ProgInv, AnswerInv, LooseInv, [ProgNext]_allVars
  PROVE  LooseInv'
<1>1. CASE UNCHANGED allVars
  BY <1>1 DEF LooseInv, Loose, Instruction, Owing
<1>2. CASE Driver /\ UNCHANGED progVars
  <2>1. ~Loose
    BY <1>2, DriverPhase DEF LooseInv
  <2>2. QED
    BY <1>2, <2>1, DriverTight DEF LooseInv, Loose, ProgInv
<1>3. CASE Receive /\ UNCHANGED progVars
  <2>1. Loose' => Loose
    BY <1>3, ReceiveInbox DEF Loose, Owing, ProgInv
  <2>2. QED
    BY <1>3, <2>1, ReceivePhase DEF LooseInv, Instruction
<1>4. CASE \/ (Connect \/ Disable) /\ UNCHANGED progVars
           \/ OpenFails \/ ZeroTarget \/ ZeroThrows \/ OpenFifoThrows
  <2>1. ~Loose
    BY <1>4 DEF Connect, Disable, OpenFails, ZeroTarget, ZeroThrows, OpenFifoThrows, At, LooseInv, Instruction
  <2>2. UNCHANGED <<inbox, unsent>>
    BY <1>4 DEF Connect, Disable, Disconnect, OpenFails, ZeroTarget, CallSetZero, ZeroThrows, OpenFifoThrows
  <2>3. QED
    BY <2>1, <2>2 DEF LooseInv, Loose, Owing
<1>5. CASE SendFrame
  <2>1. phase = "on" /\ Loose
    BY <1>5 DEF SendFrame, ProgInv, OpenInv, Loose
  <2>2. UNCHANGED <<phase, prog, ip>>
    BY <1>5 DEF SendFrame
  <2>3. QED
    BY <2>1, <2>2 DEF LooseInv, Instruction
<1>6. QED
  BY <1>1, <1>2, <1>3, <1>4, <1>5, LooseThinks, ProgramSteps

LEMMA ProgAnswers ==
  ASSUME MaxInbox = 1, ProgInv, AnswerInv, LooseInv, [ProgNext]_allVars
  PROVE  AnswerInv'
<1> USE DEF ProgInv
<1>1. CASE UNCHANGED vars
  BY <1>1 DEF AnswerInv, Calm, Owing
<1>2. CASE Driver
  BY <1>2, AnswerDriver
<1>3. CASE Receive
  BY <1>3, AnswerReceive
<1>4. CASE Connect \/ Disable \/ ZeroTarget \/ ZeroThrows \/ OpenFifoThrows
  <2>1. Calls
    BY <1>4, ZeroCall DEF Disable, ZeroThrows, OpenFifoThrows, Calls
  <2>2. ~Loose
    BY <1>4 DEF Connect, Disable, ZeroTarget, ZeroThrows, OpenFifoThrows, At, LooseInv, Instruction
  <2>3. Calm
    BY <2>2, TightCalm DEF Loose
  <2>4. QED
    BY <2>1, <2>3, AnswerCalls
<1>5. CASE OpenFails
  BY <1>5 DEF OpenFails, OpenInv, AnswerInv, Calm, Owing
<1>6. CASE SendFrame
  <2>1. phase = "on"
    BY <1>6 DEF SendFrame, OpenInv
  <2>2. QED
    BY <1>1, <1>6, <2>1, FrameStep, AnswerStreamed
<1>7. QED
  BY <1>1, <1>2, <1>3, <1>4, <1>5, <1>6, ProgramSteps, ThinksQuietly

(* No answer is mistaken for a position, whatever is lost.                   *)
THEOREM ProgramsReadPositions ==
  ASSUME MaxInbox = 1
  PROVE  ProgSpec => []PositionsAreReal
<1>1. ProgInit => AnswerInv /\ LooseInv
  BY CalmInit DEF ProgInit, Init, LooseInv, Loose, Owing
<1>2. ProgInv /\ AnswerInv /\ LooseInv /\ [ProgNext]_allVars => (AnswerInv /\ LooseInv)'
  BY LooseStep, ProgAnswers
<1>3. AnswerInv => PositionsAreReal
  BY DEF AnswerInv, PositionsAreReal
<1>4. QED
  BY <1>1, <1>2, <1>3, ProgInvariance, PTL DEF ProgSpec

-----------------------------------------------------------------------------
(* What a program knows of the positions while nothing is lost.  While       *)
(* enabling, the flag is clear, and the answer to a frame has been stored    *)
(* before the next frame leaves: of the frames sent to a motor only the last *)
(* may still be without one, so two per motor are enough.                    *)

FlagInv ==
  /\ \A k \in Owing("caller") : ~Reply(inbox[k]) => ~flag
  /\ flag => armed = "set" \/ \E k \in DOMAIN inbox : Reply(inbox[k])
  /\ phase = "on" => ~flag
  /\ handling \in {"reply", "clear"} => flag

Coming(m) ==
  position[m] = "fed" \/ \E k \in Owing("caller") : inbox[k].motor = m /\ ~Reply(inbox[k])

FedInv ==
  /\ phase = "enable" => /\ \A k \in 1..(at - 1) : position[Visits[k]] = "fed"
                         /\ reps > 0 => Coming(Visits[at])
  /\ phase \in {"on", "zero", "unload"} => \A m \in Motor : position[m] = "fed"

(* What a frame is answered with when neither is lost. *)
LEMMA RegisterReplies ==
  ASSUME DriverInv, SavingInv, losses' = 0, WriteMode \/ ReadMode \/ SaveMotor
  PROVE  \E a \in Answers : a.to = "caller" /\ Reply(a) /\ inbox' = Append(inbox, a)
<1>1. losses = 0 /\ ~Lose
  BY NoLossDriver DEF Driver
<1>2. /\ Visits[at] \in Motor /\ target \in Motor
      /\ code \in Mode /\ reg[Visits[at]] \in Mode
  BY VisitsMotor DEF DriverInv, TypeInv, CallType, MotorType
<1>3. ASSUME NEW m \in Motor, NEW v \in Mode, Param(m, v)
      PROVE  \E a \in Answers : a.to = "caller" /\ Reply(a) /\ inbox' = Append(inbox, a)
  <2> DEFINE a == [kind |-> "param", motor |-> m, value |-> v, to |-> "caller"]
  <2>1. a \in Answers /\ a.to = "caller" /\ Reply(a)
    BY DEF Answers, Reply
  <2>2. inbox' = Append(inbox, a)
    BY <1>1, <1>3 DEF Param, Answer
  <2>3. QED
    BY <2>1, <2>2
<1>4. CASE WriteMode \/ ReadMode
  BY <1>1, <1>2, <1>3, <1>4 DEF WriteMode, MotorWrites, ReadMode, MotorReads, FrameLost
<1>5. CASE SaveMotor
  <2> DEFINE a == [kind |-> "saved", motor |-> target, to |-> "caller"]
  <2>1. a \in Answers /\ a.to = "caller" /\ Reply(a)
    BY <1>2 DEF Answers, Reply
  <2>2. ~enabled[target]
    BY <1>1, <1>5 DEF SaveMotor, Sending, SavingInv, Saving
  <2>3. inbox' = Append(inbox, a)
    BY <1>1, <1>5, <2>2 DEF SaveMotor, MotorSaves, FrameLost, Answer
  <2>4. QED
    BY <2>1, <2>3
<1>6. QED
  BY <1>4, <1>5

(* The motor that the frame of the calling thread is for. *)
Addressed == IF phase \in Loops THEN Visits[at] ELSE target

LEMMA MotorFeeds ==
  ASSUME DriverInv, losses' = 0, EnableMotor \/ DisableMotor \/ ZeroMotor \/ UnloadMotor
  PROVE  \E a \in Answers : /\ a.to = "caller" /\ ~Reply(a) /\ a.motor = Addressed
                            /\ inbox' = Append(inbox, a)
<1>1. ~Lose /\ \A m \in Motor : Served(m)
  BY NoLossDriver DEF Driver
<1>2. Visits[at] \in Motor /\ target \in Motor /\ Addressed \in Motor
  BY VisitsMotor DEF DriverInv, TypeInv, CallType, Addressed
<1>3. phase \in {"enable", "disable", "zero", "unload"}
  BY DEF EnableMotor, DisableMotor, ZeroMotor, UnloadMotor, Sending
<1>4. mode[Addressed] = reg[Addressed]
  BY <1>1, <1>2, <1>3 DEF Served
<1>5. Feed(Addressed, "caller")
  BY <1>1, <1>4
     DEF EnableMotor, DisableMotor, ZeroMotor, UnloadMotor, Sending, MotorObeys, FrameLost,
         Addressed, Loops
<1>6. PICK k \in Feedbacks : Answer([kind |-> k, motor |-> Addressed, to |-> "caller"])
  BY <1>5 DEF Feed
<1> DEFINE a == [kind |-> k, motor |-> Addressed, to |-> "caller"]
<1>7. /\ a \in Answers /\ a.to = "caller" /\ ~Reply(a) /\ a.motor = Addressed
  BY <1>2, FeedbacksAssumption DEF Answers, Reply
<1>8. inbox' = Append(inbox, a)
  BY <1>1, <1>6 DEF Answer
<1>9. QED
  BY <1>7, <1>8

(* Before a frame is sent the calling thread is owed nothing.                *)
LEMMA NoReply ==
  ASSUME MaxInbox = 1, TypeInv, AnswerInv, Room
  PROVE  Owing("caller") = {} /\ \A k \in DOMAIN inbox : ~Reply(inbox[k])
<1>1. Owing("caller") = {}
  BY RoomEmpty DEF TypeInv
<1>2. QED
  BY <1>1 DEF AnswerInv

LEMMA FlagDriver ==
  ASSUME MaxInbox = 1, DriverInv, AnswerInv, SavingInv, FlagInv, Driver, losses' = 0
  PROVE  FlagInv'
<1>1. CASE ReadCode
  BY <1>1 DEF ReadCode, FlagInv, Owing
<1>2. CASE SetFlag
  <2>1. Owing("caller") = {}
    BY <1>2, NoReply DEF SetFlag, DriverInv
  <2>2. QED
    BY <1>2, <2>1 DEF SetFlag, FlagInv, Owing
<1>3. CASE WriteMode \/ ReadMode \/ SaveMotor
  <2>1. Owing("caller") = {} /\ flag /\ flag' = flag /\ handling' = handling /\ phase' # "on"
    BY <1>3, NoReply, WriteStep, ReadStep
       DEF WriteMode, ReadMode, SaveMotor, Sending, Enter, DriverInv, AnswerInv
  <2>2. PICK a \in Answers : a.to = "caller" /\ Reply(a) /\ inbox' = Append(inbox, a)
    BY <1>3, RegisterReplies
  <2>3. /\ Len(inbox) + 1 \in DOMAIN inbox' /\ inbox'[Len(inbox) + 1] = a
        /\ \A k \in DOMAIN inbox : inbox'[k] = inbox[k]
        /\ \A k \in DOMAIN inbox' : k \in DOMAIN inbox \/ k = Len(inbox) + 1
    BY <2>2, Appended DEF DriverInv, TypeInv
  <2>4. \A k \in Owing("caller")' : Reply(inbox'[k])
    BY <2>1, <2>2, <2>3 DEF Owing
  <2>5. QED
    BY <2>1, <2>2, <2>3, <2>4 DEF FlagInv
<1>4. CASE EnableMotor \/ DisableMotor \/ ZeroMotor \/ UnloadMotor
  <2>1. /\ armed = "no" /\ flag' = flag /\ handling' = handling
        /\ \A k \in DOMAIN inbox : ~Reply(inbox[k])
    BY <1>4, NoReply DEF EnableMotor, DisableMotor, ZeroMotor, UnloadMotor, Sending, DriverInv
  <2>2. ~flag
    BY <2>1 DEF FlagInv
  <2>3. QED
    BY <2>1, <2>2 DEF FlagInv
<1>5. QED
  BY <1>1, <1>2, <1>3, <1>4 DEF Driver

(* The answer to a frame that is not a register access is handled with the   *)
(* flag clear.                                                               *)
LEMMA FlagReceive ==
  ASSUME TypeInv, Handled, AnswerInv, FlagInv, Receive
  PROVE  FlagInv'
<1>1. UNCHANGED <<armed, phase>>
  BY ReceivePhase
<1>2. inbox # <<>> => 1 \in DOMAIN inbox /\ Head(inbox) = inbox[1]
  BY DEF TypeInv, LinkType
<1>3. CASE Dispatch
  BY <1>3 DEF Dispatch, FlagInv, Owing
<1>4. CASE TakeReply /\ UNCHANGED inbox
  BY <1>2, <1>4 DEF TakeReply, FlagInv, Owing
<1>5. CASE inbox' = Tail(inbox) /\ inbox # <<>> /\ flag' = flag /\ handling' = "no" /\ ~Reply(inbox[1])
  <2>1. /\ \A k \in DOMAIN inbox' : k \in Nat /\ k + 1 \in DOMAIN inbox /\ inbox'[k] = inbox[k + 1]
        /\ \A k \in DOMAIN inbox : k # 1 => k - 1 \in DOMAIN inbox' /\ inbox'[k - 1] = inbox[k]
    BY <1>5 DEF TypeInv, LinkType
  <2>2. \A k \in Owing("caller")' : k + 1 \in Owing("caller") /\ inbox'[k] = inbox[k + 1]
    BY <2>1 DEF Owing
  <2>3. \A k \in DOMAIN inbox : Reply(inbox[k]) => \E j \in DOMAIN inbox' : Reply(inbox'[j])
    BY <1>5, <2>1
  <2>4. QED
    BY <1>1, <1>5, <2>2, <2>3 DEF FlagInv
<1>6. CASE TakeReply /\ inbox[1].kind = "plain"
  BY <1>2, <1>5, <1>6 DEF TakeReply, Handled, Reply
<1>7. CASE ClearFlag
  BY <1>7 DEF ClearFlag, FlagInv
<1>8. CASE TakeState
  <2>1. inbox # <<>> /\ ~Reply(inbox[1])
    BY <1>2, <1>8 DEF TakeState, Handled, AnswerInv
  <2>2. QED
    BY <1>5, <1>8, <2>1 DEF TakeState
<1>9. QED
  <2>1. TakeReply => UNCHANGED inbox \/ inbox[1].kind = "plain"
    BY <1>2 DEF TakeReply, Handled
  <2>2. QED
    BY <2>1, <1>3, <1>4, <1>6, <1>7, <1>8 DEF Receive

(* A frame of a control loop, or another step that leaves the flag.          *)
LEMMA FlagStreamed ==
  ASSUME TypeInv, FlagInv, NEW m \in Motor, Streamed(m)
  PROVE  FlagInv'
<1>1. UNCHANGED <<flag, handling, armed, phase>>
  BY DEF Streamed
<1>2. PICK kind \in Feedbacks : Answer([kind |-> kind, motor |-> m, to |-> "loop"])
  BY DEF Streamed, Feed
<1> DEFINE a == [kind |-> kind, motor |-> m, to |-> "loop"]
<1>3. a \in Answers /\ a.to = "loop"
  BY DEF Answers
<1> HIDE DEF a
<1>4. CASE UNCHANGED inbox
  BY <1>1, <1>4 DEF FlagInv, Owing
<1>5. CASE inbox' = Append(inbox, a)
  <2>1. /\ inbox'[Len(inbox) + 1] = a
        /\ \A k \in DOMAIN inbox : k \in DOMAIN inbox' /\ inbox'[k] = inbox[k]
        /\ \A k \in DOMAIN inbox' : k \in DOMAIN inbox \/ k = Len(inbox) + 1
    BY <1>3, <1>5, Appended DEF TypeInv
  <2>2. \A k \in Owing("caller")' : k \in Owing("caller") /\ inbox'[k] = inbox[k]
    BY <1>3, <2>1 DEF Owing
  <2>3. QED
    BY <1>1, <2>1, <2>2 DEF FlagInv
<1>6. QED
  BY <1>2, <1>4, <1>5 DEF Answer, Lose, a

LEMMA FlagCalls ==
  ASSUME FlagInv, Calls
  PROVE  FlagInv'
<1>1. UNCHANGED <<inbox, flag, handling, armed>> /\ phase' # "on"
  BY DEF Calls, Connect, Disconnect, CallSetZero, Enter
<1>2. QED
  BY <1>1 DEF FlagInv, Owing

(* A position that was fed back stays one, and an answer that is awaited is  *)
(* stored.                                                                   *)
LEMMA FedReceive ==
  ASSUME TypeInv, Handled, AnswerInv, FlagInv, Receive, NEW m \in Motor
  PROVE  /\ position[m] = "fed" => position'[m] = "fed"
         /\ Coming(m) => Coming(m)'
<1>1. inbox # <<>> => /\ 1 \in DOMAIN inbox /\ Head(inbox) = inbox[1]
                      /\ inbox[1].motor \in Motor
                      /\ ~Reply(inbox[1]) => inbox[1].kind \in Feedbacks
  BY AnAnswer DEF TypeInv, LinkType, Reply
<1>2. position \in [Motor -> {"initial", "fed", "garbage"}]
  BY DEF TypeInv, ObjectType
<1>3. CASE TakeState
  <2>1. inbox # <<>> /\ ~Reply(inbox[1]) /\ inbox' = Tail(inbox)
    BY <1>1, <1>3 DEF TakeState, Handled, AnswerInv
  <2>2. position' = [position EXCEPT ![inbox[1].motor] = "fed"]
    BY <1>1, <1>3, <2>1 DEF TakeState
  <2>3. position[m] = "fed" => position'[m] = "fed"
    BY <1>2, <2>2
  <2>4. \A k \in DOMAIN inbox : k # 1 => k - 1 \in DOMAIN inbox' /\ inbox'[k - 1] = inbox[k]
    BY <2>1 DEF TypeInv, LinkType
  <2>5. ASSUME NEW k \in Owing("caller"), inbox[k].motor = m, ~Reply(inbox[k])
        PROVE  Coming(m)'
    <3>1. CASE k = 1
      BY <1>2, <2>2, <2>5, <3>1 DEF Coming
    <3>2. CASE k # 1
      BY <2>4, <2>5, <3>2 DEF Coming, Owing
    <3>3. QED
      BY <3>1, <3>2
  <2>6. QED
    BY <2>3, <2>5 DEF Coming
<1>4. CASE ~TakeState
  <2>1. UNCHANGED position
    BY <1>4 DEF Receive, Dispatch, TakeReply, ClearFlag
  <2>2. ASSUME NEW k \in Owing("caller"), inbox[k].motor = m, ~Reply(inbox[k])
        PROVE  Coming(m)'
    <3>1. Dispatch
      BY <1>4, <2>2 DEF Receive, FlagInv, TakeReply, ClearFlag
    <3>2. QED
      BY <2>2, <3>1 DEF Dispatch, Coming, Owing
  <2>3. QED
    BY <2>1, <2>2 DEF Coming
<1>5. QED
  BY <1>3, <1>4

(* The loop of enable_all: a motor has answered its last frame but one when  *)
(* the last one is sent.                                                     *)
LEMMA FedEnable ==
  ASSUME MaxInbox = 1, Repeat > 1, DriverInv, AnswerInv, FedInv, EnableMotor, losses' = 0
  PROVE  FedInv'
<1>1. /\ phase = "enable" /\ UNCHANGED position /\ Room
      /\ \A k \in 1..(at - 1) : position[Visits[k]] = "fed"
      /\ reps > 0 => Coming(Visits[at])
  BY DEF EnableMotor, Sending, FedInv
<1>2. Owing("caller") = {}
  BY <1>1, NoReply DEF DriverInv
<1>3. reps > 0 => position[Visits[at]] = "fed"
  BY <1>1, <1>2 DEF Coming
<1>4. /\ reps \in Nat /\ at \in 1..Len(Visits) /\ Len(Visits) \in Nat \ {0} /\ Repeat \in Nat
      /\ Visits[at] \in Motor
  BY VisitsMotor, RepeatAssumption DEF DriverInv, TypeInv, LoopType
<1>5. CASE reps + 1 < Repeat /\ reps' = reps + 1 /\ UNCHANGED <<phase, at>>
  <2>1. PICK a \in Answers : /\ a.to = "caller" /\ ~Reply(a) /\ a.motor = Addressed
                             /\ inbox' = Append(inbox, a)
    BY MotorFeeds
  <2>2. a.motor = Visits[at]
    BY <1>1, <2>1 DEF Addressed, Loops
  <2>3. Len(inbox) + 1 \in DOMAIN inbox' /\ inbox'[Len(inbox) + 1] = a
    BY <2>1, Appended DEF DriverInv, TypeInv
  <2>4. Coming(Visits[at])'
    BY <1>5, <2>1, <2>2, <2>3 DEF Coming, Owing
  <2>5. QED
    BY <1>1, <1>5, <2>4 DEF FedInv
<1>6. CASE reps + 1 = Repeat
  <2>1. \A k \in 1..at : position[Visits[k]] = "fed"
    BY <1>1, <1>3, <1>4, <1>6
  <2>2. CASE reps' = 0 /\ at' = at + 1 /\ UNCHANGED phase
    BY <1>1, <1>4, <2>1, <2>2 DEF FedInv
  <2>3. CASE at = Len(Visits) /\ phase' = "on"
    <3>1. \A m \in Motor : \E k \in 1..at : Visits[k] = m
      BY <2>3, VisitsAssumption
    <3>2. \A m \in Motor : position[m] = "fed"
      BY <2>1, <3>1
    <3>3. QED
      BY <1>1, <2>3, <3>2 DEF FedInv
  <2>4. QED
    BY <1>1, <1>4, <1>6, <2>2, <2>3 DEF EnableMotor, Advance, Enter, After
<1>7. QED
  BY <1>1, <1>5, <1>6 DEF EnableMotor, Advance

LEMMA FedDriver ==
  ASSUME MaxInbox = 1, Repeat > 1, DriverInv, AnswerInv, FedInv, Driver, losses' = 0
  PROVE  FedInv'
<1>1. CASE EnableMotor
  BY <1>1, FedEnable
<1>2. UNCHANGED position
  BY DEF Driver, ReadCode, SetFlag, WriteMode, ReadMode, EnableMotor, DisableMotor, ZeroMotor,
         UnloadMotor, SaveMotor, Sending
<1>3. CASE ReadCode \/ SetFlag
  <2>1. phase # "enable" /\ UNCHANGED phase
    BY <1>3 DEF ReadCode, SetFlag
  <2>2. QED
    BY <1>2, <2>1 DEF FedInv
<1>4. CASE WriteMode \/ DisableMotor
  BY <1>4, WriteStep, DisableStep DEF FedInv
<1>5. CASE ReadMode
  <2>1. phase' = "enable" => at' = 1 /\ reps' = 0
    BY <1>5 DEF ReadMode, Sending, Advance, Enter
  <2>2. phase' \in {"read", "enable"}
    BY <1>5, ReadStep
  <2>3. QED
    BY <2>1, <2>2 DEF FedInv
<1>6. CASE ZeroMotor
  BY <1>2, <1>6 DEF ZeroMotor, Sending, FedInv
<1>7. CASE UnloadMotor \/ SaveMotor
  BY <1>7 DEF UnloadMotor, SaveMotor, Enter, FedInv
<1>8. QED
  BY <1>1, <1>3, <1>4, <1>5, <1>6, <1>7 DEF Driver

LEMMA FedOther ==
  ASSUME TypeInv, FedInv, Calls \/ \E m \in Motor : Streamed(m)
  PROVE  FedInv'
<1>1. CASE Connect \/ Disconnect
  BY <1>1 DEF Connect, Disconnect, Enter, FedInv
<1>2. CASE \E m \in Motor, s \in BOOLEAN : CallSetZero(m, s)
  BY <1>2 DEF CallSetZero, FedInv
<1>3. ASSUME NEW m \in Motor, Streamed(m)
      PROVE  FedInv'
  <2>1. UNCHANGED <<position, phase, at, reps>>
    BY <1>3 DEF Streamed
  <2>2. PICK kind \in Feedbacks : Answer([kind |-> kind, motor |-> m, to |-> "loop"])
    BY <1>3 DEF Streamed, Feed
  <2> DEFINE a == [kind |-> kind, motor |-> m, to |-> "loop"]
  <2>3. a \in Answers
    BY DEF Answers
  <2> HIDE DEF a
  <2>4. UNCHANGED inbox \/ inbox' = Append(inbox, a)
    BY <2>2 DEF Answer, Lose, a
  <2>5. \A k \in DOMAIN inbox : k \in DOMAIN inbox' /\ inbox'[k] = inbox[k]
    BY <2>3, <2>4, Appended DEF TypeInv
  <2>6. \A d \in Motor : Coming(d) => Coming(d)'
    BY <2>1, <2>5 DEF Coming, Owing
  <2>7. phase = "enable" => Visits[at] \in Motor
    BY VisitsMotor DEF TypeInv
  <2>8. QED
    BY <2>1, <2>6, <2>7 DEF FedInv
<1>4. QED
  BY <1>1, <1>2, <1>3 DEF Calls

LEMMA ProgNoLoss ==
  ASSUME ProgInv, [ProgNext]_allVars, losses' = 0
  PROVE  losses = 0
<1>1. losses \in Nat
  BY BoundsAssumption DEF ProgInv, TypeInv, LinkType
<1>2. CASE Step
  BY <1>1, <1>2, LossesStep DEF ProgInv
<1>3. CASE OpenFails
  BY <1>3 DEF OpenFails
<1>4. QED
  BY <1>2, <1>3, DriverPart DEF ProgInv

(* A step of a program that has opened the adapter. *)
LEMMA OpenedStep ==
  ASSUME ProgInv, [ProgNext]_allVars
  PROVE  \/ UNCHANGED allVars
         \/ OpenFails
         \/ outcome # "notOpened" /\ outcome' # "notOpened" /\ DriverInv /\ Step
BY Frozen, StaysOpened, DriverPart DEF ProgInv, OpenInv

LEMMA ProgSaving == ProgInv /\ SavingInv /\ [ProgNext]_allVars => SavingInv'
<1> SUFFICES ASSUME ProgInv, SavingInv, [ProgNext]_allVars
             PROVE  SavingInv'
  OBVIOUS
<1>1. CASE UNCHANGED allVars
  BY <1>1 DEF SavingInv, Saving
<1>2. CASE OpenFails
  BY <1>2 DEF OpenFails, SavingInv, Saving
<1>3. QED
  BY <1>1, <1>2, OpenedStep, SavingStep

(* hold_position sends what it has read. *)
CommandInv == \A m \in Motor : command[m] \in {"zero", "fed"}

ReportInv == losses = 0 => FlagInv /\ FedInv /\ CommandInv

LEMMA CommandStep ==
  ASSUME FedInv, CommandInv, [ProgNext]_allVars
  PROVE  CommandInv'
<1>1. CASE Hold
  BY <1>1 DEF Hold, At, FedInv, CommandInv
<1>2. CASE ~Hold
  <2>1. command' = command
    BY <1>2, ProgramSteps
       DEF Thinks, Send, Sleep, States, Loop, Again, Zeroed, OpenFifo, Interrupt, GoTo,
           OpenFails, SendFrame, ZeroTarget, ZeroThrows, OpenFifoThrows
  <2>2. QED
    BY <2>1 DEF CommandInv
<1>3. QED
  BY <1>1, <1>2

LEMMA ReportStep ==
  ASSUME MaxInbox = 1, Repeat > 1, ProgInv, SavingInv, AnswerInv, ReportInv, [ProgNext]_allVars
  PROVE  ReportInv'
<1> SUFFICES ASSUME losses' = 0
             PROVE  FlagInv' /\ FedInv'
  BY ProgNoLoss, CommandStep DEF ReportInv
<1>1. TypeInv /\ Handled /\ FlagInv /\ FedInv
  BY ProgNoLoss DEF ProgInv, ReportInv
<1>2. CASE UNCHANGED vars
  BY <1>1, <1>2 DEF FlagInv, FedInv, Coming, Owing
<1>3. CASE OpenFails
  BY <1>1, <1>3 DEF OpenFails, FlagInv, FedInv, Owing
<1>4. CASE DriverInv /\ Driver
  BY <1>1, <1>4, FlagDriver, FedDriver
<1>5. CASE Receive
  <2>1. UNCHANGED <<phase, at, reps>>
    BY <1>5, ReceivePhase
  <2>2. phase = "enable" => Visits[at] \in Motor
    BY <1>1, VisitsMotor DEF TypeInv
  <2>3. \A k \in DOMAIN Visits : Visits[k] \in Motor
    BY VisitsAssumption
  <2>4. \A k \in 1..(at - 1) : Visits[k] \in Motor
    BY <1>1, <2>3, VisitsMotor DEF TypeInv, LoopType
  <2>5. FedInv'
    BY <1>1, <1>5, <2>1, <2>2, <2>4, FedReceive DEF FedInv
  <2>6. QED
    BY <1>1, <1>5, <2>5, FlagReceive
<1>6. CASE Calls
  BY <1>1, <1>6, FlagCalls, FedOther
<1>7. ASSUME NEW m \in Motor, Streamed(m)
      PROVE  FlagInv' /\ FedInv'
  BY <1>1, <1>7, FlagStreamed, FedOther
<1>8. QED
  BY <1>2, <1>3, <1>4, <1>5, <1>6, <1>7, OpenedStep DEF Step

(* While nothing is lost every motor has reported its position whenever a    *)
(* program reads states(), and hold_position commands no position that was   *)
(* never reported.  One answer may still be under way when enable_all        *)
(* returns; it is not the only one of its motor, which is sent the frame     *)
(* more than once (5 times in the code).                                     *)
THEOREM ProgramsReadStates ==
  ASSUME MaxInbox = 1, Repeat > 1
  PROVE  ProgSpec => []StatesAreReported
<1> DEFINE Inv == SavingInv /\ AnswerInv /\ LooseInv /\ ReportInv
<1>1. ProgInit => Inv
  BY CalmInit
     DEF ProgInit, Init, SavingInv, Saving, LooseInv, Loose, Owing, ReportInv, FlagInv, FedInv,
         CommandInv
<1>2. ProgInv /\ Inv /\ [ProgNext]_allVars => Inv'
  BY ProgSaving, LooseStep, ProgAnswers, ReportStep
<1>3. Inv => StatesAreReported
  BY DEF ReportInv, FedInv, CommandInv, StatesAreReported, At
<1> HIDE DEF Inv
<1>4. QED
  BY <1>1, <1>2, <1>3, ProgInvariance, PTL DEF ProgSpec

-----------------------------------------------------------------------------
(* What set_zero_position zeroes.                                            *)

Left == {targets[k] : k \in DOMAIN targets}

LEMMA LeftHead ==
  ASSUME ProgType, targets # <<>>
  PROVE  Left = {Head(targets)} \cup {Tail(targets)[k] : k \in DOMAIN Tail(targets)}
<1>1. targets \in Seq(Motor \cup {Unknown})
  BY DEF ProgType
<1>2. /\ 1 \in DOMAIN targets /\ Head(targets) = targets[1]
      /\ \A k \in DOMAIN targets : k # 1 => /\ k - 1 \in DOMAIN Tail(targets)
                                           /\ Tail(targets)[k - 1] = targets[k]
      /\ \A k \in DOMAIN Tail(targets) : /\ k + 1 \in DOMAIN targets
                                         /\ Tail(targets)[k] = targets[k + 1]
  BY <1>1
<1> DEFINE rest == {Tail(targets)[k] : k \in DOMAIN Tail(targets)}
<1>3. ASSUME NEW m \in Left
      PROVE  m \in {Head(targets)} \cup rest
  <2>1. PICK k \in DOMAIN targets : targets[k] = m
    BY DEF Left
  <2>2. QED
    BY <1>2, <2>1
<1>4. {Head(targets)} \cup rest \subseteq Left
  BY <1>2 DEF Left
<1>5. QED
  BY <1>3, <1>4

(* Whatever is lost, it calls set_zero only for IDs it was asked for, and    *)
(* with persist only when it is to save.                                     *)
AskedInv ==
  /\ Left \subseteq asked
  /\ phase \in {"zero", "unload", "save"} => prog = "zero" /\ target \in asked /\ persist = save
  /\ phase \in {"unload", "save"} => persist
  /\ \A m \in Motor : /\ zero[m] = "new" => prog = "zero" /\ m \in asked
                      /\ flash[m] = "new" => zero[m] = "new" /\ save

(* What the frames of set_zero do to the motors, lost or not.                *)
LEMMA ZeroingSteps ==
  ASSUME TypeInv, ZeroMotor \/ UnloadMotor \/ SaveMotor
  PROVE  /\ UNCHANGED <<target, persist>>
         /\ phase \in {"zero", "unload", "save"}
         /\ phase = "zero" => phase' = IF persist THEN "unload" ELSE "on"
         /\ phase = "unload" => phase' = "save"
         /\ phase = "save" => phase' = "write"
         /\ \A m \in Motor : /\ zero'[m] = zero[m] \/ m = target
                             /\ zero[m] = "new" => zero'[m] = "new"
                             /\ flash'[m] = flash[m] \/ m = target
         /\ phase # "zero" => UNCHANGED zero
         /\ flash' = flash \/ (phase = "save" /\ flash'[target] = zero[target])
<1>1. target \in Motor /\ zero \in [Motor -> {"old", "new"}] /\ flash \in [Motor -> {"old", "new"}]
  BY DEF TypeInv, MotorType, CallType
<1>2. CASE ZeroMotor
  BY <1>1, <1>2 DEF ZeroMotor, Sending, MotorObeys, SetZero, FrameLost
<1>3. CASE UnloadMotor
  BY <1>1, <1>3 DEF UnloadMotor, Sending, MotorObeys, Switch, FrameLost
<1>4. CASE SaveMotor
  BY <1>1, <1>4 DEF SaveMotor, Sending, MotorSaves, FrameLost, Enter
<1>5. QED
  BY <1>2, <1>3, <1>4

LEMMA AskedDriver ==
  ASSUME TypeInv, AskedInv, Driver, UNCHANGED progVars
  PROVE  AskedInv'
<1>1. CASE ReadCode \/ SetFlag
  BY <1>1, HiddenSteps DEF Hidden, AskedInv, Left
<1>2. CASE WriteMode \/ ReadMode \/ EnableMotor \/ DisableMotor
  BY <1>2, WriteStep, ReadStep, EnableStep, DisableStep DEF AskedInv, Left
<1>3. CASE ZeroMotor \/ UnloadMotor \/ SaveMotor
  <2>1. Left' \subseteq asked'
    BY DEF AskedInv, Left
  <2>2. \A m \in Motor : zero'[m] = "new" => prog = "zero" /\ m \in asked
    BY <1>3, ZeroingSteps DEF AskedInv
  <2>3. \A m \in Motor : flash'[m] = "new" => zero'[m] = "new" /\ save
    <3> SUFFICES ASSUME NEW m \in Motor, flash'[m] = "new"
                 PROVE  zero'[m] = "new" /\ save
      OBVIOUS
    <3>1. CASE flash'[m] = flash[m]
      BY <1>3, <3>1, ZeroingSteps DEF AskedInv
    <3>2. CASE m = target /\ flash'[m] # flash[m]
      <4>1. phase = "save" /\ zero[m] = "new"
        BY <1>3, <3>2, ZeroingSteps
      <4>2. zero'[m] = "new"
        BY <1>3, <4>1, ZeroingSteps
      <4>3. save
        BY <4>1 DEF AskedInv
      <4>4. QED
        BY <4>2, <4>3
    <3>3. QED
      BY <1>3, <3>1, <3>2, ZeroingSteps
  <2>4. QED
    BY <1>3, <2>1, <2>2, <2>3, ZeroingSteps DEF AskedInv
<1>4. QED
  BY <1>1, <1>2, <1>3 DEF Driver

LEMMA AskedStep == ProgInv /\ AskedInv /\ [ProgNext]_allVars => AskedInv'
<1> SUFFICES ASSUME ProgInv, AskedInv, [ProgNext]_allVars
             PROVE  AskedInv'
  OBVIOUS
<1>1. CASE Thinks
  <2>1. UNCHANGED <<vars, targets, asked, save, prog>>
    BY <1>1 DEF Thinks, Send, Sleep, States, Hold, Loop, Again, Zeroed, OpenFifo, Interrupt, GoTo
  <2>2. QED
    BY <2>1 DEF AskedInv, Left
<1>2. CASE UNCHANGED allVars
  BY <1>2 DEF AskedInv, Left
<1>3. CASE OpenFails
  BY <1>3 DEF OpenFails, AskedInv, Left
<1>4. CASE Driver /\ UNCHANGED progVars
  BY <1>4, AskedDriver DEF ProgInv
<1>5. CASE Receive /\ UNCHANGED progVars
  BY <1>5, ReceivePhase DEF AskedInv, Left
<1>6. CASE (Connect \/ Disable) /\ UNCHANGED progVars
  BY <1>6 DEF Connect, Disable, Disconnect, Enter, AskedInv, Left
<1>7. CASE ZeroThrows \/ OpenFifoThrows
  BY <1>7 DEF ZeroThrows, OpenFifoThrows, Disconnect, Enter, AskedInv, Left
<1>8. CASE SendFrame
  BY <1>8 DEF SendFrame, AskedInv, Left
<1>9. CASE ZeroTarget
  <2>1. Head(targets) \in asked /\ Left' \subseteq asked
    BY <1>9, LeftHead DEF ZeroTarget, ProgInv, AskedInv, Left
  <2>2. prog = "zero"
    <3>1. prog \in DOMAIN Script /\ ip \in DOMAIN Script[prog] /\ Script[prog][ip] = "target"
      BY <1>9 DEF ZeroTarget, At, ProgInv, ProgType, Places
    <3>2. QED
      BY <3>1, Scripts
  <2>3. QED
    BY <1>9, <2>1, <2>2 DEF ZeroTarget, CallSetZero, GoTo, AskedInv
<1>10. QED
  BY <1>1, <1>2, <1>3, <1>4, <1>5, <1>6, <1>7, <1>8, <1>9, ProgramSteps

(* While nothing is lost it zeroes all of them.                              *)

(* It disconnects at the end of its script, with no ID left, or on its way   *)
(* out over an exception.                                                    *)
ScriptInv ==
  prog = "zero" =>
    /\ ip > 4 => targets = <<>>
    /\ phase = "disable" \/ (phase = "off" /\ outcome # "notOpened") =>
         ip = 8 \/ outcome = "error"

(* A motor that was asked for is still to come, or the call for it has begun *)
(* and not sent the frame yet, or it is zeroed, and with the save option it  *)
(* is in flash or will be when that call returns.                            *)
ZeroDone(m) ==
  /\ m \in Motor /\ zero[m] = "new"
  /\ save => flash[m] = "new" \/ (m = target /\ phase \in {"unload", "save"})

ZeroedInv ==
  /\ phase = "new" => ~persist
  /\ phase \in {"zero", "unload", "save"} => persist = save
  /\ phase \in {"unload", "save"} => persist
  /\ ~save => \A m \in Motor : flash[m] = "old"
  /\ \A m \in asked : m \in Left \/ (m = target /\ phase = "zero") \/ ZeroDone(m)

LEMMA ZeroPlaces ==
  ASSUME ProgType, prog = "zero"
  PROVE  /\ ip \in 1..8
         /\ Instruction = "disable" <=> ip = 8
         /\ Instruction = "target" => ip = 4
         /\ Instruction \notin {"loop", "again", "hold", "fifo"}
<1>1. prog \in DOMAIN Script /\ ip \in DOMAIN Script[prog]
  BY DEF ProgType, Places
<1>2. Script[prog][ip] \notin {"hold", "fifo"}
  BY <1>1 DEF Script, ZeroScript
<1>3. QED
  BY <1>1, <1>2, Scripts DEF Instruction

LEMMA ScriptStep == ProgInv /\ ScriptInv /\ [ProgNext]_allVars => ScriptInv'
<1> SUFFICES ASSUME ProgInv, ScriptInv, [ProgNext]_allVars, prog' = "zero"
             PROVE  /\ ip' > 4 => targets' = <<>>
                    /\ phase' = "disable" \/ (phase' = "off" /\ outcome' # "notOpened") =>
                         ip' = 8 \/ outcome' = "error"
  BY DEF ScriptInv
<1> USE DEF ProgInv
<1>1. prog = "zero"
  BY ProgramSteps
     DEF Thinks, Send, Sleep, States, Hold, Loop, Again, Zeroed, OpenFifo, Interrupt, GoTo,
         OpenFails, SendFrame, ZeroTarget, ZeroThrows, OpenFifoThrows
<1>2. /\ ip \in 1..8
      /\ Instruction = "disable" <=> ip = 8
      /\ Instruction = "target" => ip = 4
      /\ Instruction \notin {"loop", "again", "hold", "fifo"}
  BY <1>1, ZeroPlaces
<1>3. /\ ip > 4 => targets = <<>>
      /\ phase = "disable" \/ (phase = "off" /\ outcome # "notOpened") =>
           ip = 8 \/ outcome = "error"
  BY <1>1 DEF ScriptInv
<1>4. CASE Send \/ Sleep \/ States
  <2>1. phase' = "on" /\ ip' = ip + 1 /\ targets' = targets
    BY <1>4 DEF Send, Sleep, States, At, GoTo
  <2>2. ip # 4
    BY <1>1, <1>4 DEF Send, Sleep, States, At, Script, ZeroScript
  <2>3. QED
    BY <1>2, <1>3, <2>1, <2>2
<1>5. CASE Zeroed
  BY <1>5 DEF Zeroed, At
<1>6. CASE Hold \/ Loop \/ Again \/ OpenFifo \/ OpenFifoThrows
  BY <1>2, <1>6 DEF Hold, Loop, Again, OpenFifo, OpenFifoThrows, At, Instruction
<1>7. CASE Interrupt
  BY <1>3, <1>7 DEF Interrupt
<1>8. CASE (Driver \/ Receive \/ Connect \/ Disable) /\ UNCHANGED progVars
  BY <1>2, <1>3, <1>8, DriverPhase, ReceivePhase
     DEF Connect, Disable, Disconnect, At, Enter, Instruction
<1>9. CASE OpenFails
  BY <1>3, <1>9 DEF OpenFails
<1>10. CASE SendFrame
  BY <1>3, <1>10 DEF SendFrame
<1>11. CASE ZeroTarget
  BY <1>2, <1>11 DEF ZeroTarget, CallSetZero, GoTo, At, Instruction
<1>12. CASE ZeroThrows \/ OpenFifoThrows
  BY <1>3, <1>12 DEF ZeroThrows, OpenFifoThrows
<1>13. CASE UNCHANGED allVars
  BY <1>3, <1>13
<1>14. QED
  BY <1>4, <1>5, <1>6, <1>7, <1>8, <1>9, <1>10, <1>11, <1>12, <1>13, ProgramSteps DEF Thinks

LEMMA ZeroedDriver ==
  ASSUME DriverInv, SavingInv, ZeroedInv, Driver, UNCHANGED progVars, losses' = 0
  PROVE  ZeroedInv'
<1>1. /\ target \in Motor
      /\ zero \in [Motor -> {"old", "new"}] /\ flash \in [Motor -> {"old", "new"}]
  BY DEF DriverInv, TypeInv, CallType, MotorType
<1>2. CASE ReadCode \/ SetFlag
  BY <1>2, HiddenSteps DEF Hidden, ZeroedInv, ZeroDone, Left
<1>3. CASE WriteMode \/ ReadMode \/ EnableMotor \/ DisableMotor
  BY <1>3, WriteStep, ReadStep, EnableStep, DisableStep DEF ZeroedInv, ZeroDone, Left
<1>4. CASE ZeroMotor
  BY <1>1, <1>4, ZeroStep DEF ZeroedInv, ZeroDone, Left
<1>5. CASE UnloadMotor
  BY <1>5, UnloadStep DEF ZeroedInv, ZeroDone, Left
<1>6. CASE SaveMotor
  BY <1>1, <1>6, SaveStep DEF ZeroedInv, ZeroDone, Left
<1>7. QED
  BY <1>2, <1>3, <1>4, <1>5, <1>6 DEF Driver

LEMMA ZeroedCall ==
  ASSUME ProgType, ZeroedInv, ZeroTarget
  PROVE  ZeroedInv'
<1>1. /\ phase = "on" /\ phase' = "zero" /\ target' = Head(targets) /\ persist' = save
      /\ targets # <<>> /\ targets' = Tail(targets)
      /\ UNCHANGED <<zero, flash, save, asked>>
  BY DEF ZeroTarget, CallSetZero, GoTo
<1>2. \A m \in Left : m = Head(targets) \/ m \in Left'
  BY <1>1, LeftHead DEF Left
<1>3. QED
  BY <1>1, <1>2 DEF ZeroedInv, ZeroDone

LEMMA ZeroedStep ==
  ASSUME ProgInv, SavingInv, losses = 0 => ZeroedInv, [ProgNext]_allVars
  PROVE  losses' = 0 => ZeroedInv'
<1> SUFFICES ASSUME losses' = 0
             PROVE  ZeroedInv'
  OBVIOUS
<1>1. ZeroedInv
  BY ProgNoLoss
<1>2. CASE Thinks
  <2>1. UNCHANGED <<vars, targets, asked, save>>
    BY <1>2 DEF Thinks, Send, Sleep, States, Hold, Loop, Again, Zeroed, OpenFifo, Interrupt, GoTo
  <2>2. QED
    BY <1>1, <2>1 DEF ZeroedInv, ZeroDone, Left
<1>3. CASE UNCHANGED allVars
  BY <1>1, <1>3 DEF ZeroedInv, ZeroDone, Left
<1>4. CASE OpenFails
  BY <1>1, <1>4 DEF OpenFails, ZeroedInv, ZeroDone, Left
<1>5. CASE Driver /\ UNCHANGED progVars
  BY <1>1, <1>3, <1>4, <1>5, OpenedStep, ZeroedDriver
<1>6. CASE Receive /\ UNCHANGED progVars
  BY <1>1, <1>6, ReceivePhase DEF ZeroedInv, ZeroDone, Left
<1>7. CASE (Connect \/ Disable) /\ UNCHANGED progVars
  BY <1>1, <1>7 DEF Connect, Disable, Disconnect, Enter, ZeroedInv, ZeroDone, Left
<1>8. CASE ZeroThrows \/ OpenFifoThrows
  BY <1>1, <1>8 DEF ZeroThrows, OpenFifoThrows, Disconnect, Enter, ZeroedInv, ZeroDone, Left
<1>9. CASE SendFrame
  BY <1>1, <1>9 DEF SendFrame, ZeroedInv, ZeroDone, Left
<1>10. CASE ZeroTarget
  BY <1>1, <1>10, ZeroedCall DEF ProgInv
<1>11. QED
  BY <1>2, <1>3, <1>4, <1>5, <1>6, <1>7, <1>8, <1>9, <1>10, ProgramSteps

(* set_zero_position zeroes no other motor than it was asked for, and saves  *)
(* none with --runtime-only; if it ends normally, and nothing was lost, it   *)
(* has zeroed them all, and saved them when it should.                       *)
THEOREM ProgramsZeroAsAsked == ProgSpec => []ZeroedAsAsked
<1> DEFINE Inv == SavingInv /\ ScriptInv /\ AskedInv /\ (losses = 0 => ZeroedInv)
<1>1. ProgInit => Inv
  BY DEF ProgInit, Init, SavingInv, Saving, ScriptInv, AskedInv, ZeroedInv, ZeroDone, Left
<1>2. ProgInv /\ Inv /\ [ProgNext]_allVars => Inv'
  BY ProgSaving, ScriptStep, AskedStep, ZeroedStep
<1>3. ProgInv /\ Inv => ZeroedAsAsked
  <2> SUFFICES ASSUME ProgInv, Inv, prog = "zero", phase = "off", outcome = "ok", losses = 0,
                      NEW m \in asked
               PROVE  zero[m] = "new" /\ (save => flash[m] = "new")
    BY DEF ZeroedAsAsked, AskedInv
  <2>1. targets = <<>>
    BY DEF ScriptInv
  <2>2. m \notin Left
    BY <2>1 DEF Left
  <2>3. QED
    BY <2>2 DEF ZeroedInv, ZeroDone
<1> HIDE DEF Inv
<1>4. QED
  BY <1>1, <1>2, <1>3, ProgInvariance, PTL DEF ProgSpec

-----------------------------------------------------------------------------
(* What a program does to the arm, seen from outside, is what MotorPower     *)
(* promises of calls; one that could not open the adapter never begins.      *)

CallOfProgram == IF outcome = "notOpened" THEN "none" ELSE CallUnderWay

ProgPower == INSTANCE MotorPower WITH call <- CallOfProgram, subject <- target, keep <- persist

USE DEF Power!vars, Power!motorVars, ProgPower!vars, ProgPower!motorVars

LEMMA SamePower ==
  ASSUME outcome # "notOpened", outcome' # "notOpened", [Power!Next]_(Power!vars)
  PROVE  [ProgPower!Next]_(ProgPower!vars)
<1>1. CallOfProgram = CallUnderWay /\ CallOfProgram' = CallUnderWay'
  BY DEF CallOfProgram
<1> HIDE DEF CallOfProgram, CallUnderWay
<1>2. Power!Zeroing => ProgPower!Zeroing
  BY <1>1 DEF Power!Zeroing, ProgPower!Zeroing
<1>3. Power!Work => ProgPower!Work
  BY <1>1, <1>2 DEF Power!Work, ProgPower!Work
<1>4. /\ Power!Proceed => ProgPower!Proceed
      /\ Power!Opened => ProgPower!Opened
      /\ Power!Closed => ProgPower!Closed
  BY <1>1, <1>3 DEF Power!Proceed, Power!Opened, Power!Closed,
                    ProgPower!Proceed, ProgPower!Opened, ProgPower!Closed
<1>5. /\ Power!Connect => ProgPower!Connect
      /\ Power!Disconnect => ProgPower!Disconnect
      /\ \A m \in Motor, s \in BOOLEAN : Power!SetZero(m, s) => ProgPower!SetZero(m, s)
  BY <1>1 DEF Power!Connect, Power!Disconnect, Power!SetZero,
              ProgPower!Connect, ProgPower!Disconnect, ProgPower!SetZero
<1>6. Power!Next => ProgPower!Next
  BY <1>4, <1>5 DEF Power!Next, ProgPower!Next
<1>7. QED
  BY <1>1, <1>6

(* What holds of a program that has opened the adapter. *)
OpenedInv == outcome # "notOpened" => LosslessInv

ProgPowerInv == outcome # "notOpened" => ZeroInv

LEMMA ProgPowerStep ==
  ASSUME ProgInv, OpenedInv, OpenedInv', ProgPowerInv, [ProgNext]_allVars
  PROVE  ProgPowerInv' /\ [ProgPower!Next]_(ProgPower!vars)
<1>1. CASE UNCHANGED allVars
  BY <1>1 DEF ProgPowerInv, ZeroInv, CallOfProgram, CallUnderWay
<1>2. CASE OpenFails
  <2>1. outcome # "notOpened"
    BY <1>2 DEF OpenFails, ProgInv, OpenInv
  <2>2. QED
    BY <1>2, <2>1 DEF OpenFails, ProgPowerInv, CallOfProgram, CallUnderWay
<1>3. CASE outcome # "notOpened" /\ outcome' # "notOpened" /\ DriverInv /\ Step
  <2>1. LosslessInv /\ ZeroInv
    BY <1>3 DEF OpenedInv, ProgPowerInv
  <2>2. LosslessInv'
    BY <1>3 DEF OpenedInv
  <2>3. ZeroInv'
    BY <1>3, <2>1, <2>2, ZeroInvStep
  <2>4. QED
    BY <1>3, <2>1, <2>2, <2>3, PowerStep, SamePower DEF ProgPowerInv
<1>4. QED
  BY <1>1, <1>2, <1>3, OpenedStep

(* While nothing is lost, every program, with any arguments, and wherever it *)
(* is interrupted, does to the motors what MotorPower promises of the calls  *)
(* it makes and no more.                                                     *)
THEOREM ProgramsPower ==
  ASSUME MaxLosses = 0
  PROVE  ProgSpec => ProgPower!Spec
<1>1. ProgInit => ProgPower!Init /\ SavingInv /\ ProgPowerInv
  BY DEF ProgInit, Init, ProgPower!Init, CallOfProgram, CallUnderWay, SavingInv, Saving,
         ProgPowerInv, ZeroInv
<1>2. ProgInv /\ SavingInv /\ [ProgNext]_allVars => SavingInv'
  BY ProgSaving
<1>3. ProgInv /\ SavingInv => OpenedInv
  BY Lossless DEF ProgInv, OpenInv, OpenedInv
<1>4. ProgInv /\ OpenedInv /\ OpenedInv' /\ ProgPowerInv /\ [ProgNext]_allVars
        => ProgPowerInv' /\ [ProgPower!Next]_(ProgPower!vars)
  BY ProgPowerStep
<1>5. QED
  BY <1>1, <1>2, <1>3, <1>4, ProgInvariance, PTL DEF ProgSpec, ProgPower!Spec
=============================================================================
