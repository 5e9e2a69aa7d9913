------------------------- MODULE FifoControlProofs -------------------------
(***************************************************************************)
(* Theorems about arm_mit_control, for every set of motors, every step and *)
(* any number of lines.                                                    *)
(***************************************************************************)
EXTENDS FifoControl, TLAPS

USE StepAssumption, DeltaAssumption, StartAssumption, NaNAssumption, LinesAssumption

(* A frame may be late only when the test of running lies before it: no      *)
(* iteration begins after running was cleared.                               *)
StopInv ==
  /\ running => late = 0
  /\ phase \in {"lines", "send"} => late = 0
  /\ late <= 1

(* What is sent is the active target, and only a delta brings a NaN.         *)
RampInv ==
  /\ sent = active
  /\ NaN \notin Delta => requested \in [Motor -> Int] /\ active \in [Motor -> Int]

FifoInv == TypeOK /\ StopInv /\ RampInv

(* One move of a target stays in the type of positions, and no number leads  *)
(* to a NaN.                                                                 *)
LEMMA PlusType ==
  ASSUME NEW x \in Position, NEW y \in Position
  PROVE  /\ Plus(x, y) \in Position
         /\ x \in Int /\ y \in Int => Plus(x, y) \in Int
BY DEF Plus, Position

(* approach_target gives a position, and from numbers a number that is at    *)
(* most a step away.                                                         *)
LEMMA ApproachStep ==
  ASSUME NEW current \in Position, NEW target \in Position
  PROVE  /\ Approach(current, target) \in Position
         /\ current \in Int /\ target \in Int =>
              /\ Approach(current, target) \in Int
              /\ Distance(Approach(current, target), current) <= Step
<1>1. CASE current \in Int /\ target \in Int
  <2>1. target + Step \in Int /\ target - Step \in Int /\ target + (-Step) = target - Step
    BY <1>1
  <2>2. /\ Plus(target, -Step) = target - Step
        /\ Plus(target, Step) = target + Step
    BY <1>1 DEF Plus
  <2>3. /\ IsLess(current, target - Step) <=> current < target - Step
        /\ IsLess(target + Step, current) <=> target + Step < current
    BY <1>1, <2>1 DEF IsLess
  <2>4. Approach(current, target) =
          IF current < target - Step THEN current + Step
          ELSE IF target + Step < current THEN current - Step ELSE target
    BY <2>2, <2>3 DEF Approach
  <2>5. QED
    BY <1>1, <2>4 DEF Distance, Position
<1>2. CASE current = NaN \/ target = NaN
  <2>1. Approach(current, target) = target
    BY <1>2 DEF Approach, IsLess, Plus
  <2>2. QED
    BY <1>2, <2>1
<1>3. QED
  BY <1>1, <1>2 DEF Position

(* The initial state satisfies the invariant.                                *)
LEMMA FifoInit == Init => FifoInv
<1> SUFFICES ASSUME Init
             PROVE  FifoInv
  OBVIOUS
<1> USE DEF Init
<1>1. home \in [Motor -> Int] /\ home \in [Motor -> Position]
  BY DEF Position
<1>2. TypeOK
  BY <1>1 DEF TypeOK
<1>3. StopInv /\ RampInv
  BY <1>1 DEF StopInv, RampInv
<1>4. QED
  BY <1>2, <1>3 DEF FifoInv

(* The writers and the signal handler preserve it.                           *)
LEMMA FifoOthers ==
  ASSUME FifoInv, (\E line \in Line : Write(line)) \/ Interrupt \/ Off
  PROVE  FifoInv'
<1> USE DEF FifoInv, TypeOK, StopInv, RampInv
<1>1. CASE \E line \in Line : Write(line)
  <2> PICK line \in Line : Write(line)
    BY <1>1
  <2>1. fifo' \in Seq(Line) /\ written' \in 0..MaxLines
    BY DEF Write
  <2>2. QED
    BY <2>1 DEF Write
<1>2. CASE Interrupt
  BY <1>2 DEF Interrupt
<1>3. CASE Off
  BY <1>3 DEF Off, vars
<1>4. QED
  BY <1>1, <1>2, <1>3

(* What a line makes of the requested targets.                               *)
LEMMA ApplyType ==
  ASSUME FifoInv, NEW line \in Line, Apply(line)
  PROVE  /\ requested' \in [Motor -> Position]
         /\ NaN \notin Delta => requested' \in [Motor -> Int]
<1> USE DEF FifoInv, TypeOK, RampInv
<1>1. CASE line.kind = "move" /\ Accepted(line.delta)
  <2>1. line.motor \in Motor /\ line.delta \in Delta
    BY <1>1 DEF Line
  <2>2. requested' = [requested EXCEPT ![line.motor] = Plus(requested[line.motor], line.delta)]
    BY <1>1 DEF Apply
  <2>3. line.delta \in Position /\ (NaN \notin Delta => line.delta \in Int)
    BY <2>1 DEF Position
  <2>4. /\ Plus(requested[line.motor], line.delta) \in Position
        /\ NaN \notin Delta => Plus(requested[line.motor], line.delta) \in Int
    BY <2>1, <2>3, PlusType
  <2>5. QED
    BY <2>1, <2>2, <2>4
<1>2. CASE line.kind = "home"
  <2>1. line.motor \in Motor
    BY <1>2 DEF Line
  <2>2. requested' = [requested EXCEPT ![line.motor] = home[line.motor]]
    BY <1>2 DEF Apply
  <2>3. QED
    BY <2>1, <2>2 DEF Position
<1>3. CASE line.kind = "homeAll"
  <2>1. requested' = home
    BY <1>3 DEF Apply
  <2>2. QED
    BY <2>1 DEF Position
<1>4. CASE /\ ~(line.kind = "move" /\ Accepted(line.delta))
           /\ line.kind # "home"
           /\ line.kind # "homeAll"
  BY <1>4 DEF Apply
<1>5. QED
  BY <1>1, <1>2, <1>3, <1>4

(* An iteration of the main loop preserves the invariant.                    *)
LEMMA FifoMainLoop ==
  ASSUME FifoInv, MainLoop
  PROVE  FifoInv'
<1> USE DEF FifoInv
<1>1. CASE Top
  <2>1. TypeOK'
    <3>1. CASE running
      BY <1>1, <3>1 DEF Top, TypeOK
    <3>2. CASE ~running
      BY <1>1, <3>2 DEF Top, TypeOK
    <3>3. QED
      BY <3>1, <3>2
  <2>2. StopInv' /\ RampInv'
    BY <1>1 DEF Top, StopInv, RampInv, TypeOK
  <2>3. QED
    BY <2>1, <2>2
<1>2. CASE ApplyLine
  <2>1. Head(lines) \in Line /\ lines' \in Seq(Line)
    BY <1>2 DEF ApplyLine, TypeOK
  <2>2. Apply(Head(lines))
    BY <1>2 DEF ApplyLine
  <2>3. /\ requested' \in [Motor -> Position]
        /\ NaN \notin Delta => requested' \in [Motor -> Int]
    BY <2>1, <2>2, ApplyType
  <2>4. running' \in BOOLEAN /\ (running' => running)
    BY <2>2 DEF Apply, TypeOK
  <2>5. QED
    BY <1>2, <2>1, <2>3, <2>4 DEF ApplyLine, TypeOK, StopInv, RampInv
<1>3. CASE LinesDone
  BY <1>3 DEF LinesDone, TypeOK, StopInv, RampInv
<1>4. CASE Send
  <2>1. active' = [m \in Motor |-> Approach(active[m], requested[m])]
    BY <1>4 DEF Send
  <2>2. \A m \in Motor : Approach(active[m], requested[m]) \in Position
    BY ApproachStep DEF TypeOK
  <2>3. NaN \notin Delta => \A m \in Motor : Approach(active[m], requested[m]) \in Int
    BY ApproachStep DEF TypeOK, RampInv
  <2>4. active' \in [Motor -> Position] /\ (NaN \notin Delta => active' \in [Motor -> Int])
    BY <2>1, <2>2, <2>3
  <2>5. late' \in Nat /\ late' <= 1 /\ (running => late' = 0)
    BY <1>4 DEF Send, TypeOK, StopInv
  <2>6. QED
    BY <1>4, <2>4, <2>5 DEF Send, TypeOK, StopInv, RampInv
<1>5. QED
  BY <1>1, <1>2, <1>3, <1>4 DEF MainLoop

(* The inductive invariant of the program.                                   *)
THEOREM FifoInvariance == Spec => []FifoInv
<1>1. FifoInv /\ [Next]_vars => FifoInv'
  <2> SUFFICES ASSUME FifoInv, [Next]_vars
               PROVE  FifoInv'
    OBVIOUS
  <2>1. CASE UNCHANGED vars
    BY <2>1 DEF vars, FifoInv, TypeOK, StopInv, RampInv
  <2>2. QED
    BY <2>1, FifoOthers, FifoMainLoop DEF Next
<1>2. QED
  BY FifoInit, <1>1, PTL DEF Spec

(* Targets stay numbers or NaN, whatever lines are written.                  *)
THEOREM FifoTypeCorrect == Spec => []TypeOK
<1>1. FifoInv => TypeOK
  BY DEF FifoInv
<1>2. QED
  BY FifoInvariance, <1>1, PTL

(* At most the frames of one iteration follow a stop or Ctrl+C.              *)
THEOREM AtMostOneLate == Spec => []StopsSoon
<1>1. FifoInv => StopsSoon
  BY DEF FifoInv, StopInv, StopsSoon
<1>2. QED
  BY FifoInvariance, <1>1, PTL

(* When no delta is NaN, no frame is further than a step from the one before *)
(* it, whatever the limit of a move and wherever the motors were.            *)
THEOREM RampKept ==
  ASSUME NaN \notin Delta
  PROVE  Spec => Ramp
<1>1. FifoInv /\ [Next]_vars =>
        [\A m \in Motor :
           sent'[m] # sent[m] =>
             sent[m] # NaN /\ sent'[m] # NaN /\ Distance(sent'[m], sent[m]) <= Step]_vars
  <2> SUFFICES ASSUME FifoInv, [Next]_vars, NEW m \in Motor, sent'[m] # sent[m]
               PROVE  sent[m] # NaN /\ sent'[m] # NaN /\ Distance(sent'[m], sent[m]) <= Step
    OBVIOUS
  <2>1. Send
    BY DEF Next, MainLoop, Write, Interrupt, Top, ApplyLine, LinesDone, Off, vars
  <2>2. sent'[m] = Approach(sent[m], requested[m])
    BY <2>1 DEF Send, FifoInv, RampInv
  <2>3. sent[m] \in Int /\ requested[m] \in Int
    BY DEF FifoInv, RampInv
  <2>4. /\ Approach(sent[m], requested[m]) \in Int
        /\ Distance(Approach(sent[m], requested[m]), sent[m]) <= Step
    BY <2>3, ApproachStep DEF Position
  <2>5. QED
    BY <2>2, <2>3, <2>4
<1>2. QED
  BY FifoInvariance, <1>1, PTL DEF Spec, Ramp
=============================================================================
