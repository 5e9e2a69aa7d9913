------------------------- MODULE MotorControlProofs -------------------------
(***************************************************************************)
(* Theorems about MotorControl, for every set of motors, every order of    *)
(* the map motors, every number of repetitions and of calls of set_zero.   *)
(*                                                                         *)
(* The types need nothing else.  What becomes of a motor depends only on   *)
(* how many frames and answers are lost, what becomes of a zero on none    *)
(* being lost, and what is taken for a position on usleep being long       *)
(* enough: each section names what it needs.                               *)
(***************************************************************************)
EXTENDS MotorControl, FiniteSetTheorems, TLAPS

USE DEF vars, motorVars, linkVars, objectVars, sharedVars, loopVars, armVars, zeroVars

-----------------------------------------------------------------------------
(* The answers under way.                                                    *)

Of(s, who) == {k \in DOMAIN s : s[k].to = who}

LEMMA OfFinite ==
  ASSUME NEW s \in Seq(Answers), NEW who
  PROVE  IsFiniteSet(Of(s, who)) /\ Cardinality(Of(s, who)) \in Nat
<1>1. Of(s, who) \in SUBSET (1..Len(s)) /\ Len(s) \in Nat
  BY DEF Of
<1>2. IsFiniteSet(1..Len(s))
  BY <1>1, FS_Interval
<1>3. QED
  BY <1>1, <1>2, FS_Subset, FS_CardinalityType

LEMMA AddOne ==
  ASSUME NEW S, IsFiniteSet(S), NEW x
  PROVE  Cardinality(S \cup {x}) \in Nat /\ Cardinality(S \cup {x}) <= Cardinality(S) + 1
<1>1. Cardinality(S) \in Nat
  BY FS_CardinalityType
<1>2. Cardinality(S \cup {x}) = IF x \in S THEN Cardinality(S) ELSE Cardinality(S) + 1
  BY FS_AddElement
<1>3. QED
  BY <1>1, <1>2

LEMMA OfAppend ==
  ASSUME NEW s \in Seq(Answers), NEW a \in Answers, NEW who
  PROVE  /\ Append(s, a) \in Seq(Answers)
         /\ a.to # who => Of(Append(s, a), who) = Of(s, who)
         /\ Cardinality(Of(Append(s, a), who)) <= Cardinality(Of(s, who)) + 1
<1>1. Append(s, a) \in Seq(Answers)
  OBVIOUS
<1>2. a.to # who => Of(Append(s, a), who) = Of(s, who)
  BY DEF Of
<1>3. a.to = who => Of(Append(s, a), who) = Of(s, who) \cup {Len(s) + 1}
  BY DEF Of
<1>4. IsFiniteSet(Of(s, who)) /\ Cardinality(Of(s, who)) \in Nat
  BY OfFinite
<1>5. Cardinality(Of(s, who) \cup {Len(s) + 1}) <= Cardinality(Of(s, who)) + 1
  BY <1>4, AddOne
<1>6. CASE a.to = who
  BY <1>1, <1>3, <1>5, <1>6
<1>7. CASE a.to # who
  BY <1>1, <1>2, <1>4, <1>7
<1>8. QED
  BY <1>6, <1>7

LEMMA OfTail ==
  ASSUME NEW s \in Seq(Answers), s # <<>>, NEW who
  PROVE  /\ Tail(s) \in Seq(Answers)
         /\ \A k \in Of(Tail(s), who) : k + 1 \in Of(s, who)
         /\ Cardinality(Of(Tail(s), who)) <= Cardinality(Of(s, who))
<1>1. /\ Tail(s) \in Seq(Answers)
      /\ \A k \in DOMAIN Tail(s) : k \in Nat /\ k + 1 \in DOMAIN s /\ Tail(s)[k] = s[k + 1]
  OBVIOUS
<1>2. \A k \in Of(Tail(s), who) : k \in Nat /\ k + 1 \in Of(s, who)
  BY <1>1 DEF Of
<1> DEFINE f == [k \in Of(Tail(s), who) |-> k + 1]
<1>3. f \in Injection(Of(Tail(s), who), Of(s, who))
  BY <1>2 DEF Injection, IsInjective
<1>4. Cardinality(Of(Tail(s), who)) <= Cardinality(Of(s, who))
  BY <1>3, OfFinite, FS_Injection
<1>5. QED
  BY <1>1, <1>2, <1>4

-----------------------------------------------------------------------------
(* Types.                                                                    *)

MotorType ==
  /\ reg \in [Motor -> Mode]
  /\ enabled \in [Motor -> BOOLEAN]
  /\ zero \in [Motor -> {"old", "new"}]
  /\ flash \in [Motor -> {"old", "new"}]

LinkType ==
  /\ inbox \in Seq(Answers) /\ Owed("caller") <= MaxInbox
  /\ losses \in 0..MaxLosses

ObjectType ==
  /\ mode \in [Motor -> Mode]
  /\ position \in [Motor -> {"initial", "fed", "garbage"}]
  /\ flag \in BOOLEAN
  /\ handling \in {"no", "reply", "clear", "state"}

LoopType ==
  /\ phase \in Loops \cup {"new", "on", "zero", "unload", "save", "off"}
  /\ at \in 1..Len(Visits)
  /\ reps \in 0..(Repeat - 1)
  /\ phase = "write" => reps = 0

CallType ==
  /\ armed \in {"no", "read", "set"}
  /\ code \in Mode
  /\ target \in Motor
  /\ persist \in BOOLEAN
  /\ zeros \in 0..MaxZeros

(* The type invariant, with the fact that the mode is written once per entry. *)
TypeInv == MotorType /\ LinkType /\ ObjectType /\ LoopType /\ CallType

(* A motor the loop has come to is a configured one. *)
LEMMA VisitsMotor == LoopType => Visits[at] \in Motor /\ Len(Visits) \in Nat \ {0}
BY VisitsAssumption DEF LoopType

LEMMA AnswerType ==
  ASSUME LinkType, NEW a \in Answers, a.to = "caller" => Room, Answer(a)
  PROVE  LinkType'
<1>1. CASE inbox' = Append(inbox, a) /\ UNCHANGED losses
  <2> DEFINE now == Cardinality(Of(inbox, "caller"))
             next == Cardinality(Of(inbox', "caller"))
  <2>1. /\ inbox' \in Seq(Answers)
        /\ a.to # "caller" => next = now
        /\ next <= now + 1
    BY <1>1, OfAppend DEF LinkType
  <2>2. now \in Nat /\ next \in Nat
    BY <2>1, OfFinite DEF LinkType
  <2>3. now = Owed("caller") /\ next = Owed("caller")'
    BY DEF Of, Owed, Owing
  <2>4. a.to = "caller" => now < MaxInbox
    BY <2>3 DEF Room
  <2> HIDE DEF now, next
  <2>5. next <= MaxInbox
    BY <2>1, <2>2, <2>3, <2>4, BoundsAssumption DEF LinkType
  <2>6. QED
    BY <1>1, <2>1, <2>3, <2>5 DEF LinkType
<1>2. CASE Lose
  BY <1>2, BoundsAssumption DEF Lose, LinkType, Owed, Owing
<1>3. QED
  BY <1>1, <1>2 DEF Answer

LEMMA LoseType == LinkType /\ Lose => LinkType'
BY BoundsAssumption DEF Lose, LinkType, Owed, Owing

LEMMA KeepType == LinkType /\ UNCHANGED inbox /\ UNCHANGED losses => LinkType'
BY DEF LinkType, Owed, Owing

LEMMA TailType == LinkType /\ inbox # <<>> /\ inbox' = Tail(inbox) /\ UNCHANGED losses => LinkType'
<1> SUFFICES ASSUME LinkType, inbox # <<>>, inbox' = Tail(inbox), UNCHANGED losses
             PROVE  LinkType'
  OBVIOUS
<1> DEFINE now == Cardinality(Of(inbox, "caller"))
           next == Cardinality(Of(inbox', "caller"))
<1>1. inbox' \in Seq(Answers) /\ next <= now
  BY OfTail DEF LinkType
<1>2. now \in Nat /\ next \in Nat
  BY <1>1, OfFinite DEF LinkType
<1>3. now = Owed("caller") /\ next = Owed("caller")'
  BY DEF Of, Owed, Owing
<1> HIDE DEF now, next
<1>4. QED
  BY <1>1, <1>2, <1>3, BoundsAssumption DEF LinkType

LEMMA FeedType ==
  ASSUME LinkType, NEW m \in Motor, NEW who \in {"caller", "loop"},
         who = "caller" => Room, Feed(m, who)
  PROVE  LinkType'
<1>1. PICK k \in Feedbacks : Answer([kind |-> k, motor |-> m, to |-> who])
  BY DEF Feed
<1>2. [kind |-> k, motor |-> m, to |-> who] \in Answers
  BY DEF Answers
<1>3. QED
  BY <1>1, <1>2, AnswerType

LEMMA ParamType ==
  ASSUME LinkType, NEW m \in Motor, NEW v \in Mode, Room, Param(m, v)
  PROVE  LinkType'
<1>1. [kind |-> "param", motor |-> m, value |-> v, to |-> "caller"] \in Answers
  BY DEF Answers
<1>2. QED
  BY <1>1, AnswerType DEF Param

(* What a frame does to a motor, and what it answers, have their types.      *)
LEMMA WritesType ==
  ASSUME MotorType, LinkType, Room, NEW m \in Motor, NEW v \in Mode, MotorWrites(m, v)
  PROVE  MotorType' /\ LinkType'
<1>1. CASE FrameLost
  BY <1>1, LoseType DEF FrameLost, MotorType
<1>2. CASE Param(m, v) /\ reg' = [reg EXCEPT ![m] = v] /\ UNCHANGED <<enabled, zero, flash>>
  BY <1>2, ParamType DEF MotorType
<1>3. QED
  BY <1>1, <1>2 DEF MotorWrites

LEMMA ReadsType ==
  ASSUME MotorType, LinkType, Room, NEW m \in Motor, MotorReads(m)
  PROVE  MotorType' /\ LinkType'
<1>1. CASE FrameLost
  BY <1>1, LoseType DEF FrameLost, MotorType
<1>2. CASE Param(m, reg[m]) /\ UNCHANGED motorVars
  <2>1. reg[m] \in Mode
    BY DEF MotorType
  <2>2. QED
    BY <1>2, <2>1, ParamType DEF MotorType
<1>3. QED
  BY <1>1, <1>2 DEF MotorReads

LEMMA SwitchType ==
  ASSUME MotorType, LinkType, Room, NEW m \in Motor, NEW on \in BOOLEAN,
         MotorObeys(m, Switch(m, on))
  PROVE  MotorType' /\ LinkType'
<1>1. CASE FrameLost
  BY <1>1, LoseType DEF FrameLost, MotorType
<1>2. CASE Switch(m, on) /\ Feed(m, "caller")
  BY <1>2, FeedType DEF Switch, MotorType
<1>3. CASE UNCHANGED <<motorVars, linkVars>>
  BY <1>3, KeepType DEF MotorType
<1>4. QED
  BY <1>1, <1>2, <1>3 DEF MotorObeys

LEMMA ZeroType ==
  ASSUME MotorType, LinkType, Room, NEW m \in Motor, MotorObeys(m, SetZero(m))
  PROVE  MotorType' /\ LinkType'
<1>1. CASE FrameLost
  BY <1>1, LoseType DEF FrameLost, MotorType
<1>2. CASE SetZero(m) /\ Feed(m, "caller")
  BY <1>2, FeedType DEF SetZero, MotorType
<1>3. CASE UNCHANGED <<motorVars, linkVars>>
  BY <1>3, KeepType DEF MotorType
<1>4. QED
  BY <1>1, <1>2, <1>3 DEF MotorObeys

LEMMA SavesType ==
  ASSUME MotorType, LinkType, Room, NEW m \in Motor, MotorSaves(m)
  PROVE  MotorType' /\ LinkType'
<1> DEFINE saved == [kind |-> "saved", motor |-> m, to |-> "caller"]
<1>1. CASE FrameLost
  BY <1>1, LoseType DEF FrameLost, MotorType
<1>2. CASE /\ flash' = [flash EXCEPT ![m] = zero[m]]
           /\ Answer(saved)
           /\ UNCHANGED <<reg, enabled, zero>>
  <2>1. saved \in Answers /\ saved.to = "caller"
    BY DEF Answers
  <2>2. LinkType'
    BY <1>2, <2>1, AnswerType
  <2>3. QED
    BY <1>2, <2>2 DEF MotorType
<1>3. CASE UNCHANGED <<motorVars, linkVars>>
  BY <1>3, KeepType DEF MotorType
<1>4. QED
  BY <1>1, <1>2, <1>3 DEF MotorSaves

(* A loop sends its frame again, goes on to the next entry, or is over.      *)
Times == IF phase = "write" THEN 1 ELSE Repeat

LEMMA AdvanceStep ==
  ASSUME LoopType, phase \in Loops, Advance(Times)
  PROVE  /\ \/ UNCHANGED <<phase, at>>
            \/ at < Len(Visits) /\ at' = at + 1 /\ UNCHANGED phase
            \/ at = Len(Visits) /\ at' = 1 /\ phase' = After(phase)
         /\ LoopType'
<1> DEFINE n == Times
<1>1. n \in Nat \ {0} /\ reps \in 0..(n - 1)
  BY RepeatAssumption DEF LoopType, Times
<1>2. at \in 1..Len(Visits) /\ Len(Visits) \in Nat \ {0}
  BY VisitsMotor DEF LoopType
<1>3. \/ reps + 1 < n /\ reps' = reps + 1 /\ UNCHANGED <<phase, at>>
      \/ at < Len(Visits) /\ reps' = 0 /\ at' = at + 1 /\ UNCHANGED phase
      \/ at = Len(Visits) /\ reps' = 0 /\ at' = 1 /\ phase' = After(phase)
  BY <1>1, <1>2 DEF Advance, Enter
<1>4. After(phase) \in {"read", "enable", "on", "off"}
  BY DEF After, Loops
<1>5. LoopType'
  <2>1. CASE reps + 1 < n /\ reps' = reps + 1 /\ UNCHANGED <<phase, at>>
    BY <1>1, <2>1, RepeatAssumption DEF LoopType, Times
  <2>2. CASE reps' = 0
    BY <1>2, <1>3, <1>4, <2>2, RepeatAssumption DEF LoopType, Loops
  <2>3. QED
    BY <1>3, <2>1, <2>2
<1>6. QED
  BY <1>3, <1>5

LEMMA InitType == Init => TypeInv
<1> SUFFICES ASSUME Init
             PROVE  TypeInv
  OBVIOUS
<1> USE DEF Init
<1>1. MotorType
  BY DEF MotorType
<1>2. LinkType
  <2>1. Owing("caller") = {}
    BY DEF Owing
  <2>2. Owed("caller") = 0
    BY <2>1, FS_EmptySet DEF Owed
  <2>3. QED
    BY <2>2, BoundsAssumption DEF LinkType
<1>3. ObjectType
  BY DEF ObjectType, Mode, MIT
<1>4. LoopType
  BY VisitsAssumption, RepeatAssumption DEF LoopType
<1>5. CallType
  <2>1. zeros \in 0..MaxZeros
    BY BoundsAssumption
  <2>2. code \in Mode
    BY DEF Mode
  <2>3. QED
    BY <2>1, <2>2 DEF CallType
<1>6. QED
  BY <1>1, <1>2, <1>3, <1>4, <1>5 DEF TypeInv

(* A step of the calling thread. *)
LEMMA DriverType == TypeInv /\ Driver => TypeInv'
<1> SUFFICES ASSUME TypeInv, Driver
             PROVE  TypeInv'
  OBVIOUS
<1> USE DEF TypeInv
<1>1. Visits[at] \in Motor
  BY VisitsMotor
<1>2. CASE ReadCode
  BY <1>1, <1>2, KeepType DEF ReadCode, MotorType, ObjectType, LoopType, CallType
<1>3. CASE SetFlag
  BY <1>3, KeepType DEF SetFlag, MotorType, ObjectType, LoopType, CallType
<1>4. ASSUME NEW loop, Sending(loop)
      PROVE  phase = loop /\ Room /\ ObjectType' /\ CallType'
  BY <1>4 DEF Sending, ObjectType, CallType
<1>5. CASE WriteMode
  <2>1. phase = "write" /\ Room /\ ObjectType' /\ CallType' /\ Advance(Times)
    BY <1>4, <1>5 DEF WriteMode, Times
  <2>2. MotorType' /\ LinkType'
    BY <1>1, <1>5, <2>1, WritesType DEF WriteMode, CallType
  <2>3. QED
    BY <2>1, <2>2, AdvanceStep DEF Loops
<1>6. CASE ReadMode
  <2>1. phase = "read" /\ Room /\ ObjectType' /\ CallType' /\ Advance(Times)
    BY <1>4, <1>6 DEF ReadMode, Times
  <2>2. MotorType' /\ LinkType'
    BY <1>1, <1>6, <2>1, ReadsType DEF ReadMode
  <2>3. QED
    BY <2>1, <2>2, AdvanceStep DEF Loops
<1>7. CASE EnableMotor
  <2>1. phase = "enable" /\ Room /\ ObjectType' /\ CallType' /\ Advance(Times)
    BY <1>4, <1>7 DEF EnableMotor, Times
  <2>2. MotorType' /\ LinkType'
    BY <1>1, <1>7, <2>1, SwitchType DEF EnableMotor
  <2>3. QED
    BY <2>1, <2>2, AdvanceStep DEF Loops
<1>8. CASE DisableMotor
  <2>1. phase = "disable" /\ Room /\ ObjectType' /\ CallType' /\ Advance(Times)
    BY <1>4, <1>8 DEF DisableMotor, Times
  <2>2. MotorType' /\ LinkType'
    BY <1>1, <1>8, <2>1, SwitchType DEF DisableMotor
  <2>3. QED
    BY <2>1, <2>2, AdvanceStep DEF Loops
<1>9. CASE ZeroMotor
  <2>1. Room /\ ObjectType' /\ CallType' /\ target \in Motor
    BY <1>4, <1>9 DEF ZeroMotor, CallType
  <2>2. MotorType' /\ LinkType'
    BY <1>9, <2>1, ZeroType DEF ZeroMotor
  <2>3. LoopType'
    BY <1>9 DEF ZeroMotor, LoopType
  <2>4. QED
    BY <2>1, <2>2, <2>3
<1>10. CASE UnloadMotor
  <2>1. Room /\ ObjectType' /\ CallType' /\ target \in Motor
    BY <1>4, <1>10 DEF UnloadMotor, CallType
  <2>2. MotorType' /\ LinkType'
    BY <1>10, <2>1, SwitchType DEF UnloadMotor
  <2>3. LoopType'
    BY <1>10 DEF UnloadMotor, LoopType
  <2>4. QED
    BY <2>1, <2>2, <2>3
<1>11. CASE SaveMotor
  <2>1. Room /\ ObjectType' /\ CallType' /\ target \in Motor
    BY <1>4, <1>11 DEF SaveMotor, CallType
  <2>2. MotorType' /\ LinkType'
    BY <1>11, <2>1, SavesType DEF SaveMotor
  <2>3. LoopType'
    BY <1>11, VisitsMotor, RepeatAssumption DEF SaveMotor, Enter, LoopType, Loops
  <2>4. QED
    BY <2>1, <2>2, <2>3
<1>12. QED
  BY <1>2, <1>3, <1>5, <1>6, <1>7, <1>8, <1>9, <1>10, <1>11 DEF Driver

(* A frame of a control loop, from another thread or between two calls.      *)
Streamed(m) ==
  /\ reg[m] = MIT
  /\ Feed(m, "loop")
  /\ UNCHANGED <<motorVars, objectVars, sharedVars, loopVars, armVars, zeroVars>>

(* A step of the driver, whoever sends the MIT frames.                       *)
Step == UNCHANGED vars \/ Driver \/ Calls \/ Receive \/ \E m \in Motor : Streamed(m)

LEMMA NextStep == [Next]_vars => Step
BY DEF Next, Off, MitFrame, Streamed, Step

(* A call, or a frame of a control loop. *)
LEMMA CallsType == TypeInv /\ (Calls \/ \E m \in Motor : Streamed(m)) => TypeInv'
<1> SUFFICES ASSUME TypeInv, Calls \/ \E m \in Motor : Streamed(m)
             PROVE  TypeInv'
  OBVIOUS
<1> USE DEF TypeInv, MotorType, ObjectType, CallType
<1>1. CASE Connect
  BY <1>1, KeepType, VisitsMotor, RepeatAssumption DEF Connect, Enter, LoopType, Loops
<1>2. CASE Disconnect
  BY <1>2, KeepType, VisitsMotor, RepeatAssumption DEF Disconnect, Enter, LoopType, Loops
<1>3. CASE \E m \in Motor, save \in BOOLEAN : CallSetZero(m, save)
  BY <1>3, KeepType, BoundsAssumption DEF CallSetZero, LoopType
<1>4. CASE \E m \in Motor : Streamed(m)
  <2>1. LinkType'
    BY <1>4, FeedType DEF Streamed
  <2>2. QED
    BY <1>4, <2>1 DEF Streamed, LoopType
<1>5. QED
  BY <1>1, <1>2, <1>3, <1>4 DEF Calls

LEMMA AnAnswer ==
  ASSUME NEW a \in Answers
  PROVE  /\ a.motor \in Motor
         /\ a.to \in {"caller", "loop"}
         /\ a.kind \in {"param", "saved"} \cup Feedbacks
         /\ a.kind = "param" => a.value \in Mode
<1>1. CASE a \in [kind : {"param"}, motor : Motor, value : Mode, to : {"caller"}]
  BY <1>1
<1>2. CASE a \in [kind : {"saved"} \cup Feedbacks, motor : Motor, to : {"caller", "loop"}]
  BY <1>2, FeedbacksAssumption
<1>3. QED
  BY <1>1, <1>2 DEF Answers

LEMMA HeadAnswer ==
  ASSUME NEW s \in Seq(Answers), s # <<>>
  PROVE  /\ Head(s).motor \in Motor
         /\ Head(s).kind = "param" => Head(s).value \in Mode
BY AnAnswer

(* A step of the callback. *)
LEMMA ReceiveType == TypeInv /\ (handling # "no" => inbox # <<>>) /\ Receive => TypeInv'
<1> SUFFICES ASSUME TypeInv, handling # "no" => inbox # <<>>, Receive
             PROVE  TypeInv'
  OBVIOUS
<1> USE DEF TypeInv, MotorType, LoopType, CallType
<1>1. inbox # <<>> => /\ Head(inbox).motor \in Motor
                      /\ Head(inbox).kind = "param" => Head(inbox).value \in Mode
  BY HeadAnswer DEF LinkType
<1>2. CASE Dispatch
  BY <1>2, KeepType DEF Dispatch, ObjectType
<1>3. CASE TakeReply
  <2>1. inbox # <<>>
    BY <1>3 DEF TakeReply
  <2>2. LinkType'
    BY <1>3, <2>1, KeepType, TailType DEF TakeReply
  <2>3. mode' \in [Motor -> Mode]
    BY <1>1, <1>3, <2>1 DEF TakeReply, ObjectType
  <2>4. QED
    BY <1>3, <2>2, <2>3 DEF TakeReply, ObjectType
<1>4. CASE ClearFlag
  BY <1>4, TailType DEF ClearFlag, ObjectType
<1>5. CASE TakeState
  <2>1. inbox # <<>>
    BY <1>5 DEF TakeState
  <2>2. LinkType'
    BY <1>5, <2>1, TailType DEF TakeState
  <2>3. position' \in [Motor -> {"initial", "fed", "garbage"}]
    BY <1>1, <1>5, <2>1 DEF TakeState, ObjectType
  <2>4. QED
    BY <1>5, <2>2, <2>3 DEF TakeState, ObjectType
<1>6. QED
  BY <1>2, <1>3, <1>4, <1>5 DEF Receive

(* The callback has an answer in its hands. *)
Handled == handling # "no" => inbox # <<>>

(* Outside of the callback answers are only added, or lost.                  *)
Posting == UNCHANGED linkVars \/ Lose \/ \E a \in Answers : Answer(a)

LEMMA FeedPosts ==
  ASSUME NEW m \in Motor, NEW who \in {"caller", "loop"}, Feed(m, who)
  PROVE  Posting
<1>1. PICK k \in Feedbacks : Answer([kind |-> k, motor |-> m, to |-> who])
  BY DEF Feed
<1>2. [kind |-> k, motor |-> m, to |-> who] \in Answers
  BY DEF Answers
<1>3. QED
  BY <1>1, <1>2 DEF Posting

LEMMA ParamPosts ==
  ASSUME NEW m \in Motor, NEW v \in Mode, Param(m, v)
  PROVE  Posting
<1>1. [kind |-> "param", motor |-> m, value |-> v, to |-> "caller"] \in Answers
  BY DEF Answers
<1>2. QED
  BY <1>1 DEF Posting, Param

LEMMA InboxGrows ==
  ASSUME TypeInv, Driver \/ Calls \/ \E m \in Motor : Streamed(m)
  PROVE  Posting /\ handling' = handling
<1>1. Visits[at] \in Motor /\ target \in Motor /\ code \in Mode /\ reg[Visits[at]] \in Mode
  BY VisitsMotor DEF TypeInv, CallType, MotorType
<1>2. CASE WriteMode \/ ReadMode
  BY <1>1, <1>2, ParamPosts
     DEF WriteMode, ReadMode, Sending, MotorWrites, MotorReads, FrameLost, Posting
<1>3. CASE EnableMotor \/ DisableMotor
  BY <1>1, <1>3, FeedPosts DEF EnableMotor, DisableMotor, Sending, MotorObeys, FrameLost, Posting
<1>4. CASE ZeroMotor \/ UnloadMotor
  BY <1>1, <1>4, FeedPosts DEF ZeroMotor, UnloadMotor, Sending, MotorObeys, FrameLost, Posting
<1>5. CASE SaveMotor
  <2>1. [kind |-> "saved", motor |-> target, to |-> "caller"] \in Answers
    BY <1>1 DEF Answers
  <2>2. QED
    BY <1>5, <2>1 DEF SaveMotor, Sending, MotorSaves, FrameLost, Posting
<1>6. CASE \E m \in Motor : Streamed(m)
  BY <1>6, FeedPosts DEF Streamed
<1>7. CASE Calls \/ ReadCode \/ SetFlag
  BY <1>7 DEF Calls, Connect, Disconnect, CallSetZero, ReadCode, SetFlag, Posting
<1>8. QED
  BY <1>2, <1>3, <1>4, <1>5, <1>6, <1>7 DEF Driver

LEMMA PostingHandled ==
  ASSUME LinkType, Handled, Posting, handling' = handling
  PROVE  Handled'
BY DEF LinkType, Handled, Posting, Answer, Lose

LEMMA ReceiveHandled ==
  ASSUME Handled, Receive
  PROVE  Handled' /\ losses' = losses
BY DEF Handled, Receive, Dispatch, TakeReply, ClearFlag, TakeState

LEMMA HandledStep == TypeInv /\ Handled /\ Step => Handled'
<1> SUFFICES ASSUME TypeInv, Handled, Step
             PROVE  Handled'
  OBVIOUS
<1>1. CASE Driver \/ Calls \/ \E m \in Motor : Streamed(m)
  BY <1>1, InboxGrows, PostingHandled DEF TypeInv
<1>2. CASE UNCHANGED vars
  BY <1>2 DEF Handled
<1>3. QED
  BY <1>1, <1>2, ReceiveHandled DEF Step

LEMMA TypeStep == TypeInv /\ Handled /\ Step => TypeInv' /\ Handled'
<1> SUFFICES ASSUME TypeInv, Handled, Step
             PROVE  TypeInv'
  BY HandledStep
<1>1. CASE UNCHANGED vars
  BY <1>1 DEF TypeInv, MotorType, LinkType, ObjectType, LoopType, CallType, Owed, Owing
<1>2. QED
  BY <1>1, DriverType, CallsType, ReceiveType DEF Step, Handled

LEMMA PostingLosses == Posting => losses' \in {losses, losses + 1}
BY DEF Posting, Answer, Lose

LEMMA LossesStep == TypeInv /\ Handled /\ Step => losses' \in {losses, losses + 1}
BY InboxGrows, PostingLosses, ReceiveHandled DEF Step

(* Every variable keeps its type; in particular the calling thread is owed   *)
(* no more answers than its usleep allows for, and a loop neither leaves the *)
(* map motors nor sends a frame more often than it should.                   *)
THEOREM DriverTypeCorrect == Spec => []TypeOK
<1>1. Init => TypeInv /\ Handled
  BY InitType DEF Init, Handled
<1>2. TypeInv => TypeOK
  BY DEF TypeInv, MotorType, LinkType, ObjectType, LoopType, CallType, TypeOK
<1>3. QED
  BY <1>1, <1>2, TypeStep, NextStep, PTL DEF Spec

-----------------------------------------------------------------------------
(* What becomes of a motor when frames and answers are lost.  A loop has to  *)
(* miss a motor at every one of its entries, so a motor for which the map    *)
(* has more entries than frames are lost is written, enabled and disabled,   *)
(* whatever happens to the others, however late the answers are and whatever *)
(* a control loop sends meanwhile.                                           *)

Entries(m) == {k \in DOMAIN Visits : Visits[k] = m}
Passed(m) == {k \in 1..(at - 1) : Visits[k] = m}

Spared(m) == losses < Cardinality(Entries(m))

(* Every visit to m was in vain. *)
Behind(m) == Cardinality(Passed(m)) <= losses

(* The values read and written for m. *)
Params(m) ==
  \A k \in DOMAIN inbox : inbox[k].kind = "param" /\ inbox[k].motor = m => inbox[k].value = MIT

Served(m) ==
  /\ mode[m] = MIT /\ Params(m)
  /\ phase = "new" => armed = "no"
  /\ phase = "write" /\ armed # "no" /\ Visits[at] = m => code = MIT
  /\ phase = "write" => reg[m] = MIT \/ Behind(m)
  /\ phase \notin {"new", "write"} => reg[m] = MIT
  /\ phase = "enable" => enabled[m] \/ Behind(m)
  /\ phase \in {"on", "zero", "unload"} => enabled[m]
  /\ phase = "disable" => ~enabled[m] \/ Behind(m)
  /\ phase = "off" => ~enabled[m]

MotorInv(m) == Spared(m) => Served(m)

LEMMA PassedFinite ==
  ASSUME LoopType, NEW m
  PROVE  /\ IsFiniteSet(Passed(m)) /\ Cardinality(Passed(m)) \in Nat
         /\ IsFiniteSet(Entries(m)) /\ Cardinality(Entries(m)) \in Nat
<1>1. Len(Visits) \in Nat /\ at - 1 \in Int
  BY VisitsMotor DEF LoopType
<1>2. IsFiniteSet(1..Len(Visits)) /\ IsFiniteSet(1..(at - 1))
  BY <1>1, FS_Interval
<1>3. Passed(m) \subseteq 1..(at - 1) /\ Entries(m) \subseteq 1..Len(Visits)
  BY VisitsAssumption DEF Passed, Entries
<1>4. QED
  BY <1>2, <1>3, FS_Subset, FS_CardinalityType

(* Every motor has an entry. *)
LEMMA EntriesPositive ==
  ASSUME LoopType, NEW m \in Motor
  PROVE  Cardinality(Entries(m)) \in Nat \ {0}
<1>1. Entries(m) # {}
  BY VisitsAssumption DEF Entries
<1>2. QED
  BY <1>1, PassedFinite, FS_EmptySet

(* A loop that goes on with its next entry, or is over, has missed m only if *)
(* it had missed it before, and lost the frame for m if that was sent now.   *)
Missed(m) == Behind(m) /\ (Visits[at] = m => losses' = losses + 1)

LEMMA LoopPasses ==
  ASSUME LoopType, LinkType, NEW m \in Motor, phase \in Loops, Advance(Times),
         losses' \in {losses, losses + 1}, Spared(m)'
  PROVE  \/ phase' = phase /\ (Missed(m) => Behind(m)')
         \/ phase' = After(phase) /\ ~Missed(m)
<1> DEFINE before == Cardinality(Passed(m))
           here == {k \in {at} : Visits[k] = m}
           now == Cardinality(Passed(m) \cup here)
<1>1. before \in Nat /\ losses \in Nat /\ losses' \in Nat
  BY PassedFinite, BoundsAssumption DEF LinkType
<1>2. at \in 1..Len(Visits) /\ Len(Visits) \in Nat \ {0}
  BY VisitsMotor DEF LoopType
<1>3. /\ now \in Nat
      /\ now <= before + 1
      /\ Visits[at] # m => now = before
  <2>1. CASE Visits[at] = m
    <3>1. here = {at}
      BY <2>1
    <3>2. QED
      BY <2>1, <3>1, PassedFinite, AddOne
  <2>2. CASE Visits[at] # m
    <3>1. Passed(m) \cup here = Passed(m)
      BY <2>2
    <3>2. QED
      <4>1. now = before
        BY <3>1
      <4> HIDE DEF before, now
      <4>2. QED
        BY <1>1, <2>2, <4>1
  <2>3. QED
    BY <2>1, <2>2
<1>4. Missed(m) => now <= losses'
  <2>1. Missed(m) => before <= losses /\ (Visits[at] = m => losses' = losses + 1)
    BY DEF Missed, Behind
  <2> HIDE DEF before, now
  <2>2. QED
    BY <1>1, <1>3, <2>1
<1>5. CASE UNCHANGED <<phase, at>>
  <2>1. Passed(m)' = Passed(m)
    BY <1>5 DEF Passed
  <2>2. Behind(m) => Behind(m)'
    BY <1>1, <2>1 DEF Behind
  <2>3. QED
    BY <1>5, <2>2 DEF Missed
<1>6. CASE at < Len(Visits) /\ at' = at + 1 /\ UNCHANGED phase
  <2>1. Passed(m)' = Passed(m) \cup here
    BY <1>2, <1>6 DEF Passed
  <2>2. QED
    BY <1>4, <1>6, <2>1 DEF Behind
<1>7. CASE at = Len(Visits) /\ at' = 1 /\ phase' = After(phase)
  <2>1. Entries(m) = Passed(m) \cup here
    BY <1>2, <1>7 DEF Passed, Entries
  <2>2. ~(Cardinality(Entries(m)) <= losses')
    BY <1>1, <1>3, <2>1 DEF Spared
  <2>3. QED
    BY <1>4, <1>7, <2>1, <2>2
<1>8. QED
  BY <1>5, <1>6, <1>7, AdvanceStep

(* Losses are only added. *)
LEMMA StillSpared ==
  ASSUME LoopType, LinkType, NEW m, Spared(m)', losses' \in {losses, losses + 1}
  PROVE  Spared(m)
BY PassedFinite, BoundsAssumption DEF Spared, LinkType

(* An answer that is on its way, or lost.                                    *)
LEMMA ParamsKept ==
  ASSUME LinkType, NEW m, Params(m), NEW a, Answer(a),
         a.kind = "param" /\ a.motor = m => a.value = MIT
  PROVE  Params(m)' /\ losses' \in {losses, losses + 1}
<1>1. CASE inbox' = Append(inbox, a) /\ UNCHANGED losses
  <2>1. \A k \in DOMAIN inbox' : \/ inbox'[k] = a
                                 \/ k \in DOMAIN inbox /\ inbox'[k] = inbox[k]
    BY <1>1 DEF LinkType
  <2>2. QED
    BY <1>1, <2>1 DEF Params
<1>2. CASE Lose
  BY <1>2 DEF Lose, Params
<1>3. QED
  BY <1>1, <1>2 DEF Answer

LEMMA ParamKept ==
  ASSUME LinkType, NEW m, Params(m), NEW n, NEW v, Param(n, v), n = m => v = MIT
  PROVE  Params(m)' /\ losses' \in {losses, losses + 1}
BY ParamsKept DEF Param

LEMMA FeedKept ==
  ASSUME LinkType, NEW m, Params(m), NEW n, NEW who, Feed(n, who)
  PROVE  Params(m)' /\ losses' \in {losses, losses + 1}
<1>1. PICK k \in Feedbacks : Answer([kind |-> k, motor |-> n, to |-> who])
  BY DEF Feed
<1>2. k # "param"
  BY FeedbacksAssumption
<1>3. QED
  BY <1>1, <1>2, ParamsKept

LEMMA LoseKept ==
  ASSUME NEW m, Params(m), Lose
  PROVE  Params(m)' /\ losses' = losses + 1
BY DEF Lose, Params

(* A loop that begins has missed nobody. *)
LEMMA AtFirst ==
  ASSUME LinkType, NEW m, at' = 1, losses' \in {losses, losses + 1}
  PROVE  Behind(m)'
<1>1. Passed(m)' = {}
  BY DEF Passed
<1>2. Cardinality(Passed(m)') = 0
  BY <1>1, FS_EmptySet
<1>3. QED
  BY <1>2, BoundsAssumption DEF Behind, LinkType

(* A step of the calling thread. *)
LEMMA ServedDriver ==
  ASSUME TypeInv, NEW m \in Motor, Served(m), Driver, Spared(m)'
  PROVE  Served(m)'
<1>1. /\ Visits[at] \in Motor /\ target \in Motor
      /\ LinkType /\ LoopType /\ CallType /\ MotorType
  BY VisitsMotor DEF TypeInv, CallType
<1>2. CASE ReadCode \/ SetFlag
  BY <1>2 DEF ReadCode, SetFlag, Served, Params, Behind, Passed
<1>3. ASSUME NEW loop, Sending(loop)
      PROVE  phase = loop /\ armed' = "no" /\ mode'[m] = MIT /\ UNCHANGED <<target, persist>>
  BY <1>3 DEF Sending, Served
<1>4. CASE WriteMode
  <2>1. phase = "write" /\ armed' = "no" /\ Advance(Times) /\ mode'[m] = MIT
    BY <1>3, <1>4 DEF WriteMode, Times
  <2>2. Visits[at] = m => code = MIT
    BY <1>4 DEF WriteMode, Sending, Served
  <2>3. \/ Param(Visits[at], code) /\ reg' = [reg EXCEPT ![Visits[at]] = code]
        \/ Lose /\ reg' = reg
    BY <1>4 DEF WriteMode, MotorWrites, FrameLost
  <2>4. Params(m)' /\ losses' \in {losses, losses + 1}
    BY <1>1, <2>2, <2>3, ParamKept, LoseKept DEF Served
  <2>5. reg'[m] = MIT \/ Missed(m)
    <3>1. reg[m] = MIT \/ Behind(m)
      BY <2>1 DEF Served
    <3>2. Visits[at] = m => reg'[m] = MIT \/ losses' = losses + 1
      BY <2>2, <2>3, LoseKept DEF MotorType, TypeInv, Lose
    <3>3. reg[m] = MIT => reg'[m] = MIT
      BY <1>1, <2>2, <2>3 DEF MotorType
    <3>4. QED
      BY <3>1, <3>2, <3>3 DEF Missed
  <2>6. \/ phase' = "write" /\ (Missed(m) => Behind(m)')
        \/ phase' = "read" /\ ~Missed(m)
    BY <1>1, <2>1, <2>4, LoopPasses DEF After, Loops
  <2>7. QED
    BY <2>1, <2>4, <2>5, <2>6 DEF Served
<1>5. CASE ReadMode
  <2>1. phase = "read" /\ armed' = "no" /\ Advance(Times) /\ mode'[m] = MIT /\ reg[m] = MIT
    BY <1>3, <1>5 DEF ReadMode, Times, Served
  <2>2. /\ Param(Visits[at], reg[Visits[at]]) \/ Lose
        /\ reg' = reg
    BY <1>5 DEF ReadMode, MotorReads, FrameLost
  <2>3. Params(m)' /\ losses' \in {losses, losses + 1}
    BY <1>1, <2>1, <2>2, ParamKept, LoseKept DEF Served
  <2>4. phase' \in {"read", "enable"} /\ (phase' = "enable" => at' = 1)
    BY <1>1, <2>1, AdvanceStep DEF After, Loops
  <2>5. at' = 1 => Behind(m)'
    BY <1>1, <2>3, AtFirst
  <2>6. QED
    BY <2>1, <2>2, <2>3, <2>4, <2>5 DEF Served
<1>6. CASE EnableMotor
  <2>1. /\ phase = "enable" /\ armed' = "no" /\ Advance(Times)
        /\ mode'[m] = MIT /\ reg[m] = MIT /\ mode[m] = MIT
    BY <1>3, <1>6 DEF EnableMotor, Times, Served
  <2>2. /\ \/ Switch(Visits[at], TRUE) /\ Feed(Visits[at], "caller")
           \/ UNCHANGED motorVars /\ UNCHANGED linkVars /\ Visits[at] # m
           \/ UNCHANGED motorVars /\ Lose
        /\ reg' = reg
    BY <1>6, <2>1 DEF EnableMotor, MotorObeys, FrameLost, Switch
  <2>3. Params(m)' /\ losses' \in {losses, losses + 1}
    BY <1>1, <2>2, FeedKept, LoseKept DEF Served, Params
  <2>4. enabled'[m] \/ Missed(m)
    <3>1. enabled[m] \/ Behind(m)
      BY <2>1 DEF Served
    <3>2. Visits[at] = m => enabled'[m] \/ losses' = losses + 1
      BY <1>1, <2>2 DEF MotorType, Switch, Lose
    <3>3. enabled[m] => enabled'[m]
      BY <1>1, <2>2 DEF MotorType, Switch
    <3>4. QED
      BY <3>1, <3>2, <3>3 DEF Missed
  <2>5. \/ phase' = "enable" /\ (Missed(m) => Behind(m)')
        \/ phase' = "on" /\ ~Missed(m)
    BY <1>1, <2>1, <2>3, LoopPasses DEF After, Loops
  <2>6. QED
    BY <2>1, <2>2, <2>3, <2>4, <2>5 DEF Served
<1>7. CASE DisableMotor
  <2>1. /\ phase = "disable" /\ armed' = "no" /\ Advance(Times)
        /\ mode'[m] = MIT /\ reg[m] = MIT /\ mode[m] = MIT
    BY <1>3, <1>7 DEF DisableMotor, Times, Served
  <2>2. /\ \/ Switch(Visits[at], FALSE) /\ Feed(Visits[at], "caller")
           \/ UNCHANGED motorVars /\ UNCHANGED linkVars /\ Visits[at] # m
           \/ UNCHANGED motorVars /\ Lose
        /\ reg' = reg
    BY <1>7, <2>1 DEF DisableMotor, MotorObeys, FrameLost, Switch
  <2>3. Params(m)' /\ losses' \in {losses, losses + 1}
    BY <1>1, <2>2, FeedKept, LoseKept DEF Served, Params
  <2>4. ~enabled'[m] \/ Missed(m)
    <3>1. ~enabled[m] \/ Behind(m)
      BY <2>1 DEF Served
    <3>2. Visits[at] = m => ~enabled'[m] \/ losses' = losses + 1
      BY <1>1, <2>2 DEF MotorType, Switch, Lose
    <3>3. ~enabled[m] => ~enabled'[m]
      BY <1>1, <2>2 DEF MotorType, Switch
    <3>4. QED
      BY <3>1, <3>2, <3>3 DEF Missed
  <2>5. \/ phase' = "disable" /\ (Missed(m) => Behind(m)')
        \/ phase' = "off" /\ ~Missed(m)
    BY <1>1, <2>1, <2>3, LoopPasses DEF After, Loops
  <2>6. QED
    BY <2>1, <2>2, <2>3, <2>4, <2>5 DEF Served
<1>8. CASE ZeroMotor
  <2>1. phase = "zero" /\ armed' = "no" /\ mode'[m] = MIT
    BY <1>3, <1>8 DEF ZeroMotor
  <2>2. /\ Feed(target, "caller") \/ UNCHANGED linkVars \/ Lose
        /\ reg' = reg /\ enabled' = enabled
    BY <1>8 DEF ZeroMotor, MotorObeys, FrameLost, SetZero
  <2>3. Params(m)'
    BY <1>1, <2>2, FeedKept, LoseKept DEF Served, Params
  <2>4. QED
    BY <1>8, <2>1, <2>2, <2>3 DEF ZeroMotor, Served
<1>9. CASE UnloadMotor
  <2>1. phase = "unload" /\ armed' = "no" /\ mode'[m] = MIT
    BY <1>3, <1>9 DEF UnloadMotor
  <2>2. /\ Feed(target, "caller") \/ UNCHANGED linkVars \/ Lose
        /\ reg' = reg
    BY <1>9 DEF UnloadMotor, MotorObeys, FrameLost, Switch
  <2>3. Params(m)'
    BY <1>1, <2>2, FeedKept, LoseKept DEF Served, Params
  <2>4. QED
    BY <1>9, <2>1, <2>2, <2>3 DEF UnloadMotor, Served
<1>10. CASE SaveMotor
  <2>1. phase = "save" /\ armed' = "no" /\ mode'[m] = MIT /\ reg[m] = MIT
    BY <1>3, <1>10 DEF SaveMotor, Served
  <2> DEFINE a == [kind |-> "saved", motor |-> target, to |-> "caller"]
  <2>2. /\ Answer(a) \/ UNCHANGED linkVars \/ Lose
        /\ reg' = reg
    BY <1>10 DEF SaveMotor, MotorSaves, FrameLost
  <2>3. Params(m)'
    <3>1. a.kind # "param"
      OBVIOUS
    <3> HIDE DEF a
    <3>2. QED
      BY <1>1, <2>2, <3>1, ParamsKept, LoseKept DEF Served, Params
  <2>4. QED
    BY <1>10, <2>1, <2>2, <2>3 DEF SaveMotor, Enter, Served
<1>11. QED
  BY <1>2, <1>4, <1>5, <1>6, <1>7, <1>8, <1>9, <1>10 DEF Driver

LEMMA ServedStreamed ==
  ASSUME TypeInv, NEW m \in Motor, Served(m), NEW n, Streamed(n)
  PROVE  Served(m)' /\ losses' \in {losses, losses + 1}
<1>1. Params(m)' /\ losses' \in {losses, losses + 1}
  BY FeedKept DEF Streamed, Served, TypeInv
<1>2. Behind(m) => Behind(m)'
  <2>1. Passed(m)' = Passed(m)
    BY DEF Streamed, Passed
  <2>2. Cardinality(Passed(m)) \in Nat /\ losses \in Nat
    BY PassedFinite, BoundsAssumption DEF TypeInv, LinkType
  <2>3. QED
    BY <1>1, <2>1, <2>2 DEF Behind
<1>3. QED
  BY <1>1, <1>2 DEF Streamed, Served

LEMMA ServedCalls ==
  ASSUME TypeInv, NEW m \in Motor, Served(m), Calls
  PROVE  Served(m)' /\ losses' = losses
<1>1. UNCHANGED <<motorVars, linkVars, objectVars, armVars>>
  BY DEF Calls, Connect, Disconnect, CallSetZero
<1>2. Params(m)'
  BY <1>1 DEF Params, Served
<1>3. at' = 1 => Behind(m)'
  BY <1>1, AtFirst DEF TypeInv
<1>4. CASE Connect
  BY <1>1, <1>2, <1>3, <1>4 DEF Connect, Enter, Served
<1>5. CASE Disconnect
  BY <1>1, <1>2, <1>3, <1>5 DEF Disconnect, Enter, Served
<1>6. CASE \E n \in Motor, save \in BOOLEAN : CallSetZero(n, save)
  BY <1>1, <1>2, <1>6 DEF CallSetZero, Served
<1>7. QED
  BY <1>1, <1>4, <1>5, <1>6 DEF Calls

LEMMA ServedReceive ==
  ASSUME TypeInv, Handled, NEW m \in Motor, Served(m), Receive
  PROVE  Served(m)'
<1>1. /\ losses' = losses
      /\ UNCHANGED <<motorVars, loopVars, armVars, zeroVars>>
      /\ inbox' = inbox \/ (inbox # <<>> /\ inbox' = Tail(inbox))
  BY DEF Receive, Dispatch, TakeReply, ClearFlag, TakeState, Handled
<1>2. Params(m)'
  <2>1. CASE inbox' = inbox
    BY <2>1 DEF Params, Served
  <2>2. CASE inbox # <<>> /\ inbox' = Tail(inbox)
    <3>1. \A k \in DOMAIN inbox' : k + 1 \in DOMAIN inbox /\ inbox'[k] = inbox[k + 1]
      BY <2>2 DEF TypeInv, LinkType
    <3>2. QED
      BY <3>1 DEF Params, Served
  <2>3. QED
    BY <1>1, <2>1, <2>2
<1>3. mode'[m] = MIT
  <2>1. CASE TakeReply
    <3>1. inbox # <<>>
      BY <2>1 DEF TakeReply, Handled
    <3>2. 1 \in DOMAIN inbox /\ Head(inbox) = inbox[1] /\ Head(inbox).motor \in Motor
      BY <3>1, HeadAnswer DEF TypeInv, LinkType
    <3>3. \/ mode' = mode
          \/ inbox[1].kind = "param" /\ mode' = [mode EXCEPT ![inbox[1].motor] = inbox[1].value]
      BY <2>1, <3>2 DEF TakeReply
    <3>4. QED
      BY <3>2, <3>3 DEF Params, Served, TypeInv, ObjectType
  <2>2. CASE ~TakeReply
    BY <2>2 DEF Receive, Dispatch, ClearFlag, TakeState, Served
  <2>3. QED
    BY <2>1, <2>2
<1>4. Behind(m) => Behind(m)'
  BY <1>1 DEF Behind, Passed
<1>5. QED
  BY <1>1, <1>2, <1>3, <1>4 DEF Served

(* A motor that is still spared was so before. *)
LEMMA MotorStep ==
  ASSUME TypeInv, Handled, NEW m \in Motor, MotorInv(m), Step
  PROVE  MotorInv(m)'
<1> SUFFICES ASSUME Spared(m)'
             PROVE  Served(m)'
  BY DEF MotorInv
<1>1. Served(m)
  BY LossesStep, StillSpared DEF MotorInv, TypeInv
<1>2. CASE UNCHANGED vars
  BY <1>1, <1>2 DEF Served, Params, Behind, Passed
<1>3. QED
  BY <1>1, <1>2, ServedDriver, ServedCalls, ServedReceive, ServedStreamed DEF Step

LEMMA MotorInit ==
  ASSUME Init, NEW m \in Motor
  PROVE  MotorInv(m)
BY DEF Init, MotorInv, Served, Params

DriverInv == TypeInv /\ Handled /\ \A m \in Motor : MotorInv(m)

LEMMA DriverStep == DriverInv /\ Step => DriverInv'
<1> SUFFICES ASSUME DriverInv, Step
             PROVE  DriverInv'
  OBVIOUS
<1>1. TypeInv' /\ Handled'
  BY TypeStep DEF DriverInv
<1>2. QED
  BY <1>1, MotorStep DEF DriverInv

(* The inductive invariant of the driver on a link that loses.               *)
THEOREM DriverInvariance == Spec => []DriverInv
<1>1. Init => DriverInv
  BY InitType, MotorInit DEF Init, Handled, DriverInv
<1>2. QED
  BY <1>1, DriverStep, NextStep, PTL DEF Spec

(* A motor that has more entries in the map than frames and answers were     *)
(* lost is enabled in MIT mode when connecting or set_zero returns, and      *)
(* disabled when the driver is destroyed.                                    *)
MotorSpared ==
  \A m \in Motor : losses < Cardinality(Entries(m)) =>
    /\ phase = "on" => enabled[m] /\ reg[m] = MIT /\ mode[m] = MIT
    /\ phase = "off" => ~enabled[m]

THEOREM SparedMotors == Spec => []MotorSpared
<1>1. DriverInv => MotorSpared
  BY DEF DriverInv, MotorInv, Spared, Served, MotorSpared
<1>2. QED
  BY <1>1, DriverInvariance, PTL

(* No motor can be missed at all of its entries.                             *)
Spare == \A m \in Motor : MaxLosses < Cardinality(Entries(m))

LEMMA AllSpared ==
  ASSUME Spare, TypeInv, NEW m \in Motor
  PROVE  Spared(m)
BY PassedFinite, BoundsAssumption DEF Spare, Spared, TypeInv, LinkType

(* Connecting and set_zero end with every motor enabled in MIT mode.         *)
THEOREM OnIsMit ==
  ASSUME Spare
  PROVE  Spec => []OnMeansMit
<1>1. DriverInv => OnMeansMit
  BY AllSpared DEF DriverInv, MotorInv, Served, OnMeansMit
<1>2. QED
  BY <1>1, DriverInvariance, PTL

(* Disconnecting ends with every motor disabled.                             *)
THEOREM OffIsDisabled ==
  ASSUME Spare
  PROVE  Spec => []OffMeansDisabled
<1>1. DriverInv => OffMeansDisabled
  BY AllSpared DEF DriverInv, MotorInv, Served, OffMeansDisabled
<1>2. QED
  BY <1>1, DriverInvariance, PTL

-----------------------------------------------------------------------------
(* What becomes of the zeros while nothing is lost.  Every motor obeys then: *)
(* the one set_zero works on takes the frames for zero, disabling and saving *)
(* in this order.                                                            *)

Saving ==
  /\ phase = "new" => ~persist
  /\ phase = "save" => ~enabled[target]
  /\ phase \in {"unload", "save"} => zero[target] = "new"
  /\ phase \in {"write", "read", "enable", "on"} /\ persist => flash[target] = "new"

SavingInv == losses = 0 => Saving

LEMMA NoLoss ==
  ASSUME DriverInv, losses' = 0, losses' \in {losses, losses + 1}
  PROVE  losses = 0 /\ ~Lose /\ \A m \in Motor : Served(m)
<1>1. losses \in Nat
  BY BoundsAssumption DEF DriverInv, TypeInv, LinkType
<1>2. losses = 0 /\ ~Lose
  BY <1>1 DEF Lose
<1>3. \A m \in Motor : Spared(m)
  BY <1>2, EntriesPositive DEF Spared, DriverInv, TypeInv
<1>4. QED
  BY <1>2, <1>3 DEF DriverInv, MotorInv

(* The same of the calling thread. *)
LEMMA NoLossDriver ==
  ASSUME DriverInv, losses' = 0, Driver
  PROVE  losses = 0 /\ ~Lose /\ \A m \in Motor : Served(m)
BY NoLoss, InboxGrows, PostingLosses DEF DriverInv

(* What the loop of enable_all or disable_all may do to the phase.           *)
LEMMA LoopPhase ==
  ASSUME NEW n, phase \in Loops, Advance(n)
  PROVE  phase' = phase \/ phase' = After(phase)
BY DEF Advance, Enter

(* The steps that leave the motors, the phase and the arguments of a call.   *)
Hidden == UNCHANGED <<phase, target, persist, zeros, reg, enabled, zero, flash>>

LEMMA HiddenSteps ==
  ASSUME UNCHANGED vars \/ Receive \/ ReadCode \/ SetFlag \/ \E m \in Motor : Streamed(m)
  PROVE  Hidden
BY DEF Receive, Dispatch, TakeReply, ClearFlag, TakeState, ReadCode, SetFlag, Streamed, Hidden

(* What a step of each loop, and of each part of set_zero, does to the zeros *)
(* and to the phase.                                                         *)
LEMMA WriteStep ==
  ASSUME WriteMode
  PROVE  /\ phase = "write" /\ phase' \in {"write", "read"}
         /\ UNCHANGED <<zero, flash, target, persist, zeros>>
BY LoopPhase DEF WriteMode, Sending, MotorWrites, FrameLost, After, Loops

LEMMA ReadStep ==
  ASSUME ReadMode
  PROVE  /\ phase = "read" /\ phase' \in {"read", "enable"}
         /\ UNCHANGED <<zero, flash, target, persist, zeros>>
BY LoopPhase DEF ReadMode, Sending, MotorReads, FrameLost, After, Loops

LEMMA EnableStep ==
  ASSUME EnableMotor
  PROVE  /\ phase = "enable" /\ phase' \in {"enable", "on"}
         /\ UNCHANGED <<zero, flash, target, persist, zeros>>
BY LoopPhase DEF EnableMotor, Sending, MotorObeys, Switch, FrameLost, After, Loops

LEMMA DisableStep ==
  ASSUME DisableMotor
  PROVE  /\ phase = "disable" /\ phase' \in {"disable", "off"}
         /\ UNCHANGED <<zero, flash, target, persist, zeros>>
BY LoopPhase DEF DisableMotor, Sending, MotorObeys, Switch, FrameLost, After, Loops

LEMMA ZeroStep ==
  ASSUME DriverInv, losses' = 0, ZeroMotor
  PROVE  /\ phase = "zero" /\ phase' = IF persist THEN "unload" ELSE "on"
         /\ zero' = [zero EXCEPT ![target] = "new"]
         /\ UNCHANGED <<flash, target, persist, zeros>>
<1>1. phase = "zero" /\ target \in Motor
  BY DEF ZeroMotor, Sending, DriverInv, TypeInv, CallType
<1>2. mode[target] = reg[target] /\ ~Lose
  BY <1>1, NoLossDriver DEF Driver, Served
<1>3. SetZero(target)
  BY <1>2 DEF ZeroMotor, MotorObeys, FrameLost
<1>4. QED
  BY <1>1, <1>3 DEF ZeroMotor, Sending, SetZero

LEMMA UnloadStep ==
  ASSUME DriverInv, losses' = 0, UnloadMotor
  PROVE  /\ phase = "unload" /\ phase' = "save" /\ ~enabled'[target]
         /\ UNCHANGED <<zero, flash, target, persist, zeros>>
<1>1. phase = "unload" /\ target \in Motor /\ enabled \in [Motor -> BOOLEAN]
  BY DEF UnloadMotor, Sending, DriverInv, TypeInv, CallType, MotorType
<1>2. mode[target] = reg[target] /\ ~Lose
  BY <1>1, NoLossDriver DEF Driver, Served
<1>3. Switch(target, FALSE)
  BY <1>2 DEF UnloadMotor, MotorObeys, FrameLost
<1>4. QED
  BY <1>1, <1>3 DEF UnloadMotor, Sending, Switch

LEMMA SaveStep ==
  ASSUME DriverInv, SavingInv, losses' = 0, SaveMotor
  PROVE  /\ phase = "save" /\ phase' = "write"
         /\ zero[target] = "new"
         /\ flash' = [flash EXCEPT ![target] = "new"]
         /\ UNCHANGED <<zero, target, persist, zeros>>
<1>1. losses = 0 /\ ~Lose
  BY NoLossDriver DEF Driver
<1>2. phase = "save" /\ ~enabled[target] /\ zero[target] = "new"
  BY <1>1 DEF SaveMotor, Sending, SavingInv, Saving
<1>3. flash' = [flash EXCEPT ![target] = "new"] /\ UNCHANGED zero
  BY <1>1, <1>2 DEF SaveMotor, MotorSaves, FrameLost
<1>4. QED
  BY <1>2, <1>3 DEF SaveMotor, Sending, Enter

LEMMA SavingHidden ==
  ASSUME DriverInv, SavingInv, Hidden, losses' \in {losses, losses + 1}
  PROVE  SavingInv'
BY NoLoss DEF Hidden, SavingInv, Saving

LEMMA SavingDriver ==
  ASSUME DriverInv, SavingInv, Driver
  PROVE  SavingInv'
<1> SUFFICES ASSUME losses' = 0
             PROVE  Saving'
  BY DEF SavingInv
<1>1. Saving /\ losses = 0
  BY NoLossDriver DEF SavingInv
<1>2. target \in Motor /\ zero \in [Motor -> {"old", "new"}] /\ flash \in [Motor -> {"old", "new"}]
  BY DEF DriverInv, TypeInv, CallType, MotorType
<1>3. CASE ReadCode \/ SetFlag
  BY <1>1, <1>3, HiddenSteps DEF Hidden, Saving
<1>4. CASE WriteMode
  BY <1>1, <1>4, WriteStep DEF Saving
<1>5. CASE ReadMode
  BY <1>1, <1>5, ReadStep DEF Saving
<1>6. CASE EnableMotor
  BY <1>1, <1>6, EnableStep DEF Saving
<1>7. CASE DisableMotor
  BY <1>1, <1>7, DisableStep DEF Saving
<1>8. CASE ZeroMotor
  BY <1>1, <1>2, <1>8, ZeroStep DEF Saving
<1>9. CASE UnloadMotor
  BY <1>1, <1>9, UnloadStep DEF Saving
<1>10. CASE SaveMotor
  BY <1>1, <1>2, <1>10, SaveStep DEF Saving
<1>11. QED
  BY <1>3, <1>4, <1>5, <1>6, <1>7, <1>8, <1>9, <1>10 DEF Driver

LEMMA SavingCalls ==
  ASSUME SavingInv, Calls
  PROVE  SavingInv'
<1>1. CASE Connect
  BY <1>1 DEF Connect, Enter, SavingInv, Saving
<1>2. CASE Disconnect
  BY <1>2 DEF Disconnect, Enter, SavingInv, Saving
<1>3. CASE \E m \in Motor, save \in BOOLEAN : CallSetZero(m, save)
  BY <1>3 DEF CallSetZero, SavingInv, Saving
<1>4. QED
  BY <1>1, <1>2, <1>3 DEF Calls

LEMMA SavingStep == DriverInv /\ SavingInv /\ Step => SavingInv'
<1> SUFFICES ASSUME DriverInv, SavingInv, Step
             PROVE  SavingInv'
  OBVIOUS
<1>1. losses' \in {losses, losses + 1}
  BY LossesStep DEF DriverInv
<1>2. QED
  BY <1>1, HiddenSteps, SavingHidden, SavingDriver, SavingCalls DEF Step

LEMMA SavingInvariance == Spec => []SavingInv
<1>1. Init => SavingInv
  BY DEF Init, SavingInv, Saving
<1>2. QED
  BY <1>1, SavingStep, NextStep, DriverInvariance, PTL DEF Spec

(* set_zero(persist) returns with the zero in flash, unless a frame was      *)
(* lost, however late the answers are.                                       *)
THEOREM SavedZero ==
  ASSUME MaxLosses = 0
  PROVE  Spec => []ZeroIsSaved
<1>1. DriverInv /\ SavingInv => ZeroIsSaved
  BY DEF DriverInv, TypeInv, LinkType, SavingInv, Saving, ZeroIsSaved
<1>2. QED
  BY <1>1, DriverInvariance, SavingInvariance, PTL

-----------------------------------------------------------------------------
(* What is taken for a position when usleep outlasts the answer to a frame.  *)
(* The caller is owed one answer at most; while that is the answer to a      *)
(* register access the flag is set, and only the callback that handles this  *)
(* answer clears it.  A feedback frame that looks like such an answer would  *)
(* clear the flag too early, so none may be on its way to a control loop     *)
(* while a call is under way.  Losses do no harm: the flag stays set.        *)

Reply(a) == a.kind \in {"param", "saved"}

Calm == \A k \in DOMAIN inbox : inbox[k].to = "loop" => inbox[k].kind = "plain"

AnswerInv ==
  /\ \A j, k \in Owing("caller") : j = k
  /\ \A k \in DOMAIN inbox : Reply(inbox[k]) =>
       k \in Owing("caller") /\ flag /\ (k = 1 => handling # "state")
  /\ handling = "clear" => inbox[1].kind # "plain"
  /\ armed = "set" => flag /\ Owing("caller") = {}
  /\ phase = "on" => armed = "no" /\ \A k \in DOMAIN inbox : ~Reply(inbox[k])
  /\ phase # "on" => Calm
  /\ \A m \in Motor : position[m] # "garbage"

LEMMA RoomEmpty ==
  ASSUME MaxInbox = 1, LinkType, Room
  PROVE  Owing("caller") = {}
<1>1. Owing("caller") = Of(inbox, "caller")
  BY DEF Owing, Of
<1>2. IsFiniteSet(Owing("caller")) /\ Cardinality(Owing("caller")) \in Nat
  BY <1>1, OfFinite DEF LinkType
<1>3. Cardinality(Owing("caller")) < 1
  BY DEF Room, Owed
<1>4. Cardinality(Owing("caller")) = 0
  BY <1>2, <1>3
<1>5. QED
  BY <1>2, <1>4, FS_EmptySet

(* What is added to the inbox leaves the rest of it. *)
LEMMA Appended ==
  ASSUME LinkType, NEW a \in Answers, inbox' = Append(inbox, a)
  PROVE  /\ Len(inbox) + 1 \in DOMAIN inbox'
         /\ inbox'[Len(inbox) + 1] = a
         /\ Len(inbox) + 1 \notin DOMAIN inbox
         /\ \A k \in DOMAIN inbox : k \in DOMAIN inbox' /\ inbox'[k] = inbox[k]
         /\ \A k \in DOMAIN inbox' : k \in DOMAIN inbox \/ k = Len(inbox) + 1
         /\ inbox # <<>> => 1 \in DOMAIN inbox /\ Len(inbox) + 1 # 1
BY DEF LinkType

(* A step that sends a frame: nothing is answered, or what was expected.     *)
Expected(a) ==
  /\ a \in Answers
  /\ a.to = "caller"
  /\ Reply(a) => flag /\ phase' # "on"

Answered == UNCHANGED inbox \/ \E a : Expected(a) /\ inbox' = Append(inbox, a)

LEMMA SendKeeps ==
  ASSUME MaxInbox = 1, TypeInv, Handled, AnswerInv, phase # "on", Room, armed' = "no",
         UNCHANGED <<flag, handling, position>>, Answered
  PROVE  AnswerInv' /\ Calm'
<1>1. Owing("caller") = {}
  BY RoomEmpty DEF TypeInv
<1>2. \A k \in DOMAIN inbox : ~Reply(inbox[k])
  BY <1>1 DEF AnswerInv
<1>3. Calm
  BY DEF AnswerInv
<1>4. CASE UNCHANGED inbox
  BY <1>2, <1>3, <1>4 DEF AnswerInv, Owing, Calm
<1>5. ASSUME NEW a, Expected(a), inbox' = Append(inbox, a)
      PROVE  AnswerInv' /\ Calm'
  <2> DEFINE new == Len(inbox) + 1
  <2>1. /\ new \in DOMAIN inbox' /\ inbox'[new] = a /\ new \notin DOMAIN inbox
        /\ \A k \in DOMAIN inbox : k \in DOMAIN inbox' /\ inbox'[k] = inbox[k]
        /\ \A k \in DOMAIN inbox' : k \in DOMAIN inbox \/ k = new
        /\ inbox # <<>> => 1 \in DOMAIN inbox /\ new # 1
    BY <1>5, Appended DEF TypeInv, Expected
  <2> HIDE DEF new
  <2>2. Owing("caller")' = {new}
    BY <1>1, <1>5, <2>1 DEF Owing, Expected
  <2>3. \A k \in DOMAIN inbox' : Reply(inbox'[k]) => k = new /\ flag /\ phase' # "on"
    BY <1>2, <1>5, <2>1 DEF Expected
  <2>4. new = 1 => handling = "no"
    BY <2>1 DEF Handled
  <2>5. handling' = "clear" => inbox'[1].kind # "plain"
    BY <2>1 DEF AnswerInv, Handled
  <2>6. Calm'
    BY <1>3, <1>5, <2>1 DEF Calm, Expected
  <2>7. QED
    BY <2>2, <2>3, <2>4, <2>5, <2>6 DEF AnswerInv
<1>6. QED
  BY <1>4, <1>5 DEF Answered

LEMMA AnswerAnswered ==
  ASSUME NEW a, Expected(a), Answer(a)
  PROVE  Answered
BY DEF Answer, Lose, Answered

LEMMA FeedAnswered ==
  ASSUME NEW m \in Motor, Feed(m, "caller")
  PROVE  Answered
<1>1. PICK k \in Feedbacks : Answer([kind |-> k, motor |-> m, to |-> "caller"])
  BY DEF Feed
<1> DEFINE a == [kind |-> k, motor |-> m, to |-> "caller"]
<1>2. a \in Answers
  BY DEF Answers
<1>3. Expected(a)
  BY <1>2, FeedbacksAssumption DEF Expected, Reply
<1>4. QED
  BY <1>1, <1>3, AnswerAnswered

LEMMA ParamAnswered ==
  ASSUME flag, phase' # "on", NEW m \in Motor, NEW v \in Mode, Param(m, v)
  PROVE  Answered
<1> DEFINE a == [kind |-> "param", motor |-> m, value |-> v, to |-> "caller"]
<1>1. a \in Answers
  BY DEF Answers
<1>2. Expected(a)
  BY <1>1 DEF Expected
<1>3. QED
  BY <1>2, AnswerAnswered DEF Param

LEMMA SavedAnswered ==
  ASSUME flag, phase' # "on", NEW m \in Motor,
         Answer([kind |-> "saved", motor |-> m, to |-> "caller"])
  PROVE  Answered
<1> DEFINE a == [kind |-> "saved", motor |-> m, to |-> "caller"]
<1>1. a \in Answers
  BY DEF Answers
<1>2. Expected(a)
  BY <1>1 DEF Expected
<1>3. QED
  BY <1>2, AnswerAnswered

(* What a step of the calling thread adds to the inbox: an answer to that    *)
(* thread, and to a register access only with the flag set.                  *)
LEMMA DriverAnswered ==
  ASSUME TypeInv, AnswerInv, Driver
  PROVE  Answered
<1>1. /\ Visits[at] \in Motor /\ target \in Motor
      /\ code \in Mode /\ reg[Visits[at]] \in Mode
  BY VisitsMotor DEF TypeInv, CallType, MotorType
<1>2. ASSUME NEW loop \in {"write", "read", "save"}, Sending(loop)
      PROVE  flag
  BY <1>2 DEF Sending, AnswerInv
<1>3. CASE ReadCode \/ SetFlag
  BY <1>3 DEF ReadCode, SetFlag, Answered
<1>4. CASE WriteMode
  <2>1. flag /\ phase' # "on"
    BY <1>2, <1>4, WriteStep DEF WriteMode
  <2>2. QED
    BY <1>1, <1>4, <2>1, ParamAnswered DEF WriteMode, MotorWrites, FrameLost, Lose, Answered
<1>5. CASE ReadMode
  <2>1. flag /\ phase' # "on"
    BY <1>2, <1>5, ReadStep DEF ReadMode
  <2>2. QED
    BY <1>1, <1>5, <2>1, ParamAnswered DEF ReadMode, MotorReads, FrameLost, Lose, Answered
<1>6. CASE EnableMotor \/ DisableMotor
  BY <1>1, <1>6, FeedAnswered
     DEF EnableMotor, DisableMotor, MotorObeys, FrameLost, Lose, Answered
<1>7. CASE ZeroMotor \/ UnloadMotor
  BY <1>1, <1>7, FeedAnswered
     DEF ZeroMotor, UnloadMotor, MotorObeys, FrameLost, Lose, Answered
<1>8. CASE SaveMotor
  <2>1. flag /\ phase' # "on"
    BY <1>2, <1>8 DEF SaveMotor, Enter
  <2>2. QED
    BY <1>1, <1>8, <2>1, SavedAnswered DEF SaveMotor, MotorSaves, FrameLost, Lose, Answered
<1>9. QED
  BY <1>3, <1>4, <1>5, <1>6, <1>7, <1>8 DEF Driver

LEMMA AnswerDriver ==
  ASSUME MaxInbox = 1, TypeInv, Handled, AnswerInv, Driver
  PROVE  AnswerInv' /\ Calm'
<1>1. CASE ReadCode
  BY <1>1 DEF ReadCode, AnswerInv, Owing, Calm
<1>2. CASE SetFlag
  <2>1. Owing("caller") = {}
    BY <1>2, RoomEmpty DEF SetFlag, TypeInv
  <2>2. QED
    BY <1>2, <2>1 DEF SetFlag, AnswerInv, Owing, Calm
<1>3. ASSUME NEW loop, Sending(loop), loop # "on"
      PROVE  AnswerInv' /\ Calm'
  <2>1. /\ phase # "on" /\ Room /\ armed' = "no"
        /\ UNCHANGED <<flag, handling, position>>
    BY <1>3 DEF Sending
  <2>2. QED
    BY <2>1, DriverAnswered, SendKeeps
<1>4. QED
  BY <1>1, <1>2, <1>3
     DEF Driver, WriteMode, ReadMode, EnableMotor, DisableMotor, ZeroMotor, UnloadMotor, SaveMotor

(* A call begins while nothing that looks like a reply is on its way.        *)
LEMMA AnswerCalls ==
  ASSUME AnswerInv, Calls, Calm
  PROVE  AnswerInv' /\ Calm'
<1>1. UNCHANGED <<inbox, flag, handling, armed, position>> /\ phase' # "on"
  BY DEF Calls, Connect, Disconnect, CallSetZero, Enter
<1>2. QED
  BY <1>1 DEF AnswerInv, Owing, Calm

LEMMA AnswerStreamed ==
  ASSUME TypeInv, Handled, AnswerInv, NEW m \in Motor, Streamed(m),
         phase = "on" \/ Feedbacks \subseteq {"plain"}
  PROVE  AnswerInv' /\ (Calm /\ Feedbacks \subseteq {"plain"} => Calm')
<1>1. UNCHANGED <<flag, handling, armed, position, phase>>
  BY DEF Streamed
<1>2. PICK kind \in Feedbacks : Answer([kind |-> kind, motor |-> m, to |-> "loop"])
  BY DEF Streamed, Feed
<1> DEFINE a == [kind |-> kind, motor |-> m, to |-> "loop"]
<1>3. /\ a \in Answers /\ ~Reply(a) /\ a.to = "loop"
      /\ phase # "on" \/ Feedbacks \subseteq {"plain"} => a.kind = "plain"
  BY FeedbacksAssumption DEF Answers, Reply
<1> HIDE DEF a
<1>4. CASE UNCHANGED inbox
  BY <1>1, <1>4 DEF AnswerInv, Owing, Calm
<1>5. CASE inbox' = Append(inbox, a)
  <2> DEFINE new == Len(inbox) + 1
  <2>1. /\ new \in DOMAIN inbox' /\ inbox'[new] = a /\ new \notin DOMAIN inbox
        /\ \A k \in DOMAIN inbox : k \in DOMAIN inbox' /\ inbox'[k] = inbox[k]
        /\ \A k \in DOMAIN inbox' : k \in DOMAIN inbox \/ k = new
        /\ inbox # <<>> => 1 \in DOMAIN inbox /\ new # 1
    BY <1>3, <1>5, Appended DEF TypeInv
  <2> HIDE DEF new
  <2>2. Owing("caller")' = Owing("caller")
    BY <1>3, <2>1 DEF Owing
  <2>3. \A k \in DOMAIN inbox' : Reply(inbox'[k]) => k \in DOMAIN inbox /\ Reply(inbox[k])
    BY <1>3, <2>1
  <2>4. handling' = "clear" => inbox'[1].kind # "plain"
    BY <1>1, <2>1 DEF AnswerInv, Handled
  <2>5. /\ phase # "on" => Calm'
        /\ Calm /\ Feedbacks \subseteq {"plain"} => Calm'
    BY <1>3, <2>1 DEF AnswerInv, Calm
  <2>6. QED
    BY <1>1, <2>2, <2>3, <2>4, <2>5 DEF AnswerInv
<1>6. QED
  BY <1>2, <1>4, <1>5 DEF Answer, Lose, a

(* The callback is done with the first answer.                               *)
LEMMA TailKeeps ==
  ASSUME TypeInv, AnswerInv, inbox # <<>>, inbox' = Tail(inbox), handling' = "no",
         UNCHANGED <<armed, phase>>, flag' = flag \/ inbox[1].kind # "plain",
         \A m \in Motor : position'[m] # "garbage"
  PROVE  AnswerInv'
<1>1. inbox \in Seq(Answers) /\ 1 \in DOMAIN inbox /\ inbox[1].to \in {"caller", "loop"}
  BY AnAnswer DEF TypeInv, LinkType
<1>2. \A k \in DOMAIN inbox' : /\ k \in Nat /\ k + 1 \in DOMAIN inbox /\ k + 1 # 1
                              /\ inbox'[k] = inbox[k + 1]
  BY <1>1
<1>3. \A k \in Owing("caller")' : k \in Nat /\ k + 1 \in Owing("caller")
  BY <1>2 DEF Owing
<1>4. \A j, k \in Owing("caller")' : j = k
  BY <1>3 DEF AnswerInv
<1>5. (phase # "on" => Calm)' /\ (phase = "on" => armed = "no")'
  BY <1>2 DEF AnswerInv, Calm
<1>6. CASE flag' = flag
  <2>1. \A k \in DOMAIN inbox' : Reply(inbox'[k]) => k \in Owing("caller")' /\ flag'
    BY <1>2, <1>6 DEF AnswerInv, Owing
  <2>2. armed' = "set" => flag' /\ Owing("caller")' = {}
    BY <1>3, <1>6 DEF AnswerInv
  <2>3. phase' = "on" => \A k \in DOMAIN inbox' : ~Reply(inbox'[k])
    BY <1>2 DEF AnswerInv
  <2>4. QED
    BY <1>4, <1>5, <2>1, <2>2, <2>3 DEF AnswerInv
<1>7. CASE inbox[1].kind # "plain" /\ phase # "on"
  <2>1. 1 \in Owing("caller")
    BY <1>1, <1>7 DEF AnswerInv, Calm, Owing
  <2>2. \A k \in DOMAIN inbox' : k + 1 \notin Owing("caller")
    BY <1>2, <2>1 DEF AnswerInv
  <2>3. \A k \in DOMAIN inbox' : ~Reply(inbox'[k])
    BY <1>2, <2>2 DEF AnswerInv
  <2>4. armed' # "set"
    BY <2>1 DEF AnswerInv
  <2>5. QED
    BY <1>4, <1>5, <2>3, <2>4 DEF AnswerInv
<1>8. CASE phase = "on"
  <2>1. \A k \in DOMAIN inbox' : ~Reply(inbox'[k])
    BY <1>2, <1>8 DEF AnswerInv
  <2>2. armed' # "set"
    BY <1>8 DEF AnswerInv
  <2>3. QED
    BY <1>4, <1>5, <2>1, <2>2 DEF AnswerInv
<1>9. QED
  BY <1>6, <1>7, <1>8

LEMMA AnswerReceive ==
  ASSUME TypeInv, Handled, AnswerInv, Receive
  PROVE  AnswerInv'
<1>1. inbox # <<>> => /\ 1 \in DOMAIN inbox /\ Head(inbox) = inbox[1]
                      /\ Head(inbox).motor \in Motor
                      /\ ~Reply(inbox[1]) => inbox[1].kind \in Feedbacks
  BY AnAnswer, HeadAnswer DEF TypeInv, LinkType, Reply
<1>2. CASE Dispatch
  BY <1>1, <1>2 DEF Dispatch, AnswerInv, Owing, Calm
<1>3. CASE TakeReply
  <2>1. inbox # <<>>
    BY <1>3 DEF TakeReply, Handled
  <2>2. CASE inbox[1].kind = "plain"
    BY <1>1, <1>3, <2>1, <2>2, TailKeeps DEF TakeReply, AnswerInv
  <2>3. CASE inbox[1].kind # "plain"
    BY <1>1, <1>3, <2>1, <2>3 DEF TakeReply, AnswerInv, Owing, Calm
  <2>4. QED
    BY <2>2, <2>3
<1>4. CASE ClearFlag
  <2>1. inbox # <<>> /\ inbox[1].kind # "plain"
    BY <1>4 DEF ClearFlag, Handled, AnswerInv
  <2>2. QED
    BY <1>4, <2>1, TailKeeps DEF ClearFlag, AnswerInv
<1>5. CASE TakeState
  <2>1. inbox # <<>>
    BY <1>5 DEF TakeState, Handled
  <2>2. ~Reply(inbox[1])
    BY <1>1, <1>5, <2>1 DEF TakeState, AnswerInv
  <2>3. \A m \in Motor : position'[m] # "garbage"
    BY <1>1, <1>5, <2>1, <2>2 DEF TakeState, AnswerInv, TypeInv, ObjectType
  <2>4. QED
    BY <1>5, <2>1, <2>3, TailKeeps DEF TakeState
<1>6. QED
  BY <1>2, <1>3, <1>4, <1>5 DEF Receive

(* usleep outlasts the answer to a frame, and no feedback that a control     *)
(* loop asks for looks like the answer to a register access.                 *)
Timely == MaxInbox = 1 /\ (Streaming => Feedbacks \subseteq {"plain"})

LEMMA CalmInit == Init => AnswerInv /\ Calm
BY DEF Init, AnswerInv, Calm, Owing

LEMMA CalmReceive ==
  ASSUME TypeInv, Handled, Calm, Receive
  PROVE  Calm'
<1>1. inbox' = inbox \/ (inbox # <<>> /\ inbox' = Tail(inbox))
  BY DEF Receive, Dispatch, TakeReply, ClearFlag, TakeState, Handled
<1>2. QED
  BY <1>1 DEF Calm, TypeInv, LinkType

LEMMA CalmStep ==
  ASSUME Timely, TypeInv, Handled, AnswerInv, Calm, [Next]_vars
  PROVE  AnswerInv' /\ Calm'
<1>1. CASE UNCHANGED vars
  BY <1>1 DEF AnswerInv, Calm, Owing
<1>2. CASE Driver
  BY <1>2, AnswerDriver DEF Timely
<1>3. CASE Calls
  BY <1>3, AnswerCalls
<1>4. ASSUME NEW m \in Motor, MitFrame(m)
      PROVE  AnswerInv' /\ Calm'
  <2>1. Streamed(m) /\ Feedbacks \subseteq {"plain"}
    BY <1>4 DEF MitFrame, Streamed, Timely
  <2>2. QED
    BY <2>1, AnswerStreamed
<1>5. CASE Receive
  BY <1>5, AnswerReceive, CalmReceive
<1>6. QED
  BY <1>1, <1>2, <1>3, <1>4, <1>5 DEF Next, Off

(* No register answer is stored as a position, whatever is lost.             *)
THEOREM RealPositions ==
  ASSUME Timely
  PROVE  Spec => []PositionsAreReal
<1>1. Init => TypeInv /\ Handled /\ AnswerInv /\ Calm
  BY InitType, CalmInit DEF Init, Handled
<1>2. TypeInv /\ Handled /\ AnswerInv /\ Calm /\ [Next]_vars
        => (TypeInv /\ Handled /\ AnswerInv /\ Calm)'
  BY TypeStep, NextStep, CalmStep
<1>3. AnswerInv => PositionsAreReal
  BY DEF AnswerInv, PositionsAreReal
<1>4. QED
  BY <1>1, <1>2, <1>3, PTL DEF Spec

=============================================================================
