------------------------- MODULE CommandPathProofs -------------------------
(***************************************************************************)
(* Theorems about the frames, for every code, every limit and every value, *)
(* and about the way of a command and of a state, for every configuration, *)
(* every limit and every command.                                          *)
(***************************************************************************)
EXTENDS CommandPath, MotorTableProofs

-----------------------------------------------------------------------------
(* The frames of MitFrame.                                                   *)

(* The bytes of a value of 16 bits.                                          *)
LEMMA Bytes ==
  ASSUME NEW v \in Wide
  PROVE  /\ Byte(v) \in 0..255
         /\ Nibble(v) \in 0..15
         /\ Nibble(v \div 256) \in 0..15
         /\ Byte(v \div 256) * 256 + Byte(v) = v
         /\ (v \div 256) * 256 + Byte(v) = v
         /\ Byte(v \div 16) * 16 + Nibble(v) = v % 4096
         /\ Nibble(v \div 256) * 256 + Byte(v) = v % 4096
BY DEF Wide, Byte, Nibble

(* A field of 12 bits is put together from its bytes.                        *)
LEMMA TwelveBits ==
  ASSUME NEW v \in Narrow
  PROVE  /\ Nibble(v) \in 0..15
         /\ v \div 256 \in 0..15
         /\ (v \div 16) * 16 + Nibble(v) = v
         /\ (v \div 256) * 256 + Byte(v) = v
         /\ v % 4096 = v
BY DEF Narrow, Nibble, Byte

(* A byte that holds two nibbles gives them back.                            *)
LEMMA Nibbles ==
  ASSUME NEW a \in 0..15, NEW b \in 0..15
  PROVE  (a * 16 + b) \div 16 = a /\ Nibble(a * 16 + b) = b
BY DEF Nibble

(* The motor reads from a frame of control_mit the position as it was        *)
(* encoded, and every other field modulo its 12 bits: a field that does not  *)
(* fit wraps around, and never spills into another one.                      *)
THEOREM FieldsDoNotMix ==
  ASSUME NEW c \in [Field -> Wide]
  PROVE  Unpack(Pack(c)) =
           [q |-> c.q, dq |-> c.dq % 4096, kp |-> c.kp % 4096,
            kd |-> c.kd % 4096, tau |-> c.tau % 4096]
<1> DEFINE d == Pack(c)
<1>1. c.q \in Wide /\ c.dq \in Wide /\ c.kp \in Wide /\ c.kd \in Wide /\ c.tau \in Wide
  BY DEF Field
<1>2. /\ d[1] = Byte(c.q \div 256)
      /\ d[2] = Byte(c.q)
      /\ d[3] = Byte(c.dq \div 16)
      /\ d[4] = Nibble(c.dq) * 16 + Nibble(c.kp \div 256)
      /\ d[5] = Byte(c.kp)
      /\ d[6] = Byte(c.kd \div 16)
      /\ d[7] = Nibble(c.kd) * 16 + Nibble(c.tau \div 256)
      /\ d[8] = Byte(c.tau)
  BY DEF Pack
<1> HIDE DEF d
<1>3. d[1] * 256 + d[2] = c.q
  BY <1>1, <1>2, Bytes
<1>4. /\ d[4] \div 16 = Nibble(c.dq) /\ Nibble(d[4]) = Nibble(c.kp \div 256)
      /\ d[7] \div 16 = Nibble(c.kd) /\ Nibble(d[7]) = Nibble(c.tau \div 256)
  BY <1>1, <1>2, Bytes, Nibbles
<1>5. /\ d[3] * 16 + d[4] \div 16 = c.dq % 4096
      /\ Nibble(d[4]) * 256 + d[5] = c.kp % 4096
      /\ d[6] * 16 + d[7] \div 16 = c.kd % 4096
      /\ Nibble(d[7]) * 256 + d[8] = c.tau % 4096
  BY <1>1, <1>2, <1>4, Bytes
<1>6. QED
  BY <1>3, <1>5 DEF Unpack, d

(* A reading is a record of its three codes.                                 *)
LEMMA ReadingFields ==
  ASSUME NEW Q, NEW DQ, NEW TAU, NEW r \in [q : Q, dq : DQ, tau : TAU]
  PROVE  \E q \in Q, dq \in DQ, tau \in TAU : r = [q |-> q, dq |-> dq, tau |-> tau]
OBVIOUS

(* canframeCallback reads from a feedback frame what the motor put there.    *)
THEOREM ReadingArrives ==
  ASSUME NEW r \in Reading, NEW rest
  PROVE  UnpackState(PackState(r, rest)) = r
<1>1. PICK q \in Wide, dq \in Narrow, tau \in Narrow : r = [q |-> q, dq |-> dq, tau |-> tau]
  BY ReadingFields DEF Reading
<1> DEFINE d == PackState(r, rest)
<1>2. /\ d[2] = q \div 256
      /\ d[3] = Byte(q)
      /\ d[4] = dq \div 16
      /\ d[5] = Nibble(dq) * 16 + tau \div 256
      /\ d[6] = Byte(tau)
  BY <1>1 DEF PackState
<1> HIDE DEF d
<1>3. d[2] * 256 + d[3] = q
  BY <1>2, Bytes
<1>4. d[5] \div 16 = Nibble(dq) /\ Nibble(d[5]) = tau \div 256
  BY <1>2, TwelveBits, Nibbles
<1>5. d[4] * 16 + d[5] \div 16 = dq /\ Nibble(d[5]) * 256 + d[6] = tau
  BY <1>2, <1>4, TwelveBits
<1>6. QED
  BY <1>1, <1>3, <1>5 DEF UnpackState, d

(* Integer division. *)
LEMMA Division ==
  ASSUME NEW n \in Nat, NEW d \in Nat \ {0}
  PROVE  /\ n \div d \in Nat
         /\ (n \div d) * d <= n
         /\ n < (n \div d) * d + d
OBVIOUS

(* Multiplication is monotone. *)
LEMMA Monotone ==
  ASSUME NEW a \in Nat, NEW b \in Nat, NEW c \in Nat, a <= b
  PROVE  c * a <= c * b
OBVIOUS

(* A quotient is below every bound of the dividend in multiples of the       *)
(* divisor.                                                                  *)
LEMMA Quotient ==
  ASSUME NEW n \in Nat, NEW d \in Nat \ {0}, NEW b \in Nat, n < (b + 1) * d
  PROVE  n \div d <= b
<1> DEFINE k == n \div d
<1>1. k \in Nat /\ k * d <= n
  BY Division
<1> HIDE DEF k
<1>2. ASSUME b + 1 <= k
      PROVE  FALSE
  <2>1. d * (b + 1) <= d * k
    BY <1>1, <1>2, Monotone
  <2>2. QED
    BY <1>1, <2>1
<1>3. k <= b
  BY <1>1, <1>2
<1>4. QED
  BY <1>3 DEF k

(* A part of the range, scaled to the codes, stays below 16 bits.            *)
LEMMA Scaled ==
  ASSUME NEW span \in Nat \ {0}, NEW top \in Wide, NEW part \in 0..span
  PROVE  /\ part * top \in Nat
         /\ part * top < (top + 1) * span
         /\ part * top < 65536 * span
<1>1. top \in Nat /\ top <= 65535
  BY DEF Wide
<1> DEFINE p == part * top
           s == span * top
<1>2. p \in Nat /\ s \in Nat /\ p <= s /\ s <= span * 65535
  BY <1>1, Monotone
<1>3. (top + 1) * span = s + span
  BY <1>1
<1> HIDE DEF p, s
<1>4. p < s + span /\ p < 65536 * span
  BY <1>2
<1>5. QED
  BY <1>2, <1>3, <1>4 DEF p

(* A value in the range of its field is encoded within a quantum, and its    *)
(* code fits into the field.                                                 *)
THEOREM EncodeInRange ==
  ASSUME NEW lo \in Int, NEW hi \in Int, lo < hi,
         NEW x \in Int, InRange(x, lo, hi),
         NEW top \in Wide, NEW undefined
  PROVE  /\ Encode(x, lo, hi, top, undefined) \in 0..top
         /\ StandsFor(Encode(x, lo, hi, top, undefined), x, lo, hi, top)
<1> DEFINE part == x - lo
           span == hi - lo
           scaled == part * top
           code == scaled \div span
<1>1. span \in Nat \ {0} /\ part \in 0..span
  BY DEF InRange
<1>2. Encode(x, lo, hi, top, undefined) =
        IF ~(-span < scaled /\ scaled < 65536 * span) THEN undefined
        ELSE IF scaled < 0 THEN 0
        ELSE code
  BY DEF Encode
<1>3. StandsFor(code, x, lo, hi, top) <=> 0 <= scaled - code * span /\ scaled - code * span < span
  BY Zenon DEF StandsFor
<1> HIDE DEF part, span
<1>4. scaled \in Nat /\ scaled < (top + 1) * span /\ scaled < 65536 * span
  BY <1>1, Scaled
<1>5. top \in Nat
  BY DEF Wide
<1> HIDE DEF scaled
<1>6. code \in Nat /\ code * span <= scaled /\ scaled < code * span + span /\ code <= top
  BY <1>1, <1>4, <1>5, Division, Quotient
<1>7. Encode(x, lo, hi, top, undefined) = code
  <2>1. ~ ~ (-span < scaled /\ scaled < 65536 * span) /\ ~ (scaled < 0)
    BY <1>1, <1>4
  <2>2. QED
    BY <1>2, <2>1
<1> HIDE DEF code
<1>8. 0 <= scaled - code * span /\ scaled - code * span < span
  BY <1>1, <1>4, <1>6
<1>9. QED
  BY <1>3, <1>5, <1>6, <1>7, <1>8

(* Every conversion gives a code of 16 bits, in range or not.                *)
LEMMA EncodeWide ==
  ASSUME NEW lo \in Int, NEW hi \in Int, lo < hi, NEW x \in Int,
         NEW top \in Wide, NEW undefined \in Wide
  PROVE  Encode(x, lo, hi, top, undefined) \in Wide
<1> DEFINE scaled == (x - lo) * top
           span == hi - lo
<1>1. span \in Nat \ {0} /\ scaled \in Int
  BY DEF Wide
<1>2. Encode(x, lo, hi, top, undefined) =
        IF ~(-span < scaled /\ scaled < 65536 * span) THEN undefined
        ELSE IF scaled < 0 THEN 0
        ELSE scaled \div span
  BY DEF Encode
<1> HIDE DEF scaled, span
<1>3. ASSUME scaled \in Nat, scaled < 65536 * span
      PROVE  scaled \div span \in Wide
  <2>1. scaled < (65535 + 1) * span
    BY <1>1, <1>3
  <2>2. scaled \div span \in Nat /\ scaled \div span <= 65535
    BY <1>1, <1>3, <2>1, Division, Quotient
  <2>3. QED
    BY <2>2 DEF Wide
<1>4. 0 \in Wide
  BY DEF Wide
<1>5. QED
  BY <1>1, <1>2, <1>3, <1>4

(* The two nibbles of a byte, and the halves of a code, are bytes.           *)
LEMMA ByteOfNibbles ==
  ASSUME NEW a \in 0..15, NEW b \in 0..15
  PROVE  a * 16 + b \in 0..255
OBVIOUS

(* What control_mit and a motor put into a frame are eight bytes.            *)
LEMMA PackBytes ==
  ASSUME NEW c \in [Field -> Wide]
  PROVE  Pack(c) \in Seq(0..255)
<1>1. c.q \in Wide /\ c.dq \in Wide /\ c.kp \in Wide /\ c.kd \in Wide /\ c.tau \in Wide
  BY DEF Field
<1>2. \A v \in Wide : Byte(v) \in 0..255 /\ v \div 256 \in Wide /\ v \div 16 \in Wide
  BY DEF Wide, Byte
<1>3. /\ Nibble(c.dq) * 16 + Nibble(c.kp \div 256) \in 0..255
      /\ Nibble(c.kd) * 16 + Nibble(c.tau \div 256) \in 0..255
  BY <1>1, Bytes, ByteOfNibbles
<1>4. /\ Byte(c.q \div 256) \in 0..255 /\ Byte(c.q) \in 0..255
      /\ Byte(c.dq \div 16) \in 0..255 /\ Byte(c.kp) \in 0..255
      /\ Byte(c.kd \div 16) \in 0..255 /\ Byte(c.tau) \in 0..255
  BY <1>1, <1>2
<1>5. QED
  BY <1>3, <1>4 DEF Pack

LEMMA PackStateBytes ==
  ASSUME NEW r \in Reading, NEW rest \in 0..255
  PROVE  PackState(r, rest) \in Seq(0..255)
<1>1. PICK q \in Wide, dq \in Narrow, tau \in Narrow : r = [q |-> q, dq |-> dq, tau |-> tau]
  BY ReadingFields DEF Reading
<1>2. q \div 256 \in 0..255 /\ Byte(q) \in 0..255
  BY DEF Wide, Byte
<1>3. dq \div 16 \in 0..255 /\ Byte(tau) \in 0..255
  BY DEF Narrow, Byte
<1>4. Nibble(dq) * 16 + tau \div 256 \in 0..255
  BY TwelveBits, ByteOfNibbles
<1>5. QED
  BY <1>1, <1>2, <1>3, <1>4 DEF PackState

-----------------------------------------------------------------------------
(* The way of a frame.                                                       *)

(* A frame on the bus was made by send_mit_all or taken by the callback, and *)
(* the table has not changed since.                                          *)
OnTheBus ==
  \/ bus.kind = "none"
  \/ /\ phase = "ready"
     /\ \E i \in DOMAIN config, command \in Commands, undefined \in [Field -> Undefined] :
          bus = ControlMit(GetMotor(config[i].can), i, command, undefined)
  \/ /\ phase = "ready"
     /\ \E i \in DOMAIN config, reading \in Readings, rest \in {0, 255} :
          bus = TakeState(i, reading, rest)

PathInv == TableInv /\ OnTheBus

LEMMA PathInitial == PathInit => PathInv
BY TableInit DEF PathInit, PathInv, OnTheBus

(* Once the table is ready nothing changes it, so a frame on the bus stays   *)
(* what it is.                                                               *)
LEMMA PathTable ==
  ASSUME PathInv, [Next]_vars, UNCHANGED bus
  PROVE  PathInv'
<1>1. TableInv'
  BY TableStepInv DEF PathInv
<1>2. CASE bus.kind = "none"
  BY <1>1, <1>2 DEF PathInv, OnTheBus
<1>3. CASE bus.kind # "none"
  <2>1. phase = "ready"
    BY <1>3 DEF PathInv, OnTheBus
  <2>2. UNCHANGED vars
    BY <2>1 DEF Next, LoadMotor, BadField, EndOfFile, AddMotor, Connected, Done
  <2>3. QED
    BY <1>1, <2>2 DEF PathInv, OnTheBus, vars, ControlMit, TakeState, GetMotor
<1>4. QED
  BY <1>2, <1>3

(* The inductive invariant of the composition.                               *)
THEOREM PathInvariance == PathSpec => []PathInv
<1>1. PathInv /\ [PathNext]_pathVars => PathInv'
  <2> SUFFICES ASSUME PathInv, [PathNext]_pathVars
               PROVE  PathInv'
    OBVIOUS
  <2>1. CASE TableStep
    BY <2>1, PathTable DEF TableStep
  <2>2. ASSUME NEW i \in DOMAIN config, NEW command \in Commands,
               NEW undefined \in [Field -> Undefined], SendMit(i, command, undefined)
        PROVE  PathInv'
    <3>1. TableInv'
      BY <2>2, TableStepInv DEF PathInv, SendMit, Quiet
    <3>2. phase' = "ready" /\ i \in DOMAIN config'
      BY <2>2 DEF SendMit, Quiet, vars
    <3>3. bus' = ControlMit(GetMotor(config[i].can), i, command, undefined)'
      BY <2>2 DEF SendMit, Quiet, vars, ControlMit, GetMotor
    <3>4. QED
      BY <3>1, <3>2, <3>3 DEF PathInv, OnTheBus
  <2>3. ASSUME NEW i \in DOMAIN config, NEW reading \in Readings, NEW rest \in {0, 255},
               Callback(i, reading, rest)
        PROVE  PathInv'
    <3>1. TableInv'
      BY <2>3, TableStepInv DEF PathInv, Callback, Quiet
    <3>2. phase' = "ready" /\ i \in DOMAIN config'
      BY <2>3 DEF Callback, Quiet, vars
    <3>3. bus' = TakeState(i, reading, rest)'
      BY <2>3 DEF Callback, Quiet, vars, TakeState, GetMotor
    <3>4. QED
      BY <3>1, <3>2, <3>3 DEF PathInv, OnTheBus
  <2>4. CASE UNCHANGED pathVars
    BY <2>4, PathTable DEF pathVars
  <2>5. QED
    BY <2>1, <2>2, <2>3, <2>4 DEF PathNext
<1>2. QED
  BY PathInitial, <1>1, PTL DEF PathSpec

(* The limits of a model give every field a range that is not empty.         *)
LEMMA LimitRange ==
  ASSUME NEW lim \in LimitParam, NEW f \in Field
  PROVE  /\ Low(lim)[f] \in Int
         /\ High(lim)[f] \in Int
         /\ Low(lim)[f] < High(lim)[f]
         /\ Top(f) \in Wide
         /\ f # "q" => Top(f) = 4095
<1>1. lim.Q \in Positive /\ lim.DQ \in Positive /\ lim.TAU \in Positive
  BY DEF LimitParam
<1>2. /\ Low(lim)[f] = CASE f = "q" -> -lim.Q [] f = "dq" -> -lim.DQ
                         [] f = "tau" -> -lim.TAU [] OTHER -> 0
      /\ High(lim)[f] = CASE f = "q" -> lim.Q [] f = "dq" -> lim.DQ
                          [] f = "tau" -> lim.TAU [] f = "kp" -> KpMax [] OTHER -> KdMax
  BY DEF Low, High, Field
<1>3. QED
  <2>1. CASE f = "q"
    BY <1>1, <1>2, <2>1 DEF Positive, Top, Wide
  <2>2. CASE f = "dq"
    BY <1>1, <1>2, <2>2 DEF Positive, Top, Wide
  <2>3. CASE f = "tau"
    BY <1>1, <1>2, <2>3 DEF Positive, Top, Wide
  <2>4. CASE f = "kp"
    BY <1>2, <2>4, GainsAssumption DEF Top, Wide
  <2>5. CASE f = "kd"
    BY <1>2, <2>5, GainsAssumption DEF Top, Wide
  <2>6. QED
    BY <2>1, <2>2, <2>3, <2>4, <2>5 DEF Field

(* Both IDs of a motor of the file lead to a motor of the file.              *)
LEMMA MotorFound ==
  ASSUME TableInv, phase = "ready", NEW i \in DOMAIN config
  PROVE  GetMotor(config[i].can) \in DOMAIN config /\ GetMotor(config[i].mst) \in DOMAIN config
<1> USE DEF TableInv
<1>1. i \in 1..added /\ \A k \in 1..added : k \in DOMAIN config
  BY DEF TypeOK, Progress
<1>2. config[i].can \in DOMAIN motors /\ config[i].mst \in DOMAIN motors
  BY <1>1 DEF Registered
<1>3. QED
  BY <1>1, <1>2 DEF TypeOK, GetMotor

(* The fields of a command are all codes of 16 bits, in range or not.        *)
LEMMA CodesAreWide ==
  ASSUME NEW lim \in LimitParam, NEW command \in [Field -> Int],
         NEW undefined \in [Field -> Wide]
  PROVE  EncodeAll(command, lim, undefined) \in [Field -> Wide]
BY LimitRange, EncodeWide DEF EncodeAll

(* What goes over the bus is bytes, for a motor of the file: a command finds *)
(* limits to be encoded with, and a state finds a motor to be stored for.    *)
THEOREM PathTypeCorrect == PathSpec => []PathTypeOK
<1>1. PathInv => PathTypeOK
  <2> SUFFICES ASSUME PathInv
               PROVE  PathTypeOK
    OBVIOUS
  <2>1. TableInv /\ TypeOK
    BY DEF PathInv, TableInv
  <2>2. CASE bus.kind = "none"
    BY <2>1, <2>2 DEF PathTypeOK
  <2>3. ASSUME phase = "ready",
               NEW i \in DOMAIN config, NEW command \in Commands,
               NEW undefined \in [Field -> Undefined],
               bus = ControlMit(GetMotor(config[i].can), i, command, undefined)
        PROVE  PathTypeOK
    <3> DEFINE lim == Limits[GetMotor(config[GetMotor(config[i].can)].can)]
    <3>1. GetMotor(config[GetMotor(config[i].can)].can) \in 1..MaxMotors
      <4>1. GetMotor(config[GetMotor(config[i].can)].can) \in DOMAIN config
        BY <2>1, <2>3, MotorFound
      <4>2. QED
        BY <2>1, <4>1, MaxMotorsAssumption DEF TypeOK
    <3>2. lim \in LimitParam
      BY <3>1, LimitsAssumption
    <3>3. command \in [Field -> Int] /\ undefined \in [Field -> Wide]
      BY CommandsAssumption, UndefinedAssumption
    <3> HIDE DEF lim
    <3>4. Pack(EncodeAll(command, lim, undefined)) \in Seq(0..255)
      BY <3>2, <3>3, CodesAreWide, PackBytes
    <3>5. bus.kind = "mit" /\ bus.entry = i /\ bus.data = Pack(EncodeAll(command, lim, undefined))
      BY <2>3 DEF ControlMit, lim
    <3>6. bus.data \in Seq(0..255)
      BY <3>4, <3>5, Zenon
    <3>7. bus.kind = "mit" /\ bus.entry \in DOMAIN config
      BY <3>5
    <3>8. QED
      BY <2>1, <3>6, <3>7 DEF PathTypeOK
  <2>4. ASSUME phase = "ready",
               NEW i \in DOMAIN config, NEW reading \in Readings, NEW rest \in {0, 255},
               bus = TakeState(i, reading, rest)
        PROVE  PathTypeOK
    <3>1. PackState(reading, rest) \in Seq(0..255)
      <4>1. reading \in Reading /\ rest \in 0..255
        BY ReadingsAssumption
      <4>2. QED
        BY <4>1, PackStateBytes
    <3>2. GetMotor(config[i].mst) \in DOMAIN config
      BY <2>1, <2>4, MotorFound
    <3>3. QED
      BY <2>1, <2>4, <3>1, <3>2 DEF PathTypeOK, TakeState
  <2>5. QED
    BY <2>2, <2>3, <2>4 DEF PathInv, OnTheBus
<1>2. QED
  BY PathInvariance, <1>1, PTL

(* A field in its range is what the motor reads from the frame, within a     *)
(* quantum, whatever became of the other fields.                             *)
LEMMA FrameStandsFor ==
  ASSUME NEW lim \in LimitParam, NEW command \in [Field -> Int],
         NEW undefined \in [Field -> Wide], NEW f \in Field,
         InRange(command[f], Low(lim)[f], High(lim)[f])
  PROVE  StandsFor(Unpack(Pack(EncodeAll(command, lim, undefined)))[f],
                   command[f], Low(lim)[f], High(lim)[f], Top(f))
<1> DEFINE c == EncodeAll(command, lim, undefined)
<1>1. c \in [Field -> Wide]
  BY LimitRange, EncodeWide DEF EncodeAll
<1>2. c[f] = Encode(command[f], Low(lim)[f], High(lim)[f], Top(f), undefined[f])
  BY DEF EncodeAll
<1>3. /\ c[f] \in 0..Top(f)
      /\ StandsFor(c[f], command[f], Low(lim)[f], High(lim)[f], Top(f))
  BY <1>2, LimitRange, EncodeInRange
<1> HIDE DEF c
<1>4. Unpack(Pack(c)) = [q |-> c.q, dq |-> c.dq % 4096, kp |-> c.kp % 4096,
                         kd |-> c.kd % 4096, tau |-> c.tau % 4096]
  BY <1>1, FieldsDoNotMix
<1>5. Unpack(Pack(c))[f] = IF f = "q" THEN c[f] ELSE c[f] % 4096
  BY <1>4 DEF Field
<1>6. ASSUME f # "q"
      PROVE  c[f] % 4096 = c[f]
  <2>1. Top(f) = 4095
    BY <1>6, LimitRange
  <2>2. c[f] \in Nat /\ c[f] <= Top(f)
    BY <1>3
  <2>3. c[f] \in Narrow
    BY <2>1, <2>2 DEF Narrow
  <2>4. QED
    BY <2>3, TwelveBits
<1>7. Unpack(Pack(c))[f] = c[f]
  BY <1>5, <1>6
<1>8. QED
  BY <1>3, <1>7 DEF c

(* A command reaches the motor it is for and no other, and every field of it *)
(* that is in the range of that motor arrives within a quantum.              *)
THEOREM EveryCommandArrives == PathSpec => []CommandArrives
<1>1. PathInv => CommandArrives
  <2> SUFFICES ASSUME PathInv, bus.kind = "mit", Uncrossed
               PROVE  /\ Hearers = {bus.entry}
                      /\ \A f \in Field :
                           InRange(bus.command[f], Low(Limits[bus.entry])[f],
                                   High(Limits[bus.entry])[f]) =>
                             StandsFor(Unpack(bus.data)[f], bus.command[f],
                                       Low(Limits[bus.entry])[f],
                                       High(Limits[bus.entry])[f], Top(f))
    BY DEF CommandArrives
  <2>1. phase = "ready" /\ TableInv
    BY DEF PathInv, OnTheBus
  <2>2. PICK i \in DOMAIN config, command \in Commands, undefined \in [Field -> Undefined] :
          bus = ControlMit(GetMotor(config[i].can), i, command, undefined)
    BY DEF PathInv, OnTheBus, TakeState
  <2>3. GetMotor(config[i].can) = i
    BY <2>1, FoundMotor
  <2>4. /\ bus.entry = i
        /\ bus.command = command
        /\ bus.id = config[i].can
        /\ bus.data = Pack(EncodeAll(command, Limits[i], undefined))
    BY <2>2, <2>3 DEF ControlMit
  <2>5. Hearers = {i}
    BY <2>1, <2>4 DEF Hearers, TableInv, Distinct
  <2>6. Limits[i] \in LimitParam
    <3>1. i \in 1..MaxMotors
      BY <2>1, MaxMotorsAssumption DEF TableInv, TypeOK
    <3>2. QED
      BY <3>1, LimitsAssumption
  <2>7. command \in [Field -> Int] /\ undefined \in [Field -> Wide]
    BY CommandsAssumption, UndefinedAssumption
  <2>8. QED
    BY <2>4, <2>5, <2>6, <2>7, FrameStandsFor
<1>2. QED
  BY PathInvariance, <1>1, PTL

(* A state is stored for the motor that reported it, as it was sent.         *)
THEOREM EveryStateArrives == PathSpec => []StateArrives
<1>1. PathInv => StateArrives
  <2> SUFFICES ASSUME PathInv, bus.kind = "state", Uncrossed
               PROVE  bus.object = bus.entry /\ UnpackState(bus.data) = bus.reading
    BY DEF StateArrives
  <2>1. phase = "ready" /\ TableInv
    BY DEF PathInv, OnTheBus
  <2>2. PICK i \in DOMAIN config, reading \in Readings, rest \in {0, 255} :
          bus = TakeState(i, reading, rest)
    BY DEF PathInv, OnTheBus, ControlMit
  <2>3. GetMotor(config[i].mst) = i
    BY <2>1, FoundMotor
  <2>4. UnpackState(PackState(reading, rest)) = reading
    BY ReadingsAssumption, ReadingArrives
  <2>5. QED
    BY <2>2, <2>3, <2>4 DEF TakeState
<1>2. QED
  BY PathInvariance, <1>1, PTL
=============================================================================
