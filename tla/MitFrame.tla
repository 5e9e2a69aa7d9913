------------------------------ MODULE MitFrame ------------------------------
(***************************************************************************)
(* The payload of a MIT frame and of a feedback frame, as control_mit and  *)
(* canframeCallback of the driver (damiao.cpp) encode and decode them.     *)
(*                                                                         *)
(* A float is an integer here: its multiple of a unit that divides every   *)
(* limit.  The arithmetic on it is exact, so the rounding of float is left *)
(* out; the truncation to an integer, the width of the integers, the       *)
(* shifts and the masks are what the code does.  The bytes data[0] to      *)
(* data[7] are a tuple, data[i] being its component i + 1.                 *)
(***************************************************************************)
EXTENDS Integers

CONSTANTS
  KpMax, KdMax   \* 500 and 5, the limits of kp and kd for every motor

ASSUME GainsAssumption == KpMax \in Nat \ {0} /\ KdMax \in Nat \ {0}

Field == {"q", "dq", "kp", "kd", "tau"}

(* The ranges of the fields for a motor with the Limit_param lim.            *)
Low(lim) == [q |-> -lim.Q, dq |-> -lim.DQ, kp |-> 0, kd |-> 0, tau |-> -lim.TAU]
High(lim) == [q |-> lim.Q, dq |-> lim.DQ, kp |-> KpMax, kd |-> KdMax, tau |-> lim.TAU]

(* The codes of 16 and of 12 bits. *)
Wide == {v \in Nat : v < 65536}
Narrow == {v \in Nat : v < 4096}

(* (1 << bits) - 1 *)
Top(f) == IF f = "q" THEN 65535 ELSE 4095

InRange(x, lo, hi) == lo <= x /\ x <= hi

(* float_to_uint: data_norm * ((1 << bits) - 1) is truncated to uint16_t.    *)
(* Nothing clamps it, and outside of 16 bits the conversion is undefined: it *)
(* gives whatever the build makes of it.                                     *)
Encode(x, lo, hi, top, undefined) ==
  LET scaled == (x - lo) * top
      span == hi - lo
  IN  IF ~(-span < scaled /\ scaled < 65536 * span) THEN undefined
      ELSE IF scaled < 0 THEN 0
      ELSE scaled \div span

(* uint_to_float gives lo + code * span / top: at most one quantum below x.  *)
StandsFor(code, x, lo, hi, top) ==
  LET rest == (x - lo) * top - code * (hi - lo) IN 0 <= rest /\ rest < hi - lo

EncodeAll(command, lim, undefined) ==
  [f \in Field |-> Encode(command[f], Low(lim)[f], High(lim)[f], Top(f), undefined[f])]

-----------------------------------------------------------------------------
(* Packing: an element of data is a uint8_t.                                 *)
Byte(v) == v % 256
Nibble(v) == v % 16

(* mutant: the high nibbles are not masked before they are merged *)
PackUnmasked(c) ==
  << Byte(c.q \div 256), Byte(c.q),
     Byte(c.dq \div 16), Byte(Nibble(c.dq) * 16 + c.kp \div 256), Byte(c.kp),
     Byte(c.kd \div 16), Byte(Nibble(c.kd) * 16 + c.tau \div 256), Byte(c.tau) >>

Pack(c) ==
  << Byte(c.q \div 256), Byte(c.q),
     Byte(c.dq \div 16), Nibble(c.dq) * 16 + Nibble(c.kp \div 256), Byte(c.kp),
     Byte(c.kd \div 16), Nibble(c.kd) * 16 + Nibble(c.tau \div 256), Byte(c.tau) >>

(* The motor reads every field from its bits.                                *)
Unpack(d) ==
  [q   |-> d[1] * 256 + d[2],
   dq  |-> d[3] * 16 + d[4] \div 16,
   kp  |-> Nibble(d[4]) * 256 + d[5],
   kd  |-> d[6] * 16 + d[7] \div 16,
   tau |-> Nibble(d[7]) * 256 + d[8]]

-----------------------------------------------------------------------------
(* Feedback.  data[0] holds the ID and the errors of the motor, data[6] and  *)
(* data[7] its temperatures; neither is read.                                *)
Reading == [q : Wide, dq : Narrow, tau : Narrow]

PackState(r, rest) ==
  << rest, r.q \div 256, Byte(r.q), r.dq \div 16,
     Nibble(r.dq) * 16 + r.tau \div 256, Byte(r.tau), rest, rest >>

(* mutant: the two nibbles of data[4] are exchanged *)
UnpackStateSwapped(d) ==
  [q |-> d[2] * 256 + d[3], dq |-> d[4] * 16 + Nibble(d[5]), tau |-> (d[5] \div 16) * 256 + d[6]]

(* canframeCallback *)
UnpackState(d) ==
  [q |-> d[2] * 256 + d[3], dq |-> d[4] * 16 + d[5] \div 16, tau |-> Nibble(d[5]) * 256 + d[6]]
=============================================================================
