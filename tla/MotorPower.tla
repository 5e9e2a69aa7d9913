----------------------------- MODULE MotorPower -----------------------------
(***************************************************************************)
(* What connecting, set_zero and disconnecting promise to whoever looks at *)
(* the motors only, with frames, answers, repetitions and the callback     *)
(* abstracted away.  While a call is under way motors may be in any state  *)
(* and mode; between calls nothing changes.  Connecting and set_zero       *)
(* return with all motors enabled in MIT mode, disconnecting with all      *)
(* disabled.  Only the motor that set_zero was called for gets a new zero, *)
(* at most once, and only when it is to persist is it saved.               *)
(*                                                                         *)
(* MotorControl is shown to implement this module on a link that loses no  *)
(* frame and no answer.                                                    *)
(***************************************************************************)
CONSTANTS Motor, Mode, MIT

VARIABLES
  call,      \* "none" before connecting; "open" and "closed" between calls;
             \* "opening", "zeroing" or "closing" during one
  subject,   \* the motor of the latest set_zero
  keep,      \* its argument persist
  reg,       \* the motors, as in MotorControl
  enabled,
  zero,
  flash

motorVars == <<reg, enabled, zero, flash>>
vars == <<call, subject, keep, motorVars>>

Init ==
  /\ call = "none"
  /\ subject \in Motor
  /\ keep = FALSE
  /\ reg \in [Motor -> Mode]
  /\ enabled \in [Motor -> BOOLEAN]
  /\ zero = [m \in Motor |-> "old"]
  /\ flash = [m \in Motor |-> "old"]

(* Calls.  *)
Connect == call = "none" /\ call' = "opening" /\ UNCHANGED <<subject, keep, motorVars>>

SetZero(m, save) ==
  /\ call = "open"
  /\ call' = "zeroing"
  /\ subject' = m
  /\ keep' = save
  /\ UNCHANGED motorVars

Disconnect == call = "open" /\ call' = "closing" /\ UNCHANGED <<subject, keep, motorVars>>

(* What a call may do to the zeros: set that of its motor, or save it.       *)
Zeroing ==
  \/ UNCHANGED <<zero, flash>>
  \/ call = "zeroing" /\ zero' = [zero EXCEPT ![subject] = "new"] /\ UNCHANGED flash
  \/ call = "zeroing" /\ keep /\ flash' = [flash EXCEPT ![subject] = zero[subject]] /\ UNCHANGED zero

(* A step inside a call. *)
Work ==
  /\ call \in {"opening", "zeroing", "closing"}
  /\ Zeroing
  /\ reg' \in [Motor -> Mode]
  /\ enabled' \in [Motor -> BOOLEAN]
  /\ UNCHANGED <<subject, keep>>

Proceed == Work /\ UNCHANGED call

(* The last step of a call. *)
Opened ==
  /\ call \in {"opening", "zeroing"}
  /\ Work
  /\ call' = "open"
  /\ \A m \in Motor : enabled'[m] /\ reg'[m] = MIT
  /\ call = "zeroing" => zero'[subject] = "new" /\ (keep => flash'[subject] = "new")

Closed ==
  /\ call = "closing"
  /\ Work
  /\ call' = "closed"
  /\ \A m \in Motor : ~enabled'[m]

Next ==
  \/ Connect
  \/ \E m \in Motor, save \in BOOLEAN : SetZero(m, save)
  \/ Disconnect
  \/ Proceed \/ Opened \/ Closed

Spec == Init /\ [][Next]_vars
=============================================================================
