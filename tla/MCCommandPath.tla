--------------------------- MODULE MCCommandPath ---------------------------
(***************************************************************************)
(* CommandPath in units of 0.5 for two DM4310 and one DM8009: positions of *)
(* 12.5 rad, velocities of 30 and 45 rad/s, torques of 10 and 54 N m.      *)
(***************************************************************************)
EXTENDS CommandPath

DM4310 == [Q |-> 25, DQ |-> 60, TAU |-> 20]
DM8009 == [Q |-> 25, DQ |-> 90, TAU |-> 108]
Models == <<DM4310, DM8009, DM4310>>

(* Everything 0; the lower and the upper ends of the ranges of a DM4310,     *)
(* alternating; odd values; values a bit and far outside the ranges.         *)
SampleCommands ==
  { [q |-> 0,   dq |-> 0,   kp |-> 0,    kd |-> 0,  tau |-> 0],
    [q |-> -25, dq |-> 60,  kp |-> 0,    kd |-> 10, tau |-> -20],
    [q |-> 25,  dq |-> -60, kp |-> 1000, kd |-> 0,  tau |-> 20],
    [q |-> 7,   dq |-> -13, kp |-> 333,  kd |-> 3,  tau |-> 11],
    [q |-> 25,  dq |-> 61,  kp |-> 1,    kd |-> 11, tau |-> -21],
    [q |-> -26, dq |-> 59,  kp |-> -1,   kd |-> 9,  tau |-> 2000] }

SampleReadings ==
  { [q |-> 0, dq |-> 4095, tau |-> 0],
    [q |-> 65535, dq |-> 0, tau |-> 4095],
    [q |-> 43981, dq |-> 1657, tau |-> 2748] }
=============================================================================
