--------------------------- MODULE CommandStream ---------------------------
(***************************************************************************)
(* What the MIT control loop promises to whoever watches the CAN bus, with *)
(* the threads, the lock and the calls abstracted away: while the stream   *)
(* is open, complete ticks follow each other; a tick sends one MIT frame   *)
(* to every motor, in the order of the configuration, from ONE version of  *)
(* the commands; and the stream ends with a zero frame to every motor,     *)
(* between ticks, after which nothing is sent until it is opened again.    *)
(* Only a missing connection excuses it from that: a tick is refused for   *)
(* nothing else, and nothing but a refused tick, or having no connection   *)
(* when the zero frames are due, ends a stream without them.               *)
(*                                                                         *)
(* MitLoopController is shown to implement this module.                    *)
(***************************************************************************)
EXTENDS Naturals

CONSTANTS N, Command, Zero, NoFrame

VARIABLES
  up,     \* there is a connection
  open,   \* frames may be sent
  failed, \* a tick of this stream was refused
  cmds,   \* the commands the application asked for last
  cur,    \* the version of cmds the current tick sends
  next,   \* the motor whose frame comes next; N + 1 between ticks
  last    \* the last MIT frame each motor got

vars == <<up, open, failed, cmds, cur, next, last>>

Motors == 1..N
AllZero == [m \in Motors |-> Zero]

Init ==
  /\ up = FALSE
  /\ open = FALSE
  /\ failed = FALSE
  /\ cmds = AllZero
  /\ cur = AllZero
  /\ next = N + 1
  /\ last = [m \in Motors |-> NoFrame]

(* The application connects and disconnects whenever it likes. *)
Link ==
  /\ up' = ~up
  /\ UNCHANGED <<open, failed, cmds, cur, next, last>>

Open ==
  /\ ~open
  /\ open' = TRUE
  /\ UNCHANGED <<up, failed, cmds, cur, next, last>>

Update ==
  /\ cmds' \in [Motors -> Command]
  /\ UNCHANGED <<up, open, failed, cur, next, last>>

Tick ==
  /\ open
  /\ ~failed
  /\ next = N + 1
  /\ cur' = cmds
  /\ next' = 1
  /\ UNCHANGED <<up, open, failed, cmds, last>>

Emit ==
  /\ open
  /\ up
  /\ next \in Motors
  /\ last' = [last EXCEPT ![next] = cur[next]]
  /\ next' = next + 1
  /\ UNCHANGED <<up, open, failed, cmds, cur>>

(* The whole tick is refused before its first frame. *)
Refuse ==
  /\ open
  /\ ~up
  /\ next = 1
  /\ next' = N + 1
  /\ failed' = TRUE
  /\ UNCHANGED <<up, open, cmds, cur, last>>

End ==
  /\ open
  /\ next = N + 1
  /\ open' = FALSE
  /\ failed' = FALSE
  /\ UNCHANGED <<up, cmds, cur, next>>

Close == End /\ up /\ last' = AllZero

(* A tick failed, or no zero frame can be sent. *)
Abort == End /\ (failed \/ ~up) /\ UNCHANGED last

Next == Link \/ Open \/ Update \/ Tick \/ Emit \/ Refuse \/ Close \/ Abort

Spec == Init /\ [][Next]_vars
=============================================================================
