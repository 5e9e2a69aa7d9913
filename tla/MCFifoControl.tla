--------------------------- MODULE MCFifoControl ---------------------------
(***************************************************************************)
(* FifoControl in units of a third of a step.  Moves of both signs, one    *)
(* smaller and one larger than a step, one at the limit and one above it.  *)
(***************************************************************************)
EXTENDS FifoControl

Numbers == {-5, 2, 7, 8}
NumbersAndNaN == Numbers \cup {NaN}
=============================================================================
