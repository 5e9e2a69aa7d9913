----------------------------- MODULE MCPrograms -----------------------------
(***************************************************************************)
(* Programs on two motors; the entries of the two alternate in the map.    *)
(***************************************************************************)
EXTENDS Programs

CONSTANTS m1, m2

TwoTwice == <<m1, m2, m1, m2>>
InOrder == <<m1, m2>>
=============================================================================
