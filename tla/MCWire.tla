------------------------------- MODULE MCWire -------------------------------
(***************************************************************************)
(* Wire with two packets, told apart as model values.                      *)
(***************************************************************************)
EXTENDS Wire

CONSTANTS p1, p2
=============================================================================
