--------------------------- MODULE MCRequestQueue ---------------------------
(***************************************************************************)
(* RequestQueue with two kinds of requests, told apart as model values.    *)
(***************************************************************************)
EXTENDS RequestQueue

CONSTANTS r1, r2
=============================================================================
