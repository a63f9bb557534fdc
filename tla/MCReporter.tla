----------------------------- MODULE MCReporter -----------------------------
(* A small instance of Reporter: a queue of two events, two commands. *)
EXTENDS Reporter

CONSTANTS c1, c2
=============================================================================
