---------------------------- MODULE MCSimulator ----------------------------
(* Small instances of Simulator: one or two commands, a queue of two events. *)
EXTENDS Simulator

CONSTANTS c1, c2
=============================================================================
