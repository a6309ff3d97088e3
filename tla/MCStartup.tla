------------------------------ MODULE MCStartup ------------------------------
(* Instances of Startup for TLC. *)
EXTENDS Startup

CONSTANTS p1, p2, p3, p4
=============================================================================
