------------------------------- MODULE MCConfig -------------------------------
(* Instances of ConfigSync for TLC. *)
EXTENDS ConfigSync

CONSTANTS e1, e2, x1

\* A value TLC can compare with configurations and that is not one.
NoConfig == {"none"}
=============================================================================
