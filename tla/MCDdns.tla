-------------------------------- MODULE MCDdns --------------------------------
(* Instances of DdnsSync for TLC. *)
EXTENDS DdnsSync

CONSTANTS a, b

\* A new address after an outage.
Moves == <<a, Offline, b>>
=============================================================================
