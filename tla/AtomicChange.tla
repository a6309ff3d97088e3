----------------------------- MODULE AtomicChange -----------------------------
(***************************************************************************)
(* What one click on a DNS or proxy button comes to: the machine goes from *)
(* one working configuration to another in one step, or back to what was   *)
(* captured of the one before, and Restore brings back what was captured   *)
(* before the last click.  What is captured of a configuration need not be *)
(* that configuration: Take says what a click may lose.                    *)
(***************************************************************************)
CONSTANTS
    Working,    \* configurations the network can be reached with
    Captured,   \* Captured[m]: what a click captures of configuration m
    Nothing     \* no restore point yet

VARIABLES
    machine,    \* the configuration of the machine
    undo,       \* the configuration Restore brings back
    outcome     \* what the click that is ending has come to

vars == <<machine, undo, outcome>>

Init == machine \in Working /\ undo = Nothing /\ outcome = "none"

\* A click has captured the machine and is about to change it: from here on
\* the machine can only go on, or back to what was captured.
Take ==
    /\ outcome = "none"
    /\ machine' = Captured[machine]
    /\ UNCHANGED <<undo, outcome>>

\* The change is applied, probed and kept.
Apply ==
    /\ outcome = "none"
    /\ machine' \in Working
    /\ undo' = machine
    /\ outcome' = "kept"

\* The change is rolled back: the restore point is the machine as captured.
RollBack ==
    /\ outcome = "none"
    /\ UNCHANGED machine
    /\ undo' = machine
    /\ outcome' = "rolled_back"

Restore ==
    /\ outcome = "none"
    /\ undo # Nothing
    /\ machine' = undo
    /\ UNCHANGED undo
    /\ outcome' = "restored"

\* The click is over and the next one may come.
Close ==
    /\ outcome' = "none"
    /\ UNCHANGED <<machine, undo>>

Next == Take \/ Apply \/ RollBack \/ Restore \/ Close

Spec == Init /\ [][Next]_vars
=============================================================================
