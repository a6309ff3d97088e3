-------------------------- MODULE SettingsRefinement --------------------------
(***************************************************************************)
(* SettingsChange implements AtomicChange while changes do not overlap:    *)
(* when the monitor applies nothing and at most one task runs at a time.   *)
(***************************************************************************)
EXTENDS SettingsChange

\* The settings of the adapter in use, as they are configured.
Configurations == [dns : DnsServers \cup {Automatic}, proxy : Registry]

Here == [dns |-> dns[active], proxy |-> proxy]

\* The configuration that writing snapshot s back leads to.
View(s) == [dns |-> IF s.dns = NoServers THEN Automatic ELSE s.dns, proxy |-> s.proxy]

InEffect(servers) == IF servers = Automatic THEN DhcpServers ELSE servers

\* A snapshot holds the servers in effect: those of DHCP come back as static ones.
AsCaptured ==
    [m \in Configurations |->
        View([dns |-> InEffect(m.dns), proxy |-> m.proxy])]

\* Worker w has changed the machine and not yet decided what comes of it.
\* Until then the machine counts as what a rollback would lead to; a restore
\* happens with its first write.
Undecided(w) ==
    \/ pc[w] \in {"probe", "roll_proxy"}
    \/ pc[w] = "roll_dns" /\ op[w].kind # "restore"

\* Worker w has kept or rolled back its change: the snapshot will be stored.
Decided(w) ==
    pc[w] = "finish" /\ op[w].kind # "restore" /\ (success[w] \/ rolledBack[w])

Restoring(w) == pc[w] \in {"roll_proxy", "finish"} /\ op[w].kind = "restore"

\* A configuration is told from "no restore point".
ASSUME ViewAssumption == NoSnapshot \notin Snapshot \cup Configurations

Where(P(_)) == CHOOSE w \in Workers : P(w)

machineView ==
    IF \E w \in Workers : Undecided(w) THEN View(snap[Where(Undecided)]) ELSE Here

undoView ==
    IF \E w \in Workers : Decided(w) THEN View(snap[Where(Decided)])
    ELSE IF restorePoint = NoSnapshot THEN NoSnapshot ELSE View(restorePoint)

outcomeView ==
    IF \E w \in Workers : Restoring(w) THEN "restored"
    ELSE IF \E w \in Workers : Decided(w)
         THEN IF rolledBack[Where(Decided)] THEN "rolled_back" ELSE "kept"
         ELSE "none"

Atomic == INSTANCE AtomicChange WITH
    Working  <- {m \in Configurations : ProbeSucceeds(InEffect(m.dns), m.proxy)},
    Captured <- AsCaptured,
    Nothing  <- NoSnapshot,
    machine  <- machineView,
    undo     <- undoView,
    outcome  <- outcomeView

\* One click at a time is atomic: its change is kept as a whole and works, or
\* it leads back to the settings captured before it, and Restore goes back to
\* those captured before the last click.  Both go back to the settings that
\* were there but for one thing: servers that came from DHCP are static
\* afterwards (_apply_deadman_rollback, _store_restore_snapshot_if_success).
ClickIsAtomic == Atomic!Spec

\* The snapshot a change starts from holds the settings as they are, so that a
\* rollback would restore "the previous DNS/proxy state" (Audit and plan.md).
SnapshotIsPrevious ==
    \A w \in Workers : pc[w] = "change" => View(snap[w]) = Here
=============================================================================
