---------------------------- MODULE SettingsChange ----------------------------
(***************************************************************************)
(* The window's settings tasks and the monitor's automatic profile         *)
(* application, changing the same DNS and proxy settings of one machine    *)
(* from different threads.                                                 *)
(***************************************************************************)
EXTENDS SettingsTasks, AutoApply

CONSTANTS
    MonitorOn,      \* some profile may be applied automatically
    RollbackFixed,  \* the user never touches the rollback checkbox
    InterfaceFixed  \* the default route never moves

vars == <<settingsVars, taskVars, monitorVars>>

TypeOK == SettingsTypeOK /\ TasksTypeOK /\ MonitorTypeOK

Init == SettingsInit /\ TasksInit /\ MonitorInit

GuiStep ==
    /\ \/ Click
       \/ \E w \in Workers : WorkerStep(w) \/ Finish(w)
       \/ ~RollbackFixed /\ ToggleRollback
    /\ UNCHANGED monitorVars

AutoStep ==
    /\ MonitorOn
    /\ Poll(rollback) \/ MonitorStep
    /\ UNCHANGED taskVars

Environment ==
    /\ ~InterfaceFixed
    /\ SwitchInterface
    /\ UNCHANGED <<taskVars, monitorVars>>

Next == GuiStep \/ AutoStep \/ Environment

Fairness ==
    /\ \A w \in Workers : WF_vars((WorkerStep(w) \/ Finish(w)) /\ UNCHANGED monitorVars)
    /\ WF_vars(AutoStep)

Spec == Init /\ [][Next]_vars

FairSpec == Spec /\ Fairness

-----------------------------------------------------------------------------
\* No two live workers serve clicks of the same key, and a key is marked as
\* running exactly while one of them does (_run_task and its _finish).
OneTaskPerKey ==
    /\ runningKeys = {Key(op[w]) : w \in {v \in Workers : Live(v)}}
    /\ \A v, w \in Workers :
        Live(v) /\ Live(w) /\ Key(op[v]) = Key(op[w]) => v = w

\* The setting a click asks for is in force (for a restore: both settings of
\* the restore point).
InForce(o, s) ==
    CASE o.kind \in {"set_dns", "clear_dns"} -> dns[Resolve(o.iface)] = o.value
      [] o.kind \in {"set_proxy", "set_socks5"} -> proxy.enable = 1 /\ proxy.server = o.value
      [] o.kind = "disable_proxy" -> proxy.enable = 0
      [] o.kind = "set_pac" -> proxy.enable = 0 /\ proxy.pac = o.value
      [] o.kind = "restore" ->
            /\ proxy = s.proxy
            /\ dns[s.iface] = IF s.dns = NoServers THEN Automatic ELSE s.dns

\* A task that ends with the success toast has left what was asked for in
\* force, whatever failed on the way (_apply_deadman_rollback,
\* _restore_snapshot_values).
SuccessIsTrue ==
    \A w \in Workers : pc[w] = "finish" /\ success[w] => InForce(op[w], snap[w])

AtRest == mpc = "sleep" /\ \A w \in Workers : ~Live(w)

\* When no change is in flight the machine can reach the network: whatever
\* the app changed, it works or has been rolled back (_apply_deadman_rollback,
\* apply_network_profile_plan).
AtRestConnected == AtRest /\ active # NoIface => Connected

\* The restore point is only replaced by a task that succeeded, so a change
\* that failed or was rolled back leaves the one before it usable (_done).
RestorePointNeedsSuccess ==
    [][restorePoint' # restorePoint =>
        \E w \in Workers : pc[w] = "finish" /\ success[w] /\ pc'[w] = "idle"]_vars

\* Every click that started a task ends, whatever fails on the way, and frees
\* its key for the next click (_worker, _finish).
TasksEnd == \A k \in Keys : k \in runningKeys ~> k \notin runningKeys

Applied(c) ==
    /\ Profile[c].dns # NoStep => dns[c] = Profile[c].dns
    /\ Profile[c].proxy # NoStep => proxy.enable = 1 /\ proxy.server = Profile[c].proxy

\* While calls do what they say, a network the machine stays on ends up with the
\* settings of its profile, whatever networks it visited before and whether
\* attempts there were rolled back or not (_last_auto_profile_key).
ProfileReached ==
    \A c \in {i \in Ifaces : Profile[i] # NoPlan} :
        <>[](active = c) => <>[]Applied(c)
=============================================================================
