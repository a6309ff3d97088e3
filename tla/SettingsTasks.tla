---------------------------- MODULE SettingsTasks ----------------------------
(***************************************************************************)
(* The DNS, proxy and restore actions of the window (gui.py).  A click on  *)
(* the Tk thread starts a worker thread unless a task with the same key    *)
(* still runs; the worker captures a snapshot, changes one setting, probes *)
(* the connection and, when the probe fails, writes the whole snapshot     *)
(* back (the dead-man rollback); the Tk thread then finishes the task:     *)
(* it stores the restore point and frees the key.                          *)
(***************************************************************************)
EXTENDS NetSettings

CONSTANTS
    Workers,        \* worker threads
    Ops,            \* the clicks the user can make: a subset of AllOps
    NoOp,           \* an idle worker
    NoSnapshot,
    Patient         \* the user clicks no button of a group while a task of
                    \* another group runs (nothing in the window prevents it)

AllOps ==
    [kind : {"set_dns"},   iface : Ifaces \cup {NoIface}, value : DnsServers \cup {Invalid}]
    \cup [kind : {"clear_dns"}, iface : Ifaces \cup {NoIface}, value : {Automatic}]
    \cup [kind : {"set_proxy"}, iface : Ifaces \cup {NoIface}, value : Proxies \cup {Invalid}]
    \cup [kind : {"disable_proxy"}, iface : Ifaces \cup {NoIface}, value : {Absent}]
    \cup [kind : {"set_socks5"}, iface : {NoIface}, value : Proxies \cup {Invalid}]
    \cup [kind : {"set_pac"}, iface : {NoIface}, value : Pacs \cup {Invalid}]
    \cup [kind : {"restore"}, iface : {NoIface}, value : {Absent}]

ASSUME OpsAssumption ==
    Ops \subseteq AllOps /\ NoOp \notin AllOps /\ Patient \in BOOLEAN

\* The key argument of _run_task: one per group of buttons.
Key(op) == CASE op.kind \in {"set_dns", "clear_dns"} -> "dns"
             [] op.kind = "restore" -> "restore"
             [] OTHER -> "proxy"

Keys == {"dns", "proxy", "restore"}

Snapshot == [iface : Ifaces \cup {NoIface}, dns : Servers, proxy : Registry]

VARIABLES
    pc,             \* where each worker is
    op,             \* the click it serves
    snap,           \* the snapshot it captured, or was given to restore
    success,        \* the success flag work() returns
    rolledBack,     \* the rolled_back flag work() returns
    runningKeys,    \* _running_task_keys
    restorePoint,   \* _last_restore_snapshot
    rollback        \* settings.rollback_on_connectivity_loss

taskVars == <<pc, op, snap, success, rolledBack, runningKeys, restorePoint, rollback>>

Steps == {"idle", "interface", "read_proxy", "read_dns", "change", "probe",
          "roll_dns", "roll_proxy", "finish", "raised"}

TasksTypeOK ==
    /\ pc \in [Workers -> Steps]
    /\ op \in [Workers -> AllOps \cup {NoOp}]
    /\ snap \in [Workers -> Snapshot \cup {NoSnapshot}]
    /\ success \in [Workers -> BOOLEAN]
    /\ rolledBack \in [Workers -> BOOLEAN]
    /\ runningKeys \subseteq Keys
    /\ restorePoint \in Snapshot \cup {NoSnapshot}
    /\ rollback \in BOOLEAN

Live(w) == pc[w] # "idle"

BlankSnapshot == [iface |-> NoIface, dns |-> NoServers, proxy |-> EmptyRegistry]

TasksInit ==
    /\ pc = [w \in Workers |-> "idle"]
    /\ op = [w \in Workers |-> NoOp]
    /\ snap = [w \in Workers |-> NoSnapshot]
    /\ success = [w \in Workers |-> FALSE]
    /\ rolledBack = [w \in Workers |-> FALSE]
    /\ runningKeys = {}
    /\ restorePoint = NoSnapshot
    /\ rollback = TRUE

Goto(w, step) == pc' = [pc EXCEPT ![w] = step]

-----------------------------------------------------------------------------
(* The Tk thread                                                           *)

\* Mutant of MayStart: the click does not look for a running task.
MayAlwaysStart(o) == TRUE

\* A click whose key is running only shows a toast.
MayStart(o) == Key(o) \notin runningKeys

\* _run_task.
RunTask(w, o) ==
    /\ ~Live(w)
    /\ MayStart(o)
    /\ runningKeys' = runningKeys \cup {Key(o)}
    /\ op' = [op EXCEPT ![w] = o]
    /\ success' = [success EXCEPT ![w] = FALSE]
    /\ rolledBack' = [rolledBack EXCEPT ![w] = FALSE]
    /\ UNCHANGED <<restorePoint, rollback, settingsVars>>

\* A DNS or proxy button: the worker begins by capturing a snapshot.
StartChange(w, o) ==
    /\ o.kind # "restore"
    /\ RunTask(w, o)
    /\ Goto(w, "interface")
    /\ snap' = [snap EXCEPT ![w] = BlankSnapshot]

\* restore_previous_settings: the snapshot to write is the restore point now.
StartRestore(w, o) ==
    /\ o.kind = "restore"
    /\ restorePoint # NoSnapshot
    /\ RunTask(w, o)
    /\ Goto(w, "roll_dns")
    /\ snap' = [snap EXCEPT ![w] = restorePoint]

\* Mutant of ReleaseKey: the error path of _finish returns before the discard.
KeepKeyOnError(w) ==
    runningKeys' = IF pc[w] = "raised" THEN runningKeys ELSE runningKeys \ {Key(op[w])}

ReleaseKey(w) == runningKeys' = runningKeys \ {Key(op[w])}

\* _finish and the _done callback of the task.
Finish(w) ==
    /\ pc[w] \in {"finish", "raised"}
    /\ restorePoint' = IF /\ pc[w] = "finish"
                          /\ op[w].kind # "restore"
                          /\ success[w] \/ rolledBack[w]
                       THEN snap[w] ELSE restorePoint
    /\ ReleaseKey(w)
    /\ Goto(w, "idle")
    /\ op' = [op EXCEPT ![w] = NoOp]
    /\ snap' = [snap EXCEPT ![w] = NoSnapshot]
    /\ success' = [success EXCEPT ![w] = FALSE]
    /\ rolledBack' = [rolledBack EXCEPT ![w] = FALSE]
    /\ UNCHANGED <<rollback, settingsVars>>

\* The rollback checkbox, saved: the workers read it from the live config.
ToggleRollback ==
    /\ rollback' = ~rollback
    /\ UNCHANGED <<pc, op, snap, success, rolledBack, runningKeys, restorePoint, settingsVars>>

-----------------------------------------------------------------------------
(* The worker thread                                                       *)

workerFrame == <<op, runningKeys, restorePoint, rollback>>

\* _current_restore_snapshot, first call: resolve the adapter.
CaptureInterface(w) ==
    /\ pc[w] = "interface"
    /\ snap' = [snap EXCEPT ![w].iface = Resolve(op[w].iface)]
    /\ Goto(w, "read_proxy")
    /\ UNCHANGED <<workerFrame, success, rolledBack, settingsVars>>

CaptureProxy(w) ==
    /\ pc[w] = "read_proxy"
    /\ \E reg \in ProxyReads : snap' = [snap EXCEPT ![w].proxy = reg]
    /\ Goto(w, "read_dns")
    /\ UNCHANGED <<workerFrame, success, rolledBack, settingsVars>>

CaptureDns(w) ==
    /\ pc[w] = "read_dns"
    /\ \E s \in DnsReads(snap[w].iface) : snap' = [snap EXCEPT ![w].dns = s]
    /\ Goto(w, "change")
    /\ UNCHANGED <<workerFrame, success, rolledBack, settingsVars>>

\* The one setting the click is about.
ChangeSetting(o, ok) ==
    \/ o.kind = "set_dns" /\ SetDns(o.iface, o.value, ok) /\ UNCHANGED proxy
    \/ o.kind = "clear_dns" /\ ClearDns(o.iface, ok) /\ UNCHANGED proxy
    \/ o.kind \in {"set_proxy", "set_socks5"} /\ EnableProxy(o.value, ok) /\ UNCHANGED dns
    \/ o.kind = "disable_proxy" /\ DisableProxy(ok) /\ UNCHANGED dns
    \/ o.kind = "set_pac" /\ SetPac(o.value, ok) /\ UNCHANGED dns

\* A change that reports failure ends the task: no probe, no rollback.
Change(w) ==
    /\ pc[w] = "change"
    /\ \E ok \in BOOLEAN :
        /\ ChangeSetting(op[w], ok)
        /\ success' = [success EXCEPT ![w] = ok]
        /\ Goto(w, IF ok THEN "probe" ELSE "finish")
    /\ UNCHANGED <<workerFrame, snap, rolledBack, active>>

\* _apply_deadman_rollback up to its decision.
Probe(w) ==
    /\ pc[w] = "probe"
    /\ \E online \in CheckResults :
        IF rollback /\ ~online
        THEN /\ Goto(w, "roll_dns")
             /\ success' = [success EXCEPT ![w] = FALSE]
             /\ rolledBack' = [rolledBack EXCEPT ![w] = TRUE]
        ELSE Goto(w, "finish") /\ UNCHANGED <<success, rolledBack>>
    /\ UNCHANGED <<workerFrame, snap, settingsVars>>

\* _restore_snapshot_values: DNS, then proxy whatever became of DNS.
\* In a restore, success collects the result; after a rollback it is FALSE.
RollDns(w) ==
    /\ pc[w] = "roll_dns"
    /\ \E ok \in BOOLEAN :
        /\ RestoreDns(snap[w].iface, snap[w].dns, ok)
        /\ success' = [success EXCEPT ![w] = ok]
    /\ Goto(w, "roll_proxy")
    /\ UNCHANGED <<workerFrame, snap, rolledBack, proxy, active>>

\* Mutant of BothOk: the result of the proxy half alone.
LastOk(dnsOk, proxyOk) == proxyOk

\* A restore succeeds when both halves do.
BothOk(dnsOk, proxyOk) == dnsOk /\ proxyOk

RollProxy(w) ==
    /\ pc[w] = "roll_proxy"
    /\ \E ok \in BOOLEAN :
        /\ RestoreProxy(snap[w].proxy, ok)
        /\ success' = [success EXCEPT ![w] =
                          op[w].kind = "restore" /\ BothOk(@, ok)]
    /\ Goto(w, "finish")
    /\ UNCHANGED <<workerFrame, snap, rolledBack, dns, active>>

\* work() raises (say, while normalising a config the Tk thread is editing).
Raise(w) ==
    /\ "exception" \in Faults
    /\ pc[w] \in {"interface", "read_proxy", "read_dns", "change", "probe", "roll_dns", "roll_proxy"}
    /\ Goto(w, "raised")
    /\ UNCHANGED <<workerFrame, snap, success, rolledBack, settingsVars>>

WorkerStep(w) ==
    \/ CaptureInterface(w)
    \/ CaptureProxy(w)
    \/ CaptureDns(w)
    \/ Change(w)
    \/ Probe(w)
    \/ RollDns(w)
    \/ RollProxy(w)
    \/ Raise(w)

Click ==
    \E w \in Workers, o \in Ops :
        /\ Patient => runningKeys \subseteq {Key(o)}
        /\ StartChange(w, o) \/ StartRestore(w, o)
=============================================================================
