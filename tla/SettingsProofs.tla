---------------------------- MODULE SettingsProofs ----------------------------
(***************************************************************************)
(* Proofs about SettingsChange for every set of workers, clicks, adapters, *)
(* faults and profiles.                                                    *)
(***************************************************************************)
EXTENDS SettingsRefinement, TLAPS

\* What the tasks need of their own state to be told apart by key.
TaskInv ==
    /\ pc \in [Workers -> Steps]
    /\ op \in [Workers -> AllOps \cup {NoOp}]
    /\ OneTaskPerKey

\* A step that keeps every worker's liveness and click, and the keys, keeps TaskInv.
LEMMA SameTasks ==
    ASSUME TaskInv,
           pc' \in [Workers -> Steps],
           UNCHANGED <<op, runningKeys>>,
           \A w \in Workers : (pc'[w] # "idle") <=> (pc[w] # "idle")
    PROVE  TaskInv'
  BY DEF TaskInv, OneTaskPerKey, Live, Key

\* A click starts a worker only under a key no live worker has.
LEMMA ClickKeeps ==
    ASSUME TaskInv, NEW w \in Workers, NEW o \in Ops, RunTask(w, o),
           NEW step \in Steps \ {"idle"}, Goto(w, step)
    PROVE  TaskInv'
<1>1. o \in AllOps
  BY OpsAssumption
<1>2. pc' \in [Workers -> Steps] /\ op' \in [Workers -> AllOps \cup {NoOp}]
  BY <1>1 DEF TaskInv, RunTask, Goto
<1>3. \A v \in Workers \ {w} : op'[v] = op[v] /\ pc'[v] = pc[v]
  BY DEF TaskInv, RunTask, Goto
<1>4. op'[w] = o /\ pc'[w] # "idle" /\ pc[w] = "idle"
  BY DEF TaskInv, RunTask, Goto, Live
<1>5. \A v \in Workers : Live(v) => Key(op[v]) # Key(o)
  BY DEF TaskInv, OneTaskPerKey, RunTask, MayStart
<1>6. runningKeys' = {Key(op'[v]) : v \in {u \in Workers : pc'[u] # "idle"}}
  <2>1. runningKeys' = {Key(op[v]) : v \in {u \in Workers : Live(u)}} \cup {Key(o)}
    BY DEF TaskInv, OneTaskPerKey, RunTask
  <2>2. {u \in Workers : pc'[u] # "idle"} = {u \in Workers : Live(u)} \cup {w}
    BY <1>3, <1>4 DEF Live
  <2>3. QED
    BY <2>1, <2>2, <1>3, <1>4 DEF Live, Key
<1>7. \A u, v \in Workers :
        pc'[u] # "idle" /\ pc'[v] # "idle" /\ Key(op'[u]) = Key(op'[v]) => u = v
  BY <1>3, <1>4, <1>5 DEF TaskInv, OneTaskPerKey, Live, Key
<1>. QED
  BY <1>2, <1>6, <1>7 DEF TaskInv, OneTaskPerKey, Live, Key

\* Finishing a task frees its key and no other.
LEMMA FinishKeeps ==
    ASSUME TaskInv, NEW w \in Workers, Finish(w)
    PROVE  TaskInv'
<1>1. pc' \in [Workers -> Steps] /\ op' \in [Workers -> AllOps \cup {NoOp}]
  BY DEF TaskInv, Finish, Goto, Steps
<1>2. \A v \in Workers \ {w} : op'[v] = op[v] /\ pc'[v] = pc[v]
  BY DEF TaskInv, Finish, Goto
<1>3. pc'[w] = "idle" /\ Live(w)
  BY DEF TaskInv, Finish, Goto, Live
<1>4. \A v \in Workers \ {w} : Live(v) => Key(op[v]) # Key(op[w])
  BY <1>3 DEF TaskInv, OneTaskPerKey
<1>5. {u \in Workers : pc'[u] # "idle"} = {u \in Workers : Live(u)} \ {w}
  BY <1>2, <1>3 DEF Live
<1>6. runningKeys' = {Key(op[v]) : v \in {u \in Workers : Live(u)}} \ {Key(op[w])}
  BY DEF TaskInv, OneTaskPerKey, Finish, ReleaseKey
<1>7. runningKeys' = {Key(op'[v]) : v \in {u \in Workers : pc'[u] # "idle"}}
  BY <1>2, <1>4, <1>5, <1>6 DEF Key
<1>8. \A u, v \in Workers :
        pc'[u] # "idle" /\ pc'[v] # "idle" /\ Key(op'[u]) = Key(op'[v]) => u = v
  BY <1>2, <1>3 DEF TaskInv, OneTaskPerKey, Live, Key
<1>. QED
  BY <1>1, <1>7, <1>8 DEF TaskInv, OneTaskPerKey, Live, Key

\* A worker that goes on with its click keeps its key.
LEMMA GoingOnKeeps ==
    ASSUME TaskInv, NEW w \in Workers, NEW step \in Steps \ {"idle"},
           pc[w] # "idle", Goto(w, step), UNCHANGED <<op, runningKeys>>
    PROVE  TaskInv'
<1>1. pc' \in [Workers -> Steps]
  BY DEF TaskInv, Goto
<1>2. \A v \in Workers : (pc'[v] # "idle") <=> (pc[v] # "idle")
  BY DEF TaskInv, Goto
<1>. QED
  BY <1>1, <1>2, SameTasks

LEMMA WorkerKeeps ==
    ASSUME TaskInv, NEW w \in Workers, WorkerStep(w)
    PROVE  TaskInv'
<1>1. CASE CaptureInterface(w)
  BY <1>1, GoingOnKeeps DEF CaptureInterface, workerFrame, Steps
<1>2. CASE CaptureProxy(w)
  BY <1>2, GoingOnKeeps DEF CaptureProxy, workerFrame, Steps
<1>3. CASE CaptureDns(w)
  BY <1>3, GoingOnKeeps DEF CaptureDns, workerFrame, Steps
<1>4. CASE Change(w)
  <2>1. PICK ok \in BOOLEAN : Goto(w, IF ok THEN "probe" ELSE "finish")
    BY <1>4 DEF Change
  <2>. QED
    BY <1>4, <2>1, GoingOnKeeps DEF Change, workerFrame, Steps
<1>5. CASE Probe(w)
  <2>1. Goto(w, "roll_dns") \/ Goto(w, "finish")
    BY <1>5 DEF Probe
  <2>. QED
    BY <1>5, <2>1, GoingOnKeeps DEF Probe, workerFrame, Steps
<1>6. CASE RollDns(w)
  BY <1>6, GoingOnKeeps DEF RollDns, workerFrame, Steps
<1>7. CASE RollProxy(w)
  BY <1>7, GoingOnKeeps DEF RollProxy, workerFrame, Steps
<1>8. CASE Raise(w)
  <2>1. pc[w] # "idle"
    BY <1>8 DEF Raise
  <2>. QED
    BY <1>8, <2>1, GoingOnKeeps DEF Raise, workerFrame, Steps
<1>. QED
  BY <1>1, <1>2, <1>3, <1>4, <1>5, <1>6, <1>7, <1>8 DEF WorkerStep

LEMMA TaskInvInit == Init => TaskInv
<1>. SUFFICES ASSUME Init PROVE TaskInv
  OBVIOUS
<1>1. \A w \in Workers : ~Live(w)
  BY DEF Init, TasksInit, Live
<1>2. {w \in Workers : Live(w)} = {}
  BY <1>1
<1>3. OneTaskPerKey
  BY <1>1, <1>2 DEF Init, TasksInit, OneTaskPerKey
<1>. QED
  BY <1>3 DEF Init, TasksInit, TaskInv, Steps

LEMMA TaskInvNext == TaskInv /\ [Next]_vars => TaskInv'
<1>. SUFFICES ASSUME TaskInv, [Next]_vars PROVE TaskInv'
  OBVIOUS
<1>1. ASSUME UNCHANGED taskVars PROVE TaskInv'
  BY <1>1, SameTasks DEF taskVars, TaskInv
<1>2. CASE GuiStep
  <2>1. ASSUME NEW w \in Workers, NEW o \in Ops, StartChange(w, o) PROVE TaskInv'
    BY <2>1, ClickKeeps DEF StartChange, Steps
  <2>2. ASSUME NEW w \in Workers, NEW o \in Ops, StartRestore(w, o) PROVE TaskInv'
    BY <2>2, ClickKeeps DEF StartRestore, Steps
  <2>3. ASSUME NEW w \in Workers, WorkerStep(w) PROVE TaskInv'
    BY <2>3, WorkerKeeps
  <2>4. ASSUME NEW w \in Workers, Finish(w) PROVE TaskInv'
    BY <2>4, FinishKeeps
  <2>5. CASE ToggleRollback
    BY <2>5, SameTasks DEF ToggleRollback, TaskInv
  <2>. QED
    BY <1>2, <2>1, <2>2, <2>3, <2>4, <2>5 DEF GuiStep, Click
<1>3. CASE AutoStep
  BY <1>1, <1>3 DEF AutoStep
<1>4. CASE Environment
  BY <1>1, <1>4 DEF Environment
<1>5. CASE UNCHANGED vars
  BY <1>1, <1>5 DEF vars
<1>. QED
  BY <1>2, <1>3, <1>4, <1>5 DEF Next

\* For any number of worker threads, clicks, adapters and faults: two tasks of
\* one key never run at once, and no key stays marked after its task
\* (_run_task; this is all the mutual exclusion the settings have).
THEOREM OneTaskPerKeyAlways == Spec => []OneTaskPerKey
<1>1. TaskInv => OneTaskPerKey
  BY DEF TaskInv
<1>. QED
  BY <1>1, TaskInvInit, TaskInvNext, PTL DEF Spec

-----------------------------------------------------------------------------
(* Types: reading and writing the settings (NetSettings)                   *)

Adapters == Ifaces \cup {NoIface}
DnsValues == DnsServers \cup {Automatic}

LEMMA ResolveTypes ==
    ASSUME SettingsTypeOK, NEW i \in Adapters PROVE Resolve(i) \in Adapters
  BY DEF SettingsTypeOK, Resolve, Adapters

LEMMA EffectiveTypes ==
    ASSUME SettingsTypeOK, NEW i \in Ifaces PROVE Effective(i) \in Servers
  BY SettingsAssumption DEF SettingsTypeOK, Effective, Servers

\* get_dns_restore_state and get_proxy_settings, whatever fails.
LEMMA ReadTypes ==
    ASSUME SettingsTypeOK, NEW i \in Adapters
    PROVE  DnsReads(i) \subseteq Servers /\ ProxyReads \subseteq Registry
<1>1. Resolve(i) = NoIface \/ Effective(Resolve(i)) \in Servers
  BY ResolveTypes, EffectiveTypes DEF Adapters
<1>2. EmptyRegistry \in Registry
  BY DEF EmptyRegistry, Registry
<1>. QED
  BY <1>1, <1>2 DEF DnsReads, ProxyReads, Servers, SettingsTypeOK

LEMMA DnsCommandTypes ==
    ASSUME SettingsTypeOK, NEW i \in Adapters, NEW value \in DnsValues, NEW ok,
           DnsCommand(i, value, ok)
    PROVE  dns' \in [Ifaces -> DnsServers \cup {Automatic}]
  BY DEF DnsCommand, SettingsTypeOK, DnsValues

LEMMA DnsWriteTypes ==
    ASSUME SettingsTypeOK, NEW i \in Adapters, NEW servers, NEW ok,
           SetDns(i, servers, ok) \/ ClearDns(i, ok) \/ RestoreDns(i, servers, ok)
    PROVE  dns' \in [Ifaces -> DnsServers \cup {Automatic}]
<1>1. \A value \in DnsValues : DnsCommand(i, value, ok)
            => dns' \in [Ifaces -> DnsServers \cup {Automatic}]
  BY DnsCommandTypes
<1>. QED
  BY <1>1 DEF SetDns, ClearDns, RestoreDns, DnsValues, SettingsTypeOK

LEMMA RegistryWriteTypes ==
    ASSUME SettingsTypeOK, NEW new \in Registry, NEW ok, RegistryWrite(new, ok)
    PROVE  proxy' \in Registry
  BY DEF RegistryWrite, PartialWrites, SettingsTypeOK, Registry

LEMMA ProxyWriteTypes ==
    ASSUME SettingsTypeOK, NEW value, NEW ok,
           EnableProxy(value, ok) \/ DisableProxy(ok) \/ SetPac(value, ok)
    PROVE  proxy' \in Registry
<1>1. CASE EnableProxy(value, ok)
  <2>1. value \in Proxies => WithBypass([proxy EXCEPT !.enable = 1, !.server = value]) \in Registry
    BY DEF WithBypass, SettingsTypeOK, Registry
  <2>. QED
    BY <1>1, <2>1, RegistryWriteTypes DEF EnableProxy, SettingsTypeOK
<1>2. CASE DisableProxy(ok)
  <2>1. [proxy EXCEPT !.enable = 0] \in Registry
    BY DEF SettingsTypeOK, Registry
  <2>. QED
    BY <1>2, <2>1, RegistryWriteTypes DEF DisableProxy
<1>3. CASE SetPac(value, ok)
  <2>1. value \in Pacs => [proxy EXCEPT !.enable = 0, !.pac = value] \in Registry
    BY DEF SettingsTypeOK, Registry
  <2>. QED
    BY <1>3, <2>1, RegistryWriteTypes DEF SetPac, SettingsTypeOK
<1>. QED
  BY <1>1, <1>2, <1>3

-----------------------------------------------------------------------------
(* Types: the tasks and the monitor                                        *)

\* A worker at work has a click and a snapshot, however little of it is read.
TaskTypes ==
    /\ TasksTypeOK
    /\ \A w \in Workers : Live(w) => op[w] \in AllOps /\ snap[w] \in Snapshot

OpTypes == [kind : {"set_dns", "clear_dns", "set_proxy", "disable_proxy", "set_socks5",
                    "set_pac", "restore"},
            iface : Adapters,
            value : DnsServers \cup Proxies \cup Pacs \cup {Invalid, Automatic, Absent}]

LEMMA OpsAreTyped == AllOps \subseteq OpTypes
  BY DEF AllOps, OpTypes, Adapters

LEMMA WorkerSettingsTypes ==
    ASSUME SettingsTypeOK, TaskTypes, NEW w \in Workers, WorkerStep(w)
    PROVE  SettingsTypeOK'
<1>. USE DEF SettingsTypeOK
<1>1. CASE UNCHANGED settingsVars
  BY <1>1 DEF settingsVars
<1>2. CASE Change(w)
  <2>1. op[w] \in OpTypes
    BY <1>2, OpsAreTyped DEF Change, TaskTypes, Live
  <2>2. PICK ok \in BOOLEAN : ChangeSetting(op[w], ok)
    BY <1>2 DEF Change
  <2>3. op[w].iface \in Adapters
    BY <2>1 DEF OpTypes
  <2>4. dns' \in [Ifaces -> DnsServers \cup {Automatic}]
    BY <2>2, <2>3, DnsWriteTypes DEF ChangeSetting
  <2>5. proxy' \in Registry
    BY <2>2, ProxyWriteTypes DEF ChangeSetting
  <2>. QED
    BY <1>2, <2>4, <2>5 DEF Change
<1>3. CASE RollDns(w)
  <2>1. snap[w].iface \in Adapters
    BY <1>3 DEF RollDns, TaskTypes, Live, Snapshot, Adapters
  <2>2. dns' \in [Ifaces -> DnsServers \cup {Automatic}]
    BY <1>3, <2>1, DnsWriteTypes DEF RollDns
  <2>. QED
    BY <1>3, <2>2 DEF RollDns
<1>4. CASE RollProxy(w)
  <2>1. snap[w].proxy \in Registry
    BY <1>4 DEF RollProxy, TaskTypes, Live, Snapshot
  <2>2. proxy' \in Registry
    BY <1>4, <2>1, RegistryWriteTypes DEF RollProxy, RestoreProxy
  <2>. QED
    BY <1>4, <2>2 DEF RollProxy
<1>. QED
  BY <1>1, <1>2, <1>3, <1>4
     DEF WorkerStep, CaptureInterface, CaptureProxy, CaptureDns, Probe, Raise

\* A worker that goes on, with what it may have read.
LEMMA GoingOnTypes ==
    ASSUME TaskTypes, NEW w \in Workers, NEW step \in Steps, Live(w), Goto(w, step),
           NEW s \in Snapshot, snap' = [snap EXCEPT ![w] = s] \/ UNCHANGED snap,
           success' \in [Workers -> BOOLEAN], rolledBack' \in [Workers -> BOOLEAN],
           UNCHANGED workerFrame
    PROVE  TaskTypes'
  BY DEF TaskTypes, TasksTypeOK, Live, Goto, workerFrame

LEMMA WorkerTaskTypes ==
    ASSUME SettingsTypeOK, TaskTypes, NEW w \in Workers, WorkerStep(w)
    PROVE  TaskTypes'
<1>. USE DEF Steps
<1>1. Live(w)
  BY DEF WorkerStep, CaptureInterface, CaptureProxy, CaptureDns, Change, Probe, RollDns,
         RollProxy, Raise, Live
<1>2. snap[w] \in Snapshot /\ op[w] \in OpTypes
  BY <1>1, OpsAreTyped DEF TaskTypes
<1>3. success \in [Workers -> BOOLEAN] /\ rolledBack \in [Workers -> BOOLEAN]
  BY DEF TaskTypes, TasksTypeOK
<1>4. \A b \in BOOLEAN : [success EXCEPT ![w] = b] \in [Workers -> BOOLEAN]
  BY <1>3
<1>5. CASE CaptureInterface(w)
  <2>1. [snap[w] EXCEPT !.iface = Resolve(op[w].iface)] \in Snapshot
    BY <1>2, ResolveTypes DEF OpTypes, Snapshot, Adapters
  <2>2. snap' = [snap EXCEPT ![w] = [snap[w] EXCEPT !.iface = Resolve(op[w].iface)]]
    BY <1>5 DEF CaptureInterface
  <2>. QED
    BY <1>1, <1>3, <1>5, <2>1, <2>2, GoingOnTypes DEF CaptureInterface
<1>6. CASE CaptureProxy(w)
  <2>1. PICK reg \in ProxyReads : snap' = [snap EXCEPT ![w].proxy = reg]
    BY <1>6 DEF CaptureProxy
  <2>2. reg \in Registry
    BY <2>1, ReadTypes DEF Adapters
  <2>3. [snap[w] EXCEPT !.proxy = reg] \in Snapshot
    BY <1>2, <2>2 DEF Snapshot
  <2>4. snap' = [snap EXCEPT ![w] = [snap[w] EXCEPT !.proxy = reg]]
    BY <2>1
  <2>. QED
    BY <1>1, <1>3, <1>6, <2>3, <2>4, GoingOnTypes DEF CaptureProxy
<1>7. CASE CaptureDns(w)
  <2>1. PICK s \in DnsReads(snap[w].iface) : snap' = [snap EXCEPT ![w].dns = s]
    BY <1>7 DEF CaptureDns
  <2>2. s \in Servers
    BY <1>2, <2>1, ReadTypes DEF Adapters, Snapshot
  <2>3. [snap[w] EXCEPT !.dns = s] \in Snapshot
    BY <1>2, <2>2 DEF Snapshot
  <2>4. snap' = [snap EXCEPT ![w] = [snap[w] EXCEPT !.dns = s]]
    BY <2>1
  <2>. QED
    BY <1>1, <1>3, <1>7, <2>3, <2>4, GoingOnTypes DEF CaptureDns
<1>8. CASE Change(w)
  <2>1. PICK ok \in BOOLEAN : /\ success' = [success EXCEPT ![w] = ok]
                              /\ Goto(w, IF ok THEN "probe" ELSE "finish")
    BY <1>8 DEF Change
  <2>. QED
    BY <1>1, <1>2, <1>3, <1>4, <1>8, <2>1, GoingOnTypes DEF Change
<1>9. CASE Probe(w)
  <2>1. success' \in [Workers -> BOOLEAN] /\ rolledBack' \in [Workers -> BOOLEAN]
    BY <1>3, <1>9 DEF Probe
  <2>2. Goto(w, "roll_dns") \/ Goto(w, "finish")
    BY <1>9 DEF Probe
  <2>. QED
    BY <1>1, <1>2, <1>9, <2>1, <2>2, GoingOnTypes DEF Probe
<1>10. CASE RollDns(w)
  <2>1. PICK ok \in BOOLEAN : success' = [success EXCEPT ![w] = ok]
    BY <1>10 DEF RollDns
  <2>. QED
    BY <1>1, <1>2, <1>3, <1>4, <1>10, <2>1, GoingOnTypes DEF RollDns
<1>11. CASE RollProxy(w)
  <2>1. PICK ok \in BOOLEAN :
            success' = [success EXCEPT ![w] = op[w].kind = "restore" /\ BothOk(success[w], ok)]
    BY <1>11 DEF RollProxy
  <2>2. (op[w].kind = "restore" /\ BothOk(success[w], ok)) \in BOOLEAN
    BY Zenon DEF BothOk
  <2>. QED
    BY <1>1, <1>2, <1>3, <1>4, <1>11, <2>1, <2>2, GoingOnTypes DEF RollProxy
<1>12. CASE Raise(w)
  BY <1>1, <1>2, <1>3, <1>12, GoingOnTypes DEF Raise
<1>. QED
  BY <1>5, <1>6, <1>7, <1>8, <1>9, <1>10, <1>11, <1>12 DEF WorkerStep

LEMMA ClickTypes ==
    ASSUME SettingsTypeOK, TaskTypes, Click
    PROVE  SettingsTypeOK' /\ TaskTypes'
<1>1. PICK w \in Workers, o \in Ops : StartChange(w, o) \/ StartRestore(w, o)
  BY DEF Click
<1>2. o \in AllOps /\ Key(o) \in Keys
  BY OpsAssumption DEF Key, Keys
<1>3. RunTask(w, o) /\ (Goto(w, "interface") \/ Goto(w, "roll_dns"))
  BY <1>1 DEF StartChange, StartRestore
<1>4. BlankSnapshot \in Snapshot
  BY DEF BlankSnapshot, Snapshot, Servers, EmptyRegistry, Registry
<1>5. PICK s \in Snapshot : snap' = [snap EXCEPT ![w] = s]
  BY <1>1, <1>4 DEF StartChange, StartRestore, TaskTypes, TasksTypeOK
<1>6. SettingsTypeOK'
  BY <1>3 DEF RunTask, settingsVars, SettingsTypeOK
<1>7. TaskTypes'
  BY <1>2, <1>3, <1>5 DEF RunTask, Goto, TaskTypes, TasksTypeOK, Live, Steps
<1>. QED
  BY <1>6, <1>7

LEMMA FinishTypes ==
    ASSUME SettingsTypeOK, TaskTypes, NEW w \in Workers, Finish(w)
    PROVE  SettingsTypeOK' /\ TaskTypes'
<1>1. snap[w] \in Snapshot
  BY DEF Finish, TaskTypes, Live
<1>2. SettingsTypeOK'
  BY DEF Finish, settingsVars, SettingsTypeOK
<1>3. restorePoint' \in Snapshot \cup {NoSnapshot}
  BY <1>1 DEF Finish, TaskTypes, TasksTypeOK
<1>4. TaskTypes'
  BY <1>3 DEF Finish, ReleaseKey, Goto, TaskTypes, TasksTypeOK, Live, Steps
<1>. QED
  BY <1>2, <1>4

LEMMA GuiTypes ==
    ASSUME TypeOK, TaskTypes, GuiStep PROVE TypeOK' /\ TaskTypes'
<1>1. ASSUME Click PROVE SettingsTypeOK' /\ TaskTypes'
  BY <1>1, ClickTypes DEF TypeOK
<1>2. ASSUME NEW w \in Workers, WorkerStep(w) PROVE SettingsTypeOK' /\ TaskTypes'
  BY <1>2, WorkerSettingsTypes, WorkerTaskTypes DEF TypeOK
<1>3. ASSUME NEW w \in Workers, Finish(w) PROVE SettingsTypeOK' /\ TaskTypes'
  BY <1>3, FinishTypes DEF TypeOK
<1>4. ASSUME ToggleRollback PROVE SettingsTypeOK' /\ TaskTypes'
  <2>1. rollback' \in BOOLEAN
    BY <1>4, Zenon DEF ToggleRollback
  <2>2. UNCHANGED <<pc, op, snap, success, rolledBack, runningKeys, restorePoint, settingsVars>>
    BY <1>4 DEF ToggleRollback
  <2>. QED
    BY <2>1, <2>2 DEF settingsVars, TypeOK, SettingsTypeOK, TaskTypes, TasksTypeOK, Live
<1>5. SettingsTypeOK' /\ TaskTypes'
  BY <1>1, <1>2, <1>3, <1>4 DEF GuiStep
<1>6. MonitorTypeOK'
  BY DEF GuiStep, monitorVars, TypeOK, MonitorTypeOK
<1>. QED
  BY <1>5, <1>6 DEF TypeOK, TaskTypes

LEMMA PollTypes ==
    ASSUME TypeOK, Poll(rollback) PROVE MonitorTypeOK'
<1>1. mctx' \in Contexts /\ mpc' \in MonitorSteps
  BY DEF Poll, TypeOK, SettingsTypeOK, Contexts, MonitorSteps
<1>2. mok' \in BOOLEAN /\ mrollback' \in BOOLEAN
  BY DEF Poll, TypeOK, TasksTypeOK
<1>. QED
  BY <1>1, <1>2 DEF Poll, TypeOK, MonitorTypeOK

LEMMA MonitorTypes ==
    ASSUME TypeOK, MonitorStep PROVE SettingsTypeOK' /\ MonitorTypeOK'
<1>. USE DEF TypeOK, SettingsTypeOK, MonitorTypeOK, MonitorSteps, settingsVars
<1>1. mctx \in Adapters /\ mdnsIface \in Adapters
  BY DEF Contexts, Adapters
<1>2. CASE CapturePlanDns
  <2>1. mdns' \in Servers /\ mdnsIface' \in Contexts
    BY <1>1, <1>2, ReadTypes, ResolveTypes DEF CapturePlanDns, Adapters, Contexts
  <2>. QED
    BY <1>2, <2>1 DEF CapturePlanDns
<1>3. CASE CapturePlanProxy
  <2>1. mproxy' \in Registry
    BY <1>1, <1>3, ReadTypes DEF CapturePlanProxy
  <2>. QED
    BY <1>3, <2>1 DEF CapturePlanProxy
<1>4. CASE DnsStep
  <2>1. mok' \in BOOLEAN
    BY <1>4 DEF DnsStep
  <2>2. dns' \in [Ifaces -> DnsServers \cup {Automatic}]
    BY <1>1, <1>4, DnsWriteTypes DEF DnsStep
  <2>. QED
    BY <1>4, <2>1, <2>2 DEF DnsStep
<1>5. CASE ProxyStep
  <2>1. mok' \in BOOLEAN
    BY <1>5, Zenon DEF ProxyStep
  <2>2. proxy' \in Registry
    BY <1>5, ProxyWriteTypes DEF ProxyStep
  <2>3. /\ mpc' \in {"probe", "sleep"} /\ mresult' \in {mresult, "apply_failed"}
        /\ UNCHANGED <<mctx, mdns, mdnsIface, mproxy, mrollback, lastKey, dns, active>>
    BY <1>5 DEF ProxyStep
  <2>. QED
    BY <2>1, <2>2, <2>3
<1>6. CASE ProbePlan
  BY <1>6 DEF ProbePlan
<1>7. CASE RollPlanDns
  <2>1. dns' \in [Ifaces -> DnsServers \cup {Automatic}]
    BY <1>1, <1>7, DnsWriteTypes DEF RollPlanDns
  <2>. QED
    BY <1>7, <2>1 DEF RollPlanDns
<1>8. CASE RollPlanProxy
  <2>1. proxy' \in Registry
    BY <1>8, RegistryWriteTypes DEF RollPlanProxy, RestoreProxy
  <2>. QED
    BY <1>8, <2>1 DEF RollPlanProxy, ForgetKey
<1>. QED
  BY <1>2, <1>3, <1>4, <1>5, <1>6, <1>7, <1>8 DEF MonitorStep

LEMMA TypesInit == Init => TypeOK /\ TaskTypes
<1>. SUFFICES ASSUME Init PROVE TypeOK /\ TaskTypes
  OBVIOUS
<1>1. SettingsTypeOK
  BY SettingsAssumption DEF Init, SettingsInit, SettingsTypeOK
<1>2. TaskTypes
  BY DEF Init, TasksInit, TaskTypes, TasksTypeOK, Steps, Live
<1>3. MonitorTypeOK
  BY DEF Init, MonitorInit, MonitorTypeOK, MonitorSteps, Contexts, Servers,
         EmptyRegistry, Registry
<1>. QED
  BY <1>1, <1>2, <1>3 DEF TypeOK, TaskTypes

LEMMA TypesNext == TypeOK /\ TaskTypes /\ [Next]_vars => TypeOK' /\ TaskTypes'
<1>. SUFFICES ASSUME TypeOK, TaskTypes, [Next]_vars PROVE TypeOK' /\ TaskTypes'
  OBVIOUS
<1>1. ASSUME UNCHANGED taskVars PROVE TaskTypes'
  BY <1>1 DEF taskVars, TaskTypes, TasksTypeOK, Live
<1>2. CASE GuiStep
  BY <1>2, GuiTypes
<1>3. CASE AutoStep
  <2>1. CASE Poll(rollback)
    BY <1>1, <1>3, <2>1, PollTypes
       DEF AutoStep, Poll, settingsVars, TypeOK, SettingsTypeOK, TaskTypes
  <2>2. CASE MonitorStep
    BY <1>1, <1>3, <2>2, MonitorTypes DEF AutoStep, TypeOK, TaskTypes
  <2>. QED
    BY <1>3, <2>1, <2>2 DEF AutoStep
<1>4. CASE Environment
  BY <1>1, <1>4 DEF Environment, SwitchInterface, monitorVars, TypeOK, SettingsTypeOK,
                    MonitorTypeOK, TaskTypes
<1>5. CASE UNCHANGED vars
  BY <1>1, <1>5 DEF vars, settingsVars, monitorVars, TypeOK, SettingsTypeOK,
                    MonitorTypeOK, TaskTypes
<1>. QED
  BY <1>2, <1>3, <1>4, <1>5 DEF Next

\* For any workers, clicks, adapters, faults and profiles, whatever is written,
\* read, restored or half written is a setting Windows can hold, and a worker
\* at work has a click and a snapshot (core.py's setters, _run_task).
THEOREM TypesAlways == Spec => []TypeOK
  BY TypesInit, TypesNext, PTL DEF Spec

-----------------------------------------------------------------------------
(* One change at a time                                                    *)

\* One task runs at a time, the monitor applies no profile and the default
\* route stays where it is.
Serial ==
    /\ Patient \/ \A v, w \in Workers : v = w
    /\ ~MonitorOn
    /\ InterfaceFixed

OneLive == \A v, w \in Workers : Live(v) /\ Live(w) => v = w

\* A click that starts a task meets no other.
LEMMA NobodyAtClick ==
    ASSUME Serial, TaskInv, NEW w \in Workers, NEW o \in Ops,
           Patient => runningKeys \subseteq {Key(o)}, RunTask(w, o)
    PROVE  \A v \in Workers : pc[v] = "idle"
<1>1. CASE Patient
  <2>1. runningKeys = {}
    BY <1>1 DEF RunTask, MayStart
  <2>. QED
    BY <2>1 DEF TaskInv, OneTaskPerKey, Live
<1>2. CASE \A u, v \in Workers : u = v
  BY <1>2 DEF RunTask, Live
<1>. QED
  BY <1>1, <1>2 DEF Serial

\* While one worker goes on the others stay idle.
LEMMA OthersIdle ==
    ASSUME TaskInv, OneLive, NEW w \in Workers, NEW step, Goto(w, step),
           Live(w) \/ \A v \in Workers : pc[v] = "idle"
    PROVE  OneLive' /\ pc'[w] = step /\ \A v \in Workers \ {w} : pc'[v] = "idle"
<1>1. pc \in [Workers -> Steps]
  BY DEF TaskInv
<1>2. pc'[w] = step /\ \A v \in Workers \ {w} : pc'[v] = "idle"
  BY <1>1 DEF OneLive, Goto, Live
<1>. QED
  BY <1>2 DEF OneLive, Live

-----------------------------------------------------------------------------
(* Success is true                                                         *)

\* The worker has looked at the adapter, and may write to it.
HasAdapter(w) ==
    pc[w] \in {"read_proxy", "read_dns", "change", "probe", "roll_dns", "roll_proxy", "finish"}

DnsRestored(s) == dns[s.iface] = IF s.dns = NoServers THEN Automatic ELSE s.dns

\* What the success flag vouches for on the way: what was asked for is in force
\* at the probe, and the DNS half of a restore between its halves.
SuccessOf(w) ==
    /\ HasAdapter(w) => snap[w].iface \in Ifaces
    /\ pc[w] \in {"interface", "read_proxy", "read_dns", "change", "probe"} =>
            op[w].kind # "restore"
    /\ pc[w] = "probe" => InForce(op[w], snap[w])
    /\ pc[w] = "roll_proxy" /\ success[w] => DnsRestored(snap[w])
    /\ pc[w] = "finish" /\ success[w] => InForce(op[w], snap[w])

SuccessInv ==
    /\ OneLive
    /\ active \in Ifaces
    /\ restorePoint # NoSnapshot => restorePoint.iface \in Ifaces
    /\ \A w \in Workers : SuccessOf(w)

LEMMA IdleVouchesForNothing ==
    ASSUME NEW w, pc[w] = "idle" PROVE SuccessOf(w)
  BY DEF SuccessOf, HasAdapter

\* A change that reports success is in force.
LEMMA ChangeInForce ==
    ASSUME SettingsTypeOK, active \in Ifaces, NEW w \in Workers, op[w] \in AllOps,
           op[w].kind # "restore", ChangeSetting(op[w], TRUE), UNCHANGED <<op, snap, active>>
    PROVE  InForce(op[w], snap[w])'
<1>. USE SettingsAssumption DEF ChangeSetting, InForce, Resolve
<1>1. CASE op[w].kind = "set_dns"
  BY <1>1 DEF SetDns, DnsCommand, SettingsTypeOK, AllOps
<1>2. CASE op[w].kind = "clear_dns"
  <2>1. op[w].value = Automatic /\ op[w].iface \in Adapters
    BY <1>2 DEF AllOps, Adapters
  <2>. QED
    BY <1>2, <2>1 DEF ClearDns, DnsCommand, SettingsTypeOK, Adapters
<1>3. CASE op[w].kind \in {"set_proxy", "set_socks5"}
  BY <1>3 DEF EnableProxy, WithBypass, RegistryWrite, SettingsTypeOK, Registry
<1>4. CASE op[w].kind = "disable_proxy"
  BY <1>4 DEF DisableProxy, RegistryWrite, SettingsTypeOK, Registry
<1>5. CASE op[w].kind = "set_pac"
  BY <1>5 DEF SetPac, RegistryWrite, SettingsTypeOK, Registry
<1>6. op[w].kind \in {"set_dns", "clear_dns", "set_proxy", "set_socks5", "disable_proxy", "set_pac"}
  BY DEF AllOps
<1>. QED
  BY <1>1, <1>2, <1>3, <1>4, <1>5, <1>6

\* The DNS half of a rollback that reports success.
LEMMA RollbackRestoresDns ==
    ASSUME SettingsTypeOK, NEW w \in Workers, snap[w] \in Snapshot, snap[w].iface \in Ifaces,
           RestoreDns(snap[w].iface, snap[w].dns, TRUE), UNCHANGED snap
    PROVE  DnsRestored(snap[w])'
  BY SettingsAssumption
     DEF RestoreDns, SetDns, ClearDns, DnsCommand, DnsRestored, Resolve, SettingsTypeOK

LEMMA SuccessWorker ==
    ASSUME TypeOK, TaskTypes, TaskInv, SuccessInv, NEW w \in Workers, WorkerStep(w)
    PROVE  SuccessInv'
<1>1. Live(w)
  BY DEF WorkerStep, CaptureInterface, CaptureProxy, CaptureDns, Change, Probe, RollDns,
         RollProxy, Raise, Live
<1>2. op[w] \in AllOps /\ snap[w] \in Snapshot /\ OneLive /\ SuccessOf(w)
  BY <1>1 DEF TaskTypes, SuccessInv
<1>3. /\ snap \in [Workers -> Snapshot \cup {NoSnapshot}]
      /\ success \in [Workers -> BOOLEAN]
      /\ SettingsTypeOK
  BY DEF TypeOK, TaskTypes, TasksTypeOK
<1>4. UNCHANGED <<op, restorePoint, active>>
  BY DEF WorkerStep, CaptureInterface, CaptureProxy, CaptureDns, Change, Probe, RollDns,
         RollProxy, Raise, workerFrame, settingsVars
<1>5. ASSUME NEW step, Goto(w, step), (pc'[w] = step => SuccessOf(w)') PROVE SuccessInv'
  <2>1. OneLive' /\ pc'[w] = step /\ \A v \in Workers \ {w} : pc'[v] = "idle"
    BY <1>1, <1>2, <1>5, OthersIdle
  <2>2. \A v \in Workers \ {w} : SuccessOf(v)'
    BY <2>1 DEF SuccessOf, HasAdapter
  <2>. QED
    BY <1>4, <1>5, <2>1, <2>2 DEF SuccessInv
<1>6. CASE CaptureInterface(w)
  <2>1. Resolve(op[w].iface) \in Ifaces
    <3>1. op[w].iface \in Adapters
      BY <1>2, OpsAreTyped DEF OpTypes
    <3>. QED
      BY <3>1 DEF Resolve, SuccessInv, Adapters
  <2>2. snap'[w].iface \in Ifaces
    BY <1>2, <1>3, <1>6, <2>1 DEF CaptureInterface, Snapshot
  <2>3. pc'[w] = "read_proxy" => SuccessOf(w)'
    BY <1>2, <1>4, <1>6, <2>2 DEF SuccessOf, CaptureInterface
  <2>. QED
    BY <1>5, <1>6, <2>3 DEF CaptureInterface
<1>7. CASE CaptureProxy(w)
  <2>1. snap'[w].iface \in Ifaces
    BY <1>2, <1>3, <1>7 DEF CaptureProxy, SuccessOf, HasAdapter, Snapshot
  <2>2. pc'[w] = "read_dns" => SuccessOf(w)'
    BY <1>2, <1>4, <1>7, <2>1 DEF SuccessOf, CaptureProxy
  <2>. QED
    BY <1>5, <1>7, <2>2 DEF CaptureProxy
<1>8. CASE CaptureDns(w)
  <2>1. snap'[w].iface \in Ifaces
    BY <1>2, <1>3, <1>8 DEF CaptureDns, SuccessOf, HasAdapter, Snapshot
  <2>2. pc'[w] = "change" => SuccessOf(w)'
    BY <1>2, <1>4, <1>8, <2>1 DEF SuccessOf, CaptureDns
  <2>. QED
    BY <1>5, <1>8, <2>2 DEF CaptureDns
<1>9. CASE Change(w)
  <2>1. PICK ok \in BOOLEAN : /\ ChangeSetting(op[w], ok)
                              /\ success' = [success EXCEPT ![w] = ok]
                              /\ Goto(w, IF ok THEN "probe" ELSE "finish")
    BY <1>9 DEF Change
  <2>2. op[w].kind # "restore" /\ snap[w].iface \in Ifaces /\ UNCHANGED snap
    BY <1>2, <1>9 DEF Change, SuccessOf, HasAdapter, workerFrame
  <2>3. CASE ok = TRUE
    <3>1. InForce(op[w], snap[w])'
      BY <1>2, <1>3, <1>4, <2>1, <2>2, <2>3, ChangeInForce DEF SuccessInv
    <3>2. pc'[w] = "probe" => SuccessOf(w)'
      BY <1>4, <2>2, <3>1 DEF SuccessOf
    <3>. QED
      BY <1>5, <2>1, <2>3, <3>2
  <2>4. CASE ok = FALSE
    <3>1. pc'[w] = "finish" => SuccessOf(w)'
      BY <1>3, <1>4, <2>1, <2>2, <2>4 DEF SuccessOf
    <3>. QED
      BY <1>5, <2>1, <2>4, <3>1
  <2>. QED
    BY <2>3, <2>4
<1>10. CASE Probe(w)
  <2>1. snap[w].iface \in Ifaces /\ op[w].kind # "restore" /\ InForce(op[w], snap[w])
    BY <1>2, <1>10 DEF Probe, SuccessOf, HasAdapter
  <2>2. UNCHANGED <<snap, dns, proxy>>
    BY <1>10 DEF Probe, settingsVars
  <2>3. InForce(op[w], snap[w])'
    BY <1>4, <2>1, <2>2 DEF InForce, Resolve
  <2>4. pc'[w] \in {"roll_dns", "finish"} => SuccessOf(w)'
    BY <1>4, <2>1, <2>2, <2>3 DEF SuccessOf
  <2>. QED
    BY <1>5, <1>10, <2>4 DEF Probe
<1>11. CASE RollDns(w)
  <2>1. PICK ok \in BOOLEAN : /\ RestoreDns(snap[w].iface, snap[w].dns, ok)
                              /\ success' = [success EXCEPT ![w] = ok]
    BY <1>11 DEF RollDns
  <2>2. snap[w].iface \in Ifaces /\ UNCHANGED snap
    BY <1>2, <1>11 DEF RollDns, SuccessOf, HasAdapter, workerFrame
  <2>3. success'[w] => DnsRestored(snap[w])'
    <3>1. CASE ok = TRUE
      BY <1>2, <1>3, <2>1, <2>2, <3>1, RollbackRestoresDns
    <3>2. CASE ok = FALSE
      BY <1>3, <2>1, <3>2
    <3>. QED
      BY <3>1, <3>2
  <2>4. pc'[w] = "roll_proxy" => SuccessOf(w)'
    BY <2>2, <2>3 DEF SuccessOf
  <2>. QED
    BY <1>5, <1>11, <2>4 DEF RollDns
<1>12. CASE RollProxy(w)
  <2>1. PICK ok \in BOOLEAN :
            /\ RestoreProxy(snap[w].proxy, ok)
            /\ success' = [success EXCEPT ![w] = op[w].kind = "restore" /\ BothOk(success[w], ok)]
    BY <1>12 DEF RollProxy
  <2>2. snap[w].iface \in Ifaces /\ UNCHANGED <<snap, dns>>
    BY <1>2, <1>12 DEF RollProxy, SuccessOf, HasAdapter
  <2>3. success'[w] => op[w].kind = "restore" /\ success[w] /\ ok
    BY <1>3, <2>1 DEF BothOk
  <2>4. success'[w] => InForce(op[w], snap[w])'
    <3>. SUFFICES ASSUME success'[w] PROVE InForce(op[w], snap[w])'
      OBVIOUS
    <3>1. DnsRestored(snap[w])
      BY <1>2, <1>12, <2>3 DEF RollProxy, SuccessOf
    <3>2. proxy' = snap[w].proxy
      BY <2>1, <2>3 DEF RestoreProxy, RegistryWrite
    <3>. QED
      BY <1>4, <2>2, <2>3, <3>1, <3>2 DEF InForce, DnsRestored
  <2>5. pc'[w] = "finish" => SuccessOf(w)'
    BY <2>2, <2>4 DEF SuccessOf
  <2>. QED
    BY <1>5, <1>12, <2>5 DEF RollProxy
<1>13. CASE Raise(w)
  <2>1. pc'[w] = "raised" => SuccessOf(w)'
    BY DEF SuccessOf, HasAdapter
  <2>. QED
    BY <1>5, <1>13, <2>1 DEF Raise
<1>. QED
  BY <1>6, <1>7, <1>8, <1>9, <1>10, <1>11, <1>12, <1>13 DEF WorkerStep

LEMMA SuccessNext ==
    ASSUME Serial, TypeOK, TaskTypes, TaskInv, SuccessInv, [Next]_vars
    PROVE  SuccessInv'
<1>1. ASSUME NEW w \in Workers, NEW o \in Ops, StartChange(w, o) \/ StartRestore(w, o),
             Patient => runningKeys \subseteq {Key(o)}
      PROVE  SuccessInv'
  <2>1. RunTask(w, o) /\ op' = [op EXCEPT ![w] = o] /\ UNCHANGED <<restorePoint, active>>
    BY <1>1 DEF StartChange, StartRestore, RunTask, settingsVars
  <2>2. \A v \in Workers : pc[v] = "idle"
    BY <1>1, <2>1, NobodyAtClick
  <2>3. PICK step \in {"interface", "roll_dns"} : Goto(w, step)
    BY <1>1 DEF StartChange, StartRestore
  <2>4. OneLive' /\ pc'[w] = step /\ \A v \in Workers \ {w} : pc'[v] = "idle"
    BY <2>2, <2>3, OthersIdle DEF SuccessInv
  <2>5. \A v \in Workers \ {w} : SuccessOf(v)'
    BY <2>4 DEF SuccessOf, HasAdapter
  <2>6. SuccessOf(w)'
    <3>1. op'[w] = o
      BY <2>1 DEF TaskInv
    <3>2. CASE StartChange(w, o)
      <4>1. pc'[w] = "interface" /\ o.kind # "restore"
        BY <3>2 DEF StartChange, Goto, TaskInv
      <4>. QED
        BY <3>1, <4>1 DEF SuccessOf, HasAdapter
    <3>3. CASE StartRestore(w, o)
      <4>1. pc'[w] = "roll_dns" /\ snap'[w].iface \in Ifaces
        BY <3>3 DEF StartRestore, Goto, TaskInv, SuccessInv, TaskTypes, TasksTypeOK
      <4>. QED
        BY <4>1 DEF SuccessOf, HasAdapter
    <3>. QED
      BY <1>1, <3>2, <3>3
  <2>. QED
    BY <2>1, <2>4, <2>5, <2>6 DEF SuccessInv
<1>2. ASSUME NEW w \in Workers, Finish(w) PROVE SuccessInv'
  <2>1. OneLive' /\ \A v \in Workers : pc'[v] = "idle"
    BY <1>2, OthersIdle DEF Finish, SuccessInv, Live
  <2>2. \A v \in Workers : SuccessOf(v)'
    BY <2>1 DEF SuccessOf, HasAdapter
  <2>3. restorePoint' = restorePoint \/ (restorePoint' = snap[w] /\ snap[w].iface \in Ifaces)
    BY <1>2 DEF Finish, SuccessInv, SuccessOf, HasAdapter
  <2>. QED
    BY <1>2, <2>1, <2>2, <2>3 DEF Finish, SuccessInv, settingsVars
<1>3. ASSUME UNCHANGED <<pc, op, snap, success, rolledBack, runningKeys, restorePoint, settingsVars>>
      PROVE  SuccessInv'
  <2>1. /\ pc' = pc /\ op' = op /\ snap' = snap /\ success' = success
        /\ restorePoint' = restorePoint /\ dns' = dns /\ proxy' = proxy /\ active' = active
    BY <1>3 DEF settingsVars
  <2>2. OneLive'
    BY <2>1 DEF SuccessInv, OneLive, Live
  <2>3. ASSUME NEW w \in Workers PROVE SuccessOf(w)'
    <3>1. SuccessOf(w)
      BY DEF SuccessInv
    <3>2. InForce(op[w], snap[w])' <=> InForce(op[w], snap[w])
      BY <2>1 DEF InForce, Resolve
    <3>3. DnsRestored(snap[w])' <=> DnsRestored(snap[w])
      BY <2>1 DEF DnsRestored
    <3>. QED
      BY <2>1, <3>1, <3>2, <3>3 DEF SuccessOf, HasAdapter
  <2>. QED
    BY <2>1, <2>2, <2>3 DEF SuccessInv
<1>4. CASE UNCHANGED vars
  BY <1>3, <1>4 DEF vars, taskVars
<1>5. CASE GuiStep
  BY <1>1, <1>2, <1>3, <1>5, SuccessWorker DEF GuiStep, Click, ToggleRollback
<1>. QED
  BY <1>4, <1>5 DEF Next, AutoStep, Environment, Serial

\* Whatever fails on the way, a task that runs alone and ends with the success
\* toast has left what was asked for in force, for any clicks and adapters
\* (_apply_deadman_rollback, _restore_snapshot_values).
THEOREM SuccessIsTrueAlways ==
    ASSUME Serial PROVE Spec => []SuccessIsTrue
<1>1. Init => SuccessInv
  BY SettingsAssumption DEF Init, TasksInit, SettingsInit, SuccessInv, SuccessOf, OneLive, Live,
     HasAdapter
<1>2. TypeOK /\ TaskTypes /\ TaskInv /\ SuccessInv /\ [Next]_vars => SuccessInv'
  BY SuccessNext
<1>3. SuccessInv => SuccessIsTrue
  BY DEF SuccessInv, SuccessOf, SuccessIsTrue
<1>. QED
  BY <1>1, <1>2, <1>3, TypesInit, TypesNext, TaskInvInit, TaskInvNext, PTL DEF Spec

-----------------------------------------------------------------------------
(* The dead-man rollback                                                   *)

\* Nothing fails, the rollback is on, and the machine is connected at first:
\* what DHCP hands out resolves, and the proxies forward.
Working(s) ==
    /\ s.iface \in Ifaces
    /\ s.dns \in DnsServers
    /\ s.iface = active => Resolves(s.dns)
    /\ s.proxy.enable = 1 => s.proxy.server \notin BadProxies

Dependable ==
    /\ Serial
    /\ Faults = {}
    /\ RollbackFixed
    /\ \A reg \in InitialProxies : ProbeSucceeds(DhcpServers, reg)
    /\ Resolves(DhcpServers)

\* Between the change and the verdict the machine may be cut off.
AtRisk(w) == pc[w] \in {"probe", "roll_dns", "roll_proxy"}

\* A snapshot is of the machine before the change, and of a machine that worked;
\* what a worker has not written yet is in the snapshot or works.
Careful(w) ==
    /\ pc[w] # "raised"
    /\ pc[w] \in {"interface", "read_proxy", "read_dns", "change", "probe"} =>
            op[w].kind # "restore" /\ ~rolledBack[w]
    /\ pc[w] \in {"read_proxy", "read_dns", "change"} => snap[w].iface = Resolve(op[w].iface)
    /\ pc[w] \in {"read_dns", "change"} => snap[w].proxy = proxy
    /\ pc[w] = "change" => snap[w].dns = Effective(snap[w].iface)
    /\ pc[w] = "probe" => success[w]
    /\ AtRisk(w) => Working(snap[w])
    /\ pc[w] \in {"probe", "roll_dns"} => snap[w].iface = active \/ Resolves(Effective(active))
    /\ pc[w] = "roll_proxy" =>
            Resolves(Effective(active)) /\ dns[snap[w].iface] = snap[w].dns
    /\ pc[w] \in {"roll_dns", "roll_proxy"} =>
            IF op[w].kind = "restore" THEN snap[w] = restorePoint /\ ~rolledBack[w]
                                      ELSE rolledBack[w]
    /\ Decided(w) => Working(snap[w])
    /\ pc[w] = "finish" /\ rolledBack[w] =>
            /\ ~success[w] /\ op[w].kind # "restore"
            /\ snap[w].dns = Effective(snap[w].iface) /\ snap[w].proxy = proxy

RollbackInv ==
    /\ OneLive
    /\ active \in Ifaces
    /\ rollback
    /\ restorePoint # NoSnapshot => Working(restorePoint)
    /\ (\A w \in Workers : ~AtRisk(w)) => Connected
    /\ \A w \in Workers : Careful(w)

\* Without faults a write does what it says, or was refused before it began.
LEMMA SureDnsCommand ==
    ASSUME Faults = {}, SettingsTypeOK, NEW i, NEW value, NEW ok,
           Resolve(i) \in Ifaces, DnsCommand(i, value, ok)
    PROVE  ok /\ dns' = [dns EXCEPT ![Resolve(i)] = value]
  BY SettingsAssumption DEF DnsCommand

LEMMA SureRegistryWrite ==
    ASSUME Faults = {}, NEW new, NEW ok, RegistryWrite(new, ok)
    PROVE  ok /\ proxy' = new
  BY DEF RegistryWrite

LEMMA SureReads ==
    ASSUME Faults = {}, NEW i \in Ifaces
    PROVE  DnsReads(i) = {Effective(i)} /\ ProxyReads = {proxy} /\ CheckResults = {Connected}
  BY SettingsAssumption DEF DnsReads, ProxyReads, CheckResults, Resolve

LEMMA SureRestoreDns ==
    ASSUME Faults = {}, SettingsTypeOK, NEW i \in Ifaces, NEW s \in DnsServers, NEW ok,
           RestoreDns(i, s, ok)
    PROVE  dns' = [dns EXCEPT ![i] = s]
<1>1. s # NoServers /\ Resolve(i) = i
  BY SettingsAssumption DEF Resolve
<1>2. DnsCommand(i, s, ok)
  BY <1>1 DEF RestoreDns, SetDns
<1>. QED
  BY <1>1, <1>2, SureDnsCommand

\* A change that reports failure then changed nothing; one that reports success
\* left the DNS of every adapter alone but that of the one it is about.
LEMMA SureChange ==
    ASSUME Faults = {}, SettingsTypeOK, active \in Ifaces, NEW o \in AllOps, NEW ok \in BOOLEAN,
           ChangeSetting(o, ok)
    PROVE  /\ ~ok => UNCHANGED <<dns, proxy>>
           /\ \A i \in Ifaces \ {Resolve(o.iface)} : dns'[i] = dns[i]
<1>. USE DEF ChangeSetting
<1>1. Resolve(o.iface) \in Ifaces
  <2>1. o.iface \in Adapters
    BY OpsAreTyped DEF OpTypes
  <2>. QED
    BY <2>1 DEF Resolve, Adapters
<1>2. CASE o.kind \in {"set_dns", "clear_dns"}
  <2>1. CASE \E value : DnsCommand(o.iface, value, ok)
    <3>1. PICK value : DnsCommand(o.iface, value, ok)
      BY <2>1
    <3>2. ok /\ dns' = [dns EXCEPT ![Resolve(o.iface)] = value]
      BY <1>1, <3>1, SureDnsCommand
    <3>. QED
      BY <3>2 DEF SettingsTypeOK
  <2>2. CASE ~ok /\ UNCHANGED dns
    BY <1>2, <2>2
  <2>. QED
    BY <1>2, <2>1, <2>2 DEF SetDns, ClearDns
<1>3. CASE o.kind \notin {"set_dns", "clear_dns"}
  <2>1. UNCHANGED dns
    BY <1>3
  <2>2. ~ok => UNCHANGED proxy
    BY <1>3, SureRegistryWrite DEF EnableProxy, DisableProxy, SetPac
  <2>. QED
    BY <2>1, <2>2
<1>. QED
  BY <1>2, <1>3

LEMMA ServersAreServers ==
    ASSUME Dependable, SettingsTypeOK, NEW i \in Ifaces PROVE Effective(i) \in DnsServers
  BY DEF Dependable, Resolves, Effective, SettingsTypeOK

LEMMA IdleIsCareful ==
    ASSUME NEW w, pc[w] = "idle" PROVE Careful(w) /\ ~AtRisk(w)
  BY DEF Careful, AtRisk, Decided

\* Worker w goes to step, carefully, and the others are idle.
LEMMA CarefulStep ==
    ASSUME TaskInv, RollbackInv, NEW w \in Workers, NEW step, Goto(w, step),
           Live(w) \/ \A v \in Workers : pc[v] = "idle",
           UNCHANGED <<active, rollback>>,
           restorePoint' # NoSnapshot => Working(restorePoint)',
           pc'[w] = step => Careful(w)',
           step \notin {"probe", "roll_dns", "roll_proxy"} => Connected'
    PROVE  RollbackInv'
<1>1. OneLive' /\ pc'[w] = step /\ \A v \in Workers \ {w} : pc'[v] = "idle"
  BY OthersIdle DEF RollbackInv
<1>2. \A v \in Workers \ {w} : Careful(v)'
  BY <1>1 DEF Careful, Decided, AtRisk
<1>3. (\A v \in Workers : ~AtRisk(v)') => Connected'
  BY <1>1 DEF AtRisk
<1>. QED
  BY <1>1, <1>2, <1>3 DEF RollbackInv

\* Capturing reads the machine as it is.
LEMMA CaptureIsExact ==
    ASSUME Dependable, TypeOK, TaskTypes, TaskInv, RollbackInv, NEW w \in Workers,
           CaptureInterface(w) \/ CaptureProxy(w) \/ CaptureDns(w)
    PROVE  RollbackInv'
<1>. USE DEF workerFrame, settingsVars
<1>1. /\ Live(w) /\ UNCHANGED <<active, rollback, restorePoint, dns, proxy, op, success, rolledBack>>
  BY DEF CaptureInterface, CaptureProxy, CaptureDns, Live
<1>2. /\ op[w] \in OpTypes /\ snap[w] \in Snapshot
      /\ snap \in [Workers -> Snapshot \cup {NoSnapshot}]
      /\ SettingsTypeOK /\ Careful(w) /\ active \in Ifaces
  BY <1>1, OpsAreTyped DEF TaskTypes, TypeOK, TasksTypeOK, RollbackInv
<1>3. restorePoint' # NoSnapshot => Working(restorePoint)'
  BY <1>1 DEF RollbackInv, Working
<1>4. Connected'
  <2>1. ~AtRisk(w)
    BY DEF CaptureInterface, CaptureProxy, CaptureDns, AtRisk
  <2>2. \A v \in Workers : ~AtRisk(v)
    BY <1>1, <2>1 DEF RollbackInv, OneLive, Live, AtRisk
  <2>. QED
    BY <1>1, <2>2 DEF RollbackInv, Connected, Effective
<1>5. Resolve(op[w].iface) \in Ifaces
  BY <1>2 DEF OpTypes, Resolve, Adapters
<1>6. CASE CaptureInterface(w)
  <2>1. snap'[w].iface = Resolve(op[w].iface)
    BY <1>2, <1>6 DEF CaptureInterface, Snapshot
  <2>2. pc'[w] = "read_proxy" => Careful(w)'
    BY <1>1, <1>2, <1>6, <2>1 DEF Careful, CaptureInterface, AtRisk, Decided, Resolve
  <2>. QED
    BY <1>1, <1>3, <1>4, <1>6, <2>2, CarefulStep DEF CaptureInterface
<1>7. CASE CaptureProxy(w)
  <2>1. snap' = [snap EXCEPT ![w].proxy = proxy]
    BY <1>5, <1>7, SureReads DEF CaptureProxy, Dependable
  <2>2. snap'[w].proxy = proxy /\ snap'[w].iface = Resolve(op[w].iface)
    BY <1>2, <1>7, <2>1 DEF CaptureProxy, Snapshot, Careful
  <2>3. pc'[w] = "read_dns" => Careful(w)'
    BY <1>1, <1>2, <1>7, <2>2 DEF Careful, CaptureProxy, AtRisk, Decided, Resolve
  <2>. QED
    BY <1>1, <1>3, <1>4, <1>7, <2>3, CarefulStep DEF CaptureProxy
<1>8. CASE CaptureDns(w)
  <2>1. snap[w].iface = Resolve(op[w].iface) /\ snap[w].proxy = proxy
    BY <1>2, <1>8 DEF CaptureDns, Careful
  <2>2. snap' = [snap EXCEPT ![w].dns = Effective(snap[w].iface)]
    <3>1. snap[w].iface \in Ifaces
      BY <1>5, <2>1
    <3>2. DnsReads(snap[w].iface) = {Effective(snap[w].iface)}
      BY <3>1, SureReads DEF Dependable
    <3>. QED
      BY <1>8, <3>2 DEF CaptureDns
  <2>3. /\ snap'[w].proxy = proxy /\ snap'[w].iface = Resolve(op[w].iface)
        /\ snap'[w].dns = Effective(snap'[w].iface)
    BY <1>2, <2>1, <2>2 DEF Snapshot
  <2>4. pc'[w] = "change" => Careful(w)'
    BY <1>1, <1>2, <1>8, <2>3 DEF Careful, CaptureDns, AtRisk, Decided, Resolve, Effective
  <2>. QED
    BY <1>1, <1>3, <1>4, <1>8, <2>4, CarefulStep DEF CaptureDns
<1>. QED
  BY <1>6, <1>7, <1>8

\* The change puts at risk what the snapshot has.
LEMMA ChangeIsCareful ==
    ASSUME Dependable, TypeOK, TaskTypes, TaskInv, RollbackInv, NEW w \in Workers, Change(w)
    PROVE  RollbackInv'
<1>1. /\ Live(w) /\ UNCHANGED <<active, rollback, restorePoint, op, snap, rolledBack>>
  BY DEF Change, Live, workerFrame
<1>2. /\ op[w] \in AllOps /\ op[w] \in OpTypes /\ snap[w] \in Snapshot
      /\ success \in [Workers -> BOOLEAN]
      /\ SettingsTypeOK /\ Careful(w) /\ active \in Ifaces
  BY <1>1, OpsAreTyped DEF TaskTypes, TypeOK, TasksTypeOK, RollbackInv
<1>3. restorePoint' # NoSnapshot => Working(restorePoint)'
  BY <1>1 DEF RollbackInv, Working
<1>4. Connected
  <2>1. \A v \in Workers : ~AtRisk(v)
    BY <1>1 DEF RollbackInv, OneLive, Live, AtRisk, Change
  <2>. QED
    BY <2>1 DEF RollbackInv
<1>5. Resolve(op[w].iface) \in Ifaces
  BY <1>2 DEF OpTypes, Resolve, Adapters
<1>6. /\ op[w].kind # "restore" /\ ~rolledBack[w]
      /\ snap[w].iface = Resolve(op[w].iface) /\ snap[w].proxy = proxy
      /\ snap[w].dns = Effective(snap[w].iface)
  BY <1>2 DEF Change, Careful
<1>7. Working(snap[w])
  BY <1>2, <1>4, <1>5, <1>6, ServersAreServers DEF Working, Connected, ProbeSucceeds
<1>8. PICK ok \in BOOLEAN : /\ ChangeSetting(op[w], ok)
                            /\ success' = [success EXCEPT ![w] = ok]
                            /\ Goto(w, IF ok THEN "probe" ELSE "finish")
  BY DEF Change
<1>9. /\ ~ok => UNCHANGED <<dns, proxy>>
      /\ \A i \in Ifaces \ {snap[w].iface} : dns'[i] = dns[i]
  BY <1>2, <1>6, <1>8, SureChange DEF Dependable
<1>10. CASE ok = TRUE
  <2>1. snap[w].iface = active \/ Resolves(Effective(active))'
    BY <1>1, <1>2, <1>4, <1>9 DEF Connected, ProbeSucceeds, Effective, Resolves
  <2>2. Working(snap[w])'
    BY <1>1, <1>7 DEF Working
  <2>3. success'[w]
    BY <1>2, <1>8, <1>10
  <2>4. pc'[w] = "probe" => Careful(w)'
    BY <1>1, <1>6, <2>1, <2>2, <2>3 DEF Careful, AtRisk, Decided
  <2>. QED
    BY <1>1, <1>3, <1>8, <1>10, <2>4, CarefulStep
<1>11. CASE ok = FALSE
  <2>1. Connected'
    BY <1>1, <1>4, <1>9, <1>11 DEF Connected, Effective
  <2>2. ~success'[w]
    BY <1>2, <1>8, <1>11
  <2>3. pc'[w] = "finish" => Careful(w)'
    BY <1>1, <1>6, <2>2 DEF Careful, AtRisk, Decided
  <2>. QED
    BY <1>1, <1>3, <1>8, <1>11, <2>1, <2>3, CarefulStep
<1>. QED
  BY <1>10, <1>11

LEMMA RollbackIsCareful ==
    ASSUME Dependable, TypeOK, TaskTypes, TaskInv, RollbackInv, NEW w \in Workers,
           Probe(w) \/ RollDns(w) \/ RollProxy(w)
    PROVE  RollbackInv'
<1>. USE DEF workerFrame, settingsVars
<1>1. /\ Live(w) /\ UNCHANGED <<active, rollback, restorePoint, op, snap>>
  BY DEF Probe, RollDns, RollProxy, Live
<1>2. /\ success \in [Workers -> BOOLEAN] /\ rolledBack \in [Workers -> BOOLEAN]
      /\ SettingsTypeOK /\ Careful(w) /\ active \in Ifaces /\ rollback
  BY DEF TypeOK, TaskTypes, TasksTypeOK, RollbackInv
<1>3. restorePoint' # NoSnapshot => Working(restorePoint)'
  BY <1>1 DEF RollbackInv, Working
<1>4. Working(snap[w]) /\ Working(snap[w])'
  BY <1>1, <1>2 DEF Probe, RollDns, RollProxy, Careful, AtRisk, Working
<1>5. CASE Probe(w)
  <2>1. PICK online \in {Connected} :
            IF ~online
            THEN /\ Goto(w, "roll_dns")
                 /\ success' = [success EXCEPT ![w] = FALSE]
                 /\ rolledBack' = [rolledBack EXCEPT ![w] = TRUE]
            ELSE Goto(w, "finish") /\ UNCHANGED <<success, rolledBack>>
    BY <1>2, <1>5, SureReads DEF Probe, Dependable
  <2>2. /\ op[w].kind # "restore" /\ ~rolledBack[w] /\ UNCHANGED <<dns, proxy>>
        /\ snap[w].iface = active \/ Resolves(Effective(active))
    BY <1>2, <1>5 DEF Probe, Careful
  <2>3. CASE Connected
    <3>1. Connected'
      BY <1>1, <2>2, <2>3 DEF Connected, Effective
    <3>2. Goto(w, "finish") /\ UNCHANGED <<success, rolledBack>>
      BY <2>1, <2>3
    <3>3. pc'[w] = "finish" => Careful(w)'
      BY <1>1, <1>4, <2>2, <3>2 DEF Careful, AtRisk, Decided
    <3>. QED
      BY <1>1, <1>3, <3>1, <3>2, <3>3, CarefulStep
  <2>4. CASE ~Connected
    <3>1. Goto(w, "roll_dns") /\ rolledBack'[w]
      BY <1>2, <2>1, <2>4
    <3>2. (snap[w].iface = active \/ Resolves(Effective(active)))'
      BY <1>1, <2>2 DEF Effective
    <3>3. pc'[w] = "roll_dns" => Careful(w)'
      BY <1>1, <1>4, <2>2, <3>1, <3>2 DEF Careful, AtRisk, Decided
    <3>. QED
      BY <1>1, <1>3, <3>1, <3>3, CarefulStep
  <2>. QED
    BY <2>3, <2>4
<1>6. CASE RollDns(w)
  <2>1. dns' = [dns EXCEPT ![snap[w].iface] = snap[w].dns]
    BY <1>2, <1>4, <1>6, SureRestoreDns DEF RollDns, Working, Dependable
  <2>2. dns'[snap[w].iface] = snap[w].dns /\ Effective(snap[w].iface)' = snap[w].dns
    BY <1>1, <1>2, <1>4, <2>1, SettingsAssumption DEF Effective, Working, SettingsTypeOK
  <2>3. Resolves(Effective(active))'
    <3>1. CASE snap[w].iface = active
      BY <1>1, <1>4, <2>2, <3>1 DEF Working
    <3>2. CASE snap[w].iface # active
      BY <1>1, <1>2, <1>6, <2>1, <3>2 DEF RollDns, Careful, Effective, Resolves, SettingsTypeOK
    <3>. QED
      BY <3>1, <3>2
  <2>4. /\ IF op[w].kind = "restore" THEN snap[w] = restorePoint /\ ~rolledBack[w]
                                     ELSE rolledBack[w]
        /\ UNCHANGED rolledBack
    BY <1>2, <1>6 DEF RollDns, Careful
  <2>5. pc'[w] = "roll_proxy" => Careful(w)'
    BY <1>1, <1>4, <2>2, <2>3, <2>4 DEF Careful, AtRisk, Decided
  <2>. QED
    BY <1>1, <1>3, <1>6, <2>5, CarefulStep DEF RollDns
<1>7. CASE RollProxy(w)
  <2>1. PICK ok \in BOOLEAN :
            /\ RestoreProxy(snap[w].proxy, ok)
            /\ success' = [success EXCEPT ![w] = op[w].kind = "restore" /\ BothOk(success[w], ok)]
    BY <1>7 DEF RollProxy
  <2>2. proxy' = snap[w].proxy
    BY <2>1, SureRegistryWrite DEF RestoreProxy, Dependable
  <2>3. /\ Resolves(Effective(active)) /\ Effective(snap[w].iface) = snap[w].dns
        /\ op[w].kind = "restore" => ~rolledBack[w]
        /\ UNCHANGED <<rolledBack, dns>>
    BY <1>2, <1>4, <1>7, SettingsAssumption DEF RollProxy, Careful, Effective, Working
  <2>4. op[w].kind # "restore" => ~success'[w]
    BY <1>2, <2>1
  <2>5. Connected'
    <3>1. active \in Ifaces /\ active # NoIface
      BY <1>2, SettingsAssumption
    <3>. QED
      BY <1>1, <1>4, <2>2, <2>3, <3>1 DEF Connected, ProbeSucceeds, Working, Effective, Resolves
  <2>6. (snap[w].dns = Effective(snap[w].iface))' /\ (snap[w].proxy = proxy)'
    BY <1>1, <2>2, <2>3 DEF Effective
  <2>7. pc'[w] = "finish" => Careful(w)'
    BY <1>1, <1>4, <2>3, <2>4, <2>6 DEF Careful, AtRisk, Decided
  <2>. QED
    BY <1>1, <1>3, <1>7, <2>5, <2>7, CarefulStep DEF RollProxy
<1>. QED
  BY <1>5, <1>6, <1>7

LEMMA RollbackNext ==
    ASSUME Dependable, TypeOK, TaskTypes, TaskInv, RollbackInv, [Next]_vars
    PROVE  RollbackInv'
<1>1. ASSUME NEW w \in Workers, NEW o \in Ops, StartChange(w, o) \/ StartRestore(w, o),
             Patient => runningKeys \subseteq {Key(o)}
      PROVE  RollbackInv'
  <2>1. /\ RunTask(w, o)
        /\ op' = [op EXCEPT ![w] = o] /\ rolledBack' = [rolledBack EXCEPT ![w] = FALSE]
        /\ UNCHANGED <<restorePoint, rollback, active, dns, proxy>>
    BY <1>1 DEF StartChange, StartRestore, RunTask, settingsVars
  <2>2. \A v \in Workers : pc[v] = "idle"
    BY <1>1, <2>1, NobodyAtClick DEF Dependable
  <2>3. Connected /\ Connected'
    BY <2>1, <2>2 DEF RollbackInv, AtRisk, Connected, Effective
  <2>4. restorePoint' # NoSnapshot => Working(restorePoint) /\ Working(restorePoint)'
    BY <2>1 DEF RollbackInv, Working
  <2>5. op'[w] = o /\ ~rolledBack'[w]
    BY <2>1 DEF TaskInv, TaskTypes, TasksTypeOK
  <2>6. CASE StartChange(w, o)
    <3>1. pc'[w] = "interface" => Careful(w)'
      BY <2>5, <2>6 DEF Careful, StartChange, AtRisk, Decided
    <3>. QED
      BY <2>1, <2>2, <2>3, <2>4, <2>6, <3>1, CarefulStep DEF StartChange
  <2>7. CASE StartRestore(w, o)
    <3>1. snap'[w] = restorePoint' /\ op'[w].kind = "restore" /\ restorePoint' # NoSnapshot
      BY <2>1, <2>5, <2>7 DEF StartRestore, TaskTypes, TasksTypeOK
    <3>2. Working(snap[w])'
      BY <2>4, <3>1 DEF Working
    <3>3. Resolves(Effective(active))'
      BY <2>3 DEF Connected, ProbeSucceeds
    <3>4. pc'[w] = "roll_dns" => Careful(w)'
      BY <2>5, <3>1, <3>2, <3>3 DEF Careful, AtRisk, Decided
    <3>. QED
      BY <2>1, <2>2, <2>3, <2>4, <2>7, <3>4, CarefulStep DEF StartRestore
  <2>. QED
    BY <1>1, <2>6, <2>7
<1>2. ASSUME NEW w \in Workers, Finish(w) PROVE RollbackInv'
  <2>1. UNCHANGED <<active, rollback, dns, proxy>> /\ pc[w] = "finish" /\ Goto(w, "idle")
    BY <1>2 DEF Finish, settingsVars, RollbackInv, Careful
  <2>2. Connected'
    <3>1. \A v \in Workers : ~AtRisk(v)
      BY <2>1 DEF RollbackInv, OneLive, Live, AtRisk
    <3>. QED
      BY <2>1, <3>1 DEF RollbackInv, Connected, Effective
  <2>3. restorePoint' # NoSnapshot => Working(restorePoint)'
    <3>1. restorePoint' = restorePoint \/ (restorePoint' = snap[w] /\ Working(snap[w]))
      BY <1>2 DEF Finish, RollbackInv, Careful, Decided
    <3>. QED
      BY <2>1, <3>1 DEF RollbackInv, Working
  <2>4. pc'[w] = "idle" => Careful(w)'
    BY DEF Careful, AtRisk, Decided
  <2>. QED
    BY <2>1, <2>2, <2>3, <2>4, CarefulStep DEF Live
<1>3. ASSUME NEW w \in Workers, WorkerStep(w) PROVE RollbackInv'
  BY <1>3, CaptureIsExact, ChangeIsCareful, RollbackIsCareful DEF WorkerStep, Raise, Dependable
<1>4. CASE UNCHANGED vars
  BY <1>4 DEF vars, taskVars, settingsVars, RollbackInv, OneLive, Live, AtRisk, Working, Careful,
              Decided, Connected, Effective, Resolve
<1>5. CASE GuiStep
  BY <1>1, <1>2, <1>3, <1>5 DEF GuiStep, Click, Dependable
<1>. QED
  BY <1>4, <1>5 DEF Next, AutoStep, Environment, Dependable, Serial

LEMMA RollbackInit == ASSUME Dependable, Init PROVE RollbackInv
<1>1. \A w \in Workers : pc[w] = "idle"
  BY DEF Init, TasksInit
<1>2. active \in Ifaces /\ active # NoIface
  BY SettingsAssumption DEF Init, SettingsInit
<1>3. Resolves(Effective(active))
  BY <1>2 DEF Init, SettingsInit, Effective, Dependable, Resolves
<1>4. Connected
  BY <1>2, <1>3 DEF Init, SettingsInit, Dependable, Connected, ProbeSucceeds
<1>5. rollback /\ restorePoint = NoSnapshot
  BY DEF Init, TasksInit
<1>. QED
  BY <1>1, <1>2, <1>4, <1>5, IdleIsCareful DEF RollbackInv, OneLive, Live

\* While calls do what they say, one task at a time and with the rollback on,
\* whatever the user clicks on whatever adapter, at rest the machine can reach
\* the network (_apply_deadman_rollback).
THEOREM AtRestConnectedAlways ==
    ASSUME Dependable PROVE Spec => []AtRestConnected
<1>1. Init => RollbackInv
  BY RollbackInit
<1>2. TypeOK /\ TaskTypes /\ TaskInv /\ RollbackInv /\ [Next]_vars => RollbackInv'
  BY RollbackNext
<1>3. RollbackInv => AtRestConnected
  BY DEF RollbackInv, AtRestConnected, AtRest, Live, AtRisk
<1>. QED
  BY <1>1, <1>2, <1>3, TypesInit, TypesNext, TaskInvInit, TaskInvNext, PTL DEF Spec

-----------------------------------------------------------------------------
(* A click is atomic                                                       *)

\* Every button is for the adapter of the default route, as the window offers.
SameAdapter == \A o \in Ops : o.iface = NoIface

OnActive(w) ==
    /\ Live(w) => op[w].iface = NoIface
    /\ pc[w] \in {"read_proxy", "read_dns", "change"} \/ AtRisk(w) \/ Decided(w) =>
            snap[w].iface = active

SameInv ==
    /\ restorePoint # NoSnapshot => restorePoint.iface = active
    /\ \A w \in Workers : OnActive(w)

Alone(w) == \A v \in Workers \ {w} : pc[v] = "idle"

\* The views, for the only worker at work.
MachineOf(w) == IF Undecided(w) THEN View(snap[w]) ELSE Here

UndoOf(w) ==
    IF Decided(w) THEN View(snap[w])
    ELSE IF restorePoint = NoSnapshot THEN NoSnapshot ELSE View(restorePoint)

OutcomeOf(w) ==
    IF Restoring(w) THEN "restored"
    ELSE IF Decided(w) THEN IF rolledBack[w] THEN "rolled_back" ELSE "kept"
    ELSE "none"

LEMMA ViewsNow ==
    ASSUME NEW w \in Workers, Alone(w)
    PROVE  machineView = MachineOf(w) /\ undoView = UndoOf(w) /\ outcomeView = OutcomeOf(w)
<1>1. \A v \in Workers : Undecided(v) \/ Decided(v) \/ Restoring(v) => v = w
  BY DEF Alone, Undecided, Decided, Restoring
<1>2. Undecided(w) => Where(Undecided) = w
  BY <1>1 DEF Where
<1>3. Decided(w) => Where(Decided) = w
  BY <1>1 DEF Where
<1>4. (\E v \in Workers : Undecided(v)) <=> Undecided(w)
  BY <1>1
<1>5. (\E v \in Workers : Decided(v)) <=> Decided(w)
  BY <1>1
<1>6. (\E v \in Workers : Restoring(v)) <=> Restoring(w)
  BY <1>1
<1>. QED
  BY <1>2, <1>3, <1>4, <1>5, <1>6
     DEF machineView, undoView, outcomeView, MachineOf, UndoOf, OutcomeOf

LEMMA ViewsNext ==
    ASSUME NEW w \in Workers, Alone(w)'
    PROVE  machineView' = MachineOf(w)' /\ undoView' = UndoOf(w)' /\ outcomeView' = OutcomeOf(w)'
<1>1. \A v \in Workers : Undecided(v)' \/ Decided(v)' \/ Restoring(v)' => v = w
  BY DEF Alone, Undecided, Decided, Restoring
<1>2. Undecided(w)' => Where(Undecided)' = w
  BY <1>1 DEF Where
<1>3. Decided(w)' => Where(Decided)' = w
  BY <1>1 DEF Where
<1>4. (\E v \in Workers : Undecided(v)') <=> Undecided(w)'
  BY <1>1
<1>5. (\E v \in Workers : Decided(v)') <=> Decided(w)'
  BY <1>1
<1>6. (\E v \in Workers : Restoring(v)') <=> Restoring(w)'
  BY <1>1
<1>. QED
  BY <1>2, <1>3, <1>4, <1>5, <1>6
     DEF machineView, undoView, outcomeView, MachineOf, UndoOf, OutcomeOf

\* The others being idle, SameInv is about worker w.
LEMMA SameStep ==
    ASSUME SameInv, TaskInv, NEW w \in Workers, Alone(w), NEW step, Goto(w, step),
           UNCHANGED active,
           restorePoint' # NoSnapshot => restorePoint'.iface = active,
           pc'[w] = step => OnActive(w)'
    PROVE  SameInv'
<1>1. pc'[w] = step /\ \A v \in Workers \ {w} : pc'[v] = "idle"
  BY DEF Alone, Goto, TaskInv
<1>2. \A v \in Workers \ {w} : OnActive(v)'
  BY <1>1 DEF OnActive, Live, AtRisk, Decided
<1>. QED
  BY <1>1, <1>2 DEF SameInv

LEMMA SameWorker ==
    ASSUME SameInv, TypeOK, TaskTypes, TaskInv, NEW w \in Workers, Alone(w), WorkerStep(w)
    PROVE  SameInv'
<1>. USE DEF workerFrame, settingsVars
<1>1. /\ Live(w) /\ UNCHANGED <<active, op, restorePoint>>
      /\ OnActive(w) /\ op[w].iface = NoIface
      /\ snap[w] \in Snapshot /\ snap \in [Workers -> Snapshot \cup {NoSnapshot}]
      /\ restorePoint' # NoSnapshot => restorePoint'.iface = active
  <2>1. Live(w) /\ UNCHANGED <<active, op, restorePoint>>
    BY DEF WorkerStep, CaptureInterface, CaptureProxy, CaptureDns, Change, Probe, RollDns,
           RollProxy, Raise, Live
  <2>. QED
    BY <2>1 DEF SameInv, OnActive, TaskTypes, TasksTypeOK
<1>2. PICK step \in Steps : Goto(w, step)
  BY DEF WorkerStep, CaptureInterface, CaptureProxy, CaptureDns, Change, Probe, RollDns,
         RollProxy, Raise, Steps
<1>3. CASE CaptureInterface(w)
  <2>1. snap'[w].iface = active
    BY <1>1, <1>3 DEF CaptureInterface, Resolve, Snapshot
  <2>2. OnActive(w)'
    BY <1>1, <2>1 DEF OnActive
  <2>. QED
    BY <1>1, <1>2, <2>2, SameStep
<1>4. CASE CaptureProxy(w) \/ CaptureDns(w)
  <2>1. snap[w].iface = active
    BY <1>1, <1>4 DEF CaptureProxy, CaptureDns, OnActive
  <2>2. (\E reg : snap' = [snap EXCEPT ![w].proxy = reg]) \/ (\E s : snap' = [snap EXCEPT ![w].dns = s])
    BY <1>4 DEF CaptureProxy, CaptureDns
  <2>3. snap'[w].iface = active
    BY <1>1, <2>1, <2>2 DEF Snapshot
  <2>4. OnActive(w)'
    BY <1>1, <2>3 DEF OnActive
  <2>. QED
    BY <1>1, <1>2, <2>4, SameStep
<1>5. CASE Change(w) \/ Probe(w) \/ RollDns(w) \/ RollProxy(w)
  <2>1. snap[w].iface = active /\ UNCHANGED snap
    BY <1>1, <1>5 DEF Change, Probe, RollDns, RollProxy, OnActive, AtRisk
  <2>2. OnActive(w)'
    BY <1>1, <2>1 DEF OnActive
  <2>. QED
    BY <1>1, <1>2, <2>2, SameStep
<1>6. CASE Raise(w)
  <2>1. pc'[w] = "raised" => OnActive(w)'
    BY <1>1 DEF OnActive, AtRisk, Decided
  <2>. QED
    BY <1>1, <1>6, <2>1, SameStep DEF Raise
<1>. QED
  BY <1>3, <1>4, <1>5, <1>6 DEF WorkerStep

LEMMA SameNext ==
    ASSUME Dependable, SameAdapter, TypeOK, TaskTypes, TaskInv, OneLive, SameInv, [Next]_vars
    PROVE  SameInv'
<1>1. ASSUME NEW w \in Workers, NEW o \in Ops, StartChange(w, o) \/ StartRestore(w, o),
             Patient => runningKeys \subseteq {Key(o)}
      PROVE  SameInv'
  <2>1. /\ RunTask(w, o) /\ o.iface = NoIface
        /\ op' = [op EXCEPT ![w] = o] /\ UNCHANGED <<restorePoint, active>>
    BY <1>1 DEF StartChange, StartRestore, RunTask, settingsVars, SameAdapter
  <2>2. Alone(w)
    BY <1>1, <2>1, NobodyAtClick DEF Dependable, Alone
  <2>3. op'[w].iface = NoIface
    BY <2>1 DEF TaskInv
  <2>4. restorePoint' # NoSnapshot => restorePoint'.iface = active
    BY <2>1 DEF SameInv
  <2>5. CASE StartChange(w, o)
    <3>1. pc'[w] = "interface" => OnActive(w)'
      BY <2>3 DEF OnActive, AtRisk, Decided
    <3>. QED
      BY <2>1, <2>2, <2>4, <2>5, <3>1, SameStep DEF StartChange
  <2>6. CASE StartRestore(w, o)
    <3>1. snap'[w].iface = active
      BY <2>6 DEF StartRestore, SameInv, TaskTypes, TasksTypeOK
    <3>2. OnActive(w)'
      BY <2>1, <2>3, <3>1 DEF OnActive
    <3>. QED
      BY <2>1, <2>2, <2>4, <2>6, <3>2, SameStep DEF StartRestore
  <2>. QED
    BY <1>1, <2>5, <2>6
<1>2. ASSUME NEW w \in Workers, Finish(w) PROVE SameInv'
  <2>1. Alone(w)
    BY <1>2 DEF OneLive, Live, Finish, Alone
  <2>2. restorePoint' # NoSnapshot => restorePoint'.iface = active
    BY <1>2 DEF Finish, SameInv, OnActive, Decided
  <2>3. pc'[w] = "idle" => OnActive(w)'
    BY DEF OnActive, Live, AtRisk, Decided
  <2>. QED
    BY <1>2, <2>1, <2>2, <2>3, SameStep DEF Finish, settingsVars
<1>3. ASSUME NEW w \in Workers, WorkerStep(w) PROVE SameInv'
  <2>1. Alone(w)
    BY <1>3 DEF OneLive, Live, Alone, WorkerStep, CaptureInterface, CaptureProxy, CaptureDns,
                Change, Probe, RollDns, RollProxy, Raise
  <2>. QED
    BY <1>3, <2>1, SameWorker
<1>4. CASE UNCHANGED vars
  BY <1>4 DEF vars, taskVars, settingsVars, SameInv, OnActive, Live, AtRisk, Decided
<1>5. CASE GuiStep
  BY <1>1, <1>2, <1>3, <1>5 DEF GuiStep, Click, Dependable
<1>. QED
  BY <1>4, <1>5 DEF Next, AutoStep, Environment, Dependable, Serial

\* The steps of AtomicChange, for the only worker at work.
LEMMA AtomicBy ==
    ASSUME NEW w \in Workers, Alone(w), Alone(w)',
           \/ /\ MachineOf(w)' = MachineOf(w) /\ UndoOf(w)' = UndoOf(w)
              /\ OutcomeOf(w)' \in {OutcomeOf(w), "none"}
           \/ /\ OutcomeOf(w) = "none" /\ OutcomeOf(w)' = "none"
              /\ MachineOf(w)' = AsCaptured[MachineOf(w)]
              /\ UndoOf(w)' = UndoOf(w)
           \/ /\ OutcomeOf(w) = "none" /\ OutcomeOf(w)' = "kept"
              /\ MachineOf(w)' \in {m \in Configurations :
                                        ProbeSucceeds(InEffect(m.dns), m.proxy)}
              /\ UndoOf(w)' = MachineOf(w)
           \/ /\ OutcomeOf(w) = "none" /\ OutcomeOf(w)' = "rolled_back"
              /\ MachineOf(w)' = MachineOf(w)
              /\ UndoOf(w)' = MachineOf(w)
           \/ /\ OutcomeOf(w) = "none" /\ OutcomeOf(w)' = "restored"
              /\ UndoOf(w) # NoSnapshot
              /\ MachineOf(w)' = UndoOf(w)
              /\ UndoOf(w)' = UndoOf(w)
    PROVE  [Atomic!Next]_(Atomic!vars)
<1>1. machineView = MachineOf(w) /\ undoView = UndoOf(w) /\ outcomeView = OutcomeOf(w)
  BY ViewsNow
<1>2. machineView' = MachineOf(w)' /\ undoView' = UndoOf(w)' /\ outcomeView' = OutcomeOf(w)'
  BY ViewsNext
<1>. QED
  BY <1>1, <1>2 DEF Atomic!Next, Atomic!vars, Atomic!Take, Atomic!Apply, Atomic!RollBack, Atomic!Restore,
                    Atomic!Close

\* A change starts from the settings in force, a working configuration.
LEMMA HereTypes ==
    ASSUME SettingsTypeOK, active \in Ifaces
    PROVE  Here \in Configurations /\ InEffect(Here.dns) = Effective(active)
  BY DEF SettingsTypeOK, Here, Configurations, InEffect, Effective

LEMMA CapturedHere ==
    ASSUME SettingsTypeOK, active \in Ifaces, NEW s \in Snapshot,
           s.dns = Effective(active), s.proxy = proxy
    PROVE  View(s) = AsCaptured[Here]
<1>1. AsCaptured[Here] = View([dns |-> InEffect(Here.dns), proxy |-> Here.proxy])
  BY HereTypes DEF AsCaptured
<1>. QED
  BY <1>1, HereTypes DEF View, Here

\* What a snapshot shows of the machine, and that it is not "no restore point".
LEMMA ViewTypes ==
    ASSUME NEW s \in Snapshot PROVE View(s) # NoSnapshot /\ s # NoSnapshot
<1>1. View(s) \in Configurations
  BY DEF View, Snapshot, Configurations, Servers
<1>. QED
  BY <1>1, ViewAssumption

LEMMA AtomicClick ==
    ASSUME Dependable, TaskInv, NEW w \in Workers, NEW o \in Ops,
           StartChange(w, o) \/ StartRestore(w, o), Patient => runningKeys \subseteq {Key(o)}
    PROVE  [Atomic!Next]_(Atomic!vars)
<1>1. RunTask(w, o) /\ op' = [op EXCEPT ![w] = o] /\ UNCHANGED <<restorePoint, dns, proxy, active>>
  BY DEF StartChange, StartRestore, RunTask, settingsVars
<1>2. Alone(w) /\ pc[w] = "idle"
  BY <1>1, NobodyAtClick DEF Dependable, Alone
<1>3. PICK step \in {"interface", "roll_dns"} :
          Goto(w, step) /\ (step = "roll_dns" => o.kind = "restore")
  BY DEF StartChange, StartRestore
<1>4. Alone(w)' /\ pc'[w] = step /\ op'[w] = o
  BY <1>1, <1>2, <1>3 DEF Goto, Alone, TaskInv
<1>5. /\ MachineOf(w)' = MachineOf(w) /\ UndoOf(w)' = UndoOf(w)
      /\ OutcomeOf(w)' = OutcomeOf(w)
  BY <1>1, <1>2, <1>3, <1>4 DEF MachineOf, UndoOf, OutcomeOf, Undecided, Decided, Restoring, Here,
                                Effective
<1>. QED
  BY <1>2, <1>4, <1>5, AtomicBy

\* _done stores the restore point: the click is over.
LEMMA AtomicFinish ==
    ASSUME TypeOK, TaskTypes, TaskInv, OneLive, NEW w \in Workers, Careful(w), Finish(w)
    PROVE  [Atomic!Next]_(Atomic!vars)
<1>1. /\ pc[w] = "finish" /\ Goto(w, "idle") /\ UNCHANGED <<dns, proxy, active>>
      /\ restorePoint' = IF Decided(w) THEN snap[w] ELSE restorePoint
  BY DEF Finish, settingsVars, Careful, Decided
<1>2. Alone(w) /\ Alone(w)' /\ pc'[w] = "idle"
  BY <1>1 DEF OneLive, Live, Alone, Goto, TaskInv
<1>3. snap[w] \in Snapshot
  BY <1>1 DEF TaskTypes, Live
<1>4. MachineOf(w)' = MachineOf(w)
  BY <1>1, <1>2 DEF MachineOf, Undecided, Here, Effective
<1>5. UndoOf(w)' = UndoOf(w)
  BY <1>1, <1>2, <1>3, ViewTypes DEF UndoOf, Decided, View
<1>6. OutcomeOf(w)' = "none"
  BY <1>2 DEF OutcomeOf, Restoring, Decided
<1>. QED
  BY <1>2, <1>4, <1>5, <1>6, AtomicBy

LEMMA AtomicWorker ==
    ASSUME Dependable, TypeOK, TaskTypes, TaskInv, RollbackInv, SameInv,
           NEW w \in Workers, WorkerStep(w), Alone(w), Alone(w)'
    PROVE  [Atomic!Next]_(Atomic!vars)
<1>. USE DEF workerFrame, settingsVars, Undecided, Decided, Restoring
<1>1. /\ Live(w) /\ Careful(w) /\ OnActive(w) /\ snap[w] \in Snapshot
      /\ UNCHANGED <<op, restorePoint, active>>
      /\ success \in [Workers -> BOOLEAN] /\ rolledBack \in [Workers -> BOOLEAN]
      /\ SettingsTypeOK /\ active \in Ifaces /\ rollback
      /\ pc \in [Workers -> Steps] /\ snap \in [Workers -> Snapshot \cup {NoSnapshot}]
  <2>1. Live(w) /\ UNCHANGED <<op, restorePoint, active>>
    BY DEF WorkerStep, CaptureInterface, CaptureProxy, CaptureDns, Change, Probe, RollDns,
           RollProxy, Raise, Live
  <2>. QED
    BY <2>1 DEF RollbackInv, SameInv, TypeOK, TaskTypes, TasksTypeOK
<1>2. UNCHANGED <<dns, proxy>> => Here' = Here
  BY <1>1 DEF Here, Effective
<1>3. CASE CaptureInterface(w) \/ CaptureProxy(w) \/ CaptureDns(w)
  <2>1. /\ pc[w] \in {"interface", "read_proxy", "read_dns"}
        /\ pc'[w] \in {"read_proxy", "read_dns", "change"}
        /\ UNCHANGED <<dns, proxy>>
    BY <1>1, <1>3 DEF CaptureInterface, CaptureProxy, CaptureDns, Goto
  <2>2. MachineOf(w)' = MachineOf(w) /\ UndoOf(w)' = UndoOf(w) /\ OutcomeOf(w)' = OutcomeOf(w)
    BY <1>1, <1>2, <2>1 DEF MachineOf, UndoOf, OutcomeOf
  <2>. QED
    BY <2>2, AtomicBy
<1>4. CASE Change(w)
  <2>1. /\ op[w].kind # "restore" /\ ~rolledBack[w] /\ pc[w] = "change" /\ snap[w].iface = active
        /\ snap[w].dns = Effective(active) /\ snap[w].proxy = proxy
        /\ UNCHANGED <<snap, rolledBack>>
    BY <1>1, <1>4 DEF Change, Careful, OnActive
  <2>2. PICK ok \in BOOLEAN : /\ ChangeSetting(op[w], ok)
                              /\ success' = [success EXCEPT ![w] = ok]
                              /\ Goto(w, IF ok THEN "probe" ELSE "finish")
    BY <1>4 DEF Change
  <2>3. MachineOf(w) = Here /\ OutcomeOf(w) = "none"
    BY <2>1 DEF MachineOf, OutcomeOf
  <2>4. UndoOf(w)' = UndoOf(w) /\ OutcomeOf(w)' = OutcomeOf(w)
    BY <1>1, <2>1, <2>2 DEF UndoOf, OutcomeOf, Goto
  <2>5. CASE ok = TRUE
    <3>1. pc'[w] = "probe"
      BY <1>1, <2>2, <2>5 DEF Goto
    <3>2. MachineOf(w)' = View(snap[w])
      BY <2>1, <3>1 DEF MachineOf, View
    <3>3. View(snap[w]) = AsCaptured[Here]
      BY <1>1, <2>1, CapturedHere
    <3>. QED
      BY <2>3, <2>4, <3>2, <3>3, AtomicBy
  <2>6. CASE ok = FALSE
    <3>1. UNCHANGED <<dns, proxy>>
      BY <1>1, <2>2, <2>6, SureChange DEF TaskTypes, Dependable
    <3>2. pc'[w] = "finish"
      BY <1>1, <2>2, <2>6 DEF Goto
    <3>3. MachineOf(w)' = MachineOf(w)
      BY <1>2, <2>3, <3>1, <3>2 DEF MachineOf
    <3>. QED
      BY <2>4, <3>3, AtomicBy
  <2>. QED
    BY <2>5, <2>6
<1>5. CASE Probe(w)
  <2>1. /\ op[w].kind # "restore" /\ ~rolledBack[w] /\ pc[w] = "probe" /\ success[w]
        /\ UNCHANGED <<snap, dns, proxy>>
    BY <1>1, <1>5 DEF Probe, Careful
  <2>2. PICK online \in {Connected} :
            IF ~online
            THEN /\ Goto(w, "roll_dns")
                 /\ success' = [success EXCEPT ![w] = FALSE]
                 /\ rolledBack' = [rolledBack EXCEPT ![w] = TRUE]
            ELSE Goto(w, "finish") /\ UNCHANGED <<success, rolledBack>>
    BY <1>1, <1>5, SureReads DEF Probe, Dependable
  <2>3. MachineOf(w) = View(snap[w]) /\ OutcomeOf(w) = "none"
    BY <2>1 DEF MachineOf, OutcomeOf
  <2>4. CASE Connected
    <3>1. pc'[w] = "finish" /\ success'[w] /\ ~rolledBack'[w]
      BY <1>1, <2>1, <2>2, <2>4 DEF Goto
    <3>2. MachineOf(w)' = Here /\ UndoOf(w)' = View(snap[w]) /\ OutcomeOf(w)' = "kept"
      BY <1>1, <1>2, <2>1, <3>1 DEF MachineOf, UndoOf, OutcomeOf, View
    <3>3. Here \in {m \in Configurations : ProbeSucceeds(InEffect(m.dns), m.proxy)}
      BY <1>1, <2>4, HereTypes DEF Connected, Here
    <3>. QED
      BY <2>3, <3>2, <3>3, AtomicBy
  <2>5. CASE ~Connected
    <3>1. pc'[w] = "roll_dns"
      BY <1>1, <2>2, <2>5 DEF Goto
    <3>2. MachineOf(w)' = MachineOf(w) /\ UndoOf(w)' = UndoOf(w) /\ OutcomeOf(w)' = OutcomeOf(w)
      BY <1>1, <2>1, <3>1 DEF MachineOf, UndoOf, OutcomeOf, View
    <3>. QED
      BY <3>2, AtomicBy
  <2>. QED
    BY <2>4, <2>5
<1>6. CASE RollDns(w)
  <2>1. pc[w] = "roll_dns" /\ pc'[w] = "roll_proxy" /\ UNCHANGED <<snap, proxy>>
    BY <1>1, <1>6 DEF RollDns, Goto
  <2>2. CASE op[w].kind = "restore"
    <3>1. snap[w] = restorePoint
      BY <1>1, <2>1, <2>2 DEF Careful
    <3>2. /\ UndoOf(w) = View(snap[w]) /\ UndoOf(w)' = View(snap[w])
          /\ MachineOf(w)' = View(snap[w])
          /\ OutcomeOf(w) = "none" /\ OutcomeOf(w)' = "restored"
      BY <1>1, <2>1, <2>2, <3>1, ViewTypes DEF UndoOf, MachineOf, OutcomeOf, View
    <3>. QED
      BY <1>1, <3>2, ViewTypes, AtomicBy
  <2>3. CASE op[w].kind # "restore"
    <3>1. MachineOf(w)' = MachineOf(w) /\ UndoOf(w)' = UndoOf(w) /\ OutcomeOf(w)' = OutcomeOf(w)
      BY <1>1, <2>1, <2>3 DEF MachineOf, UndoOf, OutcomeOf, View
    <3>. QED
      BY <3>1, AtomicBy
  <2>. QED
    BY <2>2, <2>3
<1>7. CASE RollProxy(w)
  <2>1. /\ pc[w] = "roll_proxy" /\ pc'[w] = "finish" /\ UNCHANGED <<snap, dns, rolledBack>>
        /\ snap[w].iface = active /\ dns[active] = snap[w].dns
        /\ snap[w].dns # NoServers
    BY <1>1, <1>7, SettingsAssumption DEF RollProxy, Goto, Careful, OnActive, AtRisk, Working
  <2>2. proxy' = snap[w].proxy
    BY <1>7, SureRegistryWrite DEF RollProxy, RestoreProxy, Dependable
  <2>3. /\ MachineOf(w) = View(snap[w]) /\ MachineOf(w)' = View(snap[w])
    BY <1>1, <2>1, <2>2 DEF MachineOf, View, Here, Effective
  <2>4. CASE op[w].kind = "restore"
    <3>1. UndoOf(w)' = UndoOf(w) /\ OutcomeOf(w)' = OutcomeOf(w)
      BY <1>1, <2>1, <2>4 DEF UndoOf, OutcomeOf
    <3>. QED
      BY <2>3, <3>1, AtomicBy
  <2>5. CASE op[w].kind # "restore"
    <3>1. rolledBack[w]
      BY <1>1, <2>1, <2>5 DEF Careful
    <3>2. OutcomeOf(w) = "none" /\ OutcomeOf(w)' = "rolled_back" /\ UndoOf(w)' = View(snap[w])
      BY <1>1, <2>1, <2>5, <3>1 DEF OutcomeOf, UndoOf, View
    <3>. QED
      BY <2>3, <3>2, AtomicBy
  <2>. QED
    BY <2>4, <2>5
<1>8. ~Raise(w)
  BY DEF Raise, Dependable
<1>. QED
  BY <1>3, <1>4, <1>5, <1>6, <1>7, <1>8 DEF WorkerStep

LEMMA AtomicNext ==
    ASSUME Dependable, TypeOK, TaskTypes, TaskInv, RollbackInv, SameInv, [Next]_vars
    PROVE  [Atomic!Next]_(Atomic!vars)
<1>1. ASSUME NEW w \in Workers, WorkerStep(w) PROVE [Atomic!Next]_(Atomic!vars)
  <2>1. pc[w] # "idle"
    BY <1>1 DEF WorkerStep, CaptureInterface, CaptureProxy, CaptureDns, Change, Probe, RollDns,
                RollProxy, Raise
  <2>2. Alone(w)
    BY <2>1 DEF RollbackInv, OneLive, Live, Alone
  <2>3. \A v \in Workers \ {w} : pc'[v] = pc[v]
    BY <1>1 DEF WorkerStep, CaptureInterface, CaptureProxy, CaptureDns, Change, Probe, RollDns,
                RollProxy, Raise, Goto, TaskInv
  <2>. QED
    BY <1>1, <2>2, <2>3, AtomicWorker DEF Alone
<1>2. CASE UNCHANGED vars
  <2>1. /\ \A w \in Workers : /\ Undecided(w)' <=> Undecided(w)
                              /\ Decided(w)' <=> Decided(w)
                              /\ Restoring(w)' <=> Restoring(w)
        /\ UNCHANGED <<snap, rolledBack, restorePoint, dns, proxy, active, op, pc, success>>
    BY <1>2 DEF vars, taskVars, settingsVars, Undecided, Decided, Restoring
  <2>. QED
    BY <2>1 DEF Atomic!vars, machineView, undoView, outcomeView, Where, View, Here, Effective,
                Undecided, Decided, Restoring
<1>3. CASE GuiStep
  BY <1>1, <1>3, AtomicClick, AtomicFinish
     DEF GuiStep, Click, Dependable, RollbackInv
<1>. QED
  BY <1>2, <1>3 DEF Next, AutoStep, Environment, Dependable, Serial

LEMMA AtomicInit == ASSUME Dependable, Init PROVE Atomic!Init
<1>1. \A w \in Workers : ~Undecided(w) /\ ~Decided(w) /\ ~Restoring(w)
  BY DEF Init, TasksInit, Undecided, Decided, Restoring
<1>2. restorePoint = NoSnapshot /\ Connected /\ SettingsTypeOK /\ active \in Ifaces
  BY RollbackInit, TypesInit DEF Init, TasksInit, RollbackInv, AtRisk, TypeOK
<1>3. machineView = Here /\ undoView = NoSnapshot /\ outcomeView = "none"
  BY <1>1, <1>2 DEF machineView, undoView, outcomeView
<1>4. Here \in {m \in Configurations : ProbeSucceeds(InEffect(m.dns), m.proxy)}
  BY <1>2, HereTypes DEF Connected, Here
<1>. QED
  BY <1>3, <1>4 DEF Atomic!Init

\* While calls do what they say, one task at a time, with the rollback on and
\* every button about the adapter in use, the window implements AtomicChange: a
\* click keeps a working change as a whole or leads back to what it captured,
\* and Restore to what the last click captured: proxy, bypass list and PAC URL
\* as they were, and the servers that were in effect, static ones from then on
\* if they had come from DHCP (get_dns_restore_state, _apply_deadman_rollback,
\* _restore_snapshot_values, _store_restore_snapshot_if_success).
THEOREM ClickIsAtomicAlways ==
    ASSUME Dependable, SameAdapter PROVE Spec => ClickIsAtomic
<1>1. Init => RollbackInv /\ Atomic!Init
  BY RollbackInit, AtomicInit
<1>2. Init => SameInv
  BY DEF Init, TasksInit, SameInv, OnActive, Live, AtRisk, Decided
<1>3. TypeOK /\ TaskTypes /\ TaskInv /\ RollbackInv /\ [Next]_vars => RollbackInv'
  BY RollbackNext
<1>4. TypeOK /\ TaskTypes /\ TaskInv /\ RollbackInv /\ SameInv /\ [Next]_vars => SameInv'
  BY SameNext DEF RollbackInv
<1>5. TypeOK /\ TaskTypes /\ TaskInv /\ RollbackInv /\ SameInv /\ [Next]_vars
        => [Atomic!Next]_(Atomic!vars)
  BY AtomicNext
<1>. QED
  BY <1>1, <1>2, <1>3, <1>4, <1>5, TypesInit, TypesNext, TaskInvInit, TaskInvNext, PTL
     DEF Spec, ClickIsAtomic, Atomic!Spec
=============================================================================
