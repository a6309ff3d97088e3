---------------------------- MODULE CommandProofs ----------------------------
(***************************************************************************)
(* Proofs about CommandLine: exit codes, what a command may change, the    *)
(* verdicts of the diagnostics, the failover recommendation, the trend and *)
(* the spikes of the traffic and the gate, for every set of arguments.     *)
(***************************************************************************)
EXTENDS CommandLine, FiniteSetTheorems, TLAPS

Gate == "frontier_gate"

\* What is known of the last command: a gate answered by the policy.
GateInv ==
    call.command = Gate =>
        (answer.exit = 0 <=> Allowed(call.capability, call.operation, call.given))

AtLeast(more, given) ==
    /\ given.consent => more.consent
    /\ given.lab => more.lab
    /\ given.reviews \subseteq more.reviews

-----------------------------------------------------------------------------
\* With more approvals nothing new stands in the way (evaluate_capability).
LEMMA FewerBlockers ==
    ASSUME NEW c, NEW operation, NEW given, NEW more, AtLeast(more, given)
    PROVE  Blockers(c, operation, more) \subseteq Blockers(c, operation, given)
BY DEF AtLeast, Blockers, ReviewsMissing

\* What is allowed stays allowed with more approvals (evaluate_capability).
LEMMA StillAllowed ==
    ASSUME NEW id, NEW operation, NEW given, NEW more, AtLeast(more, given),
           Allowed(id, operation, given)
    PROVE  Allowed(id, operation, more)
<1>1. PICK c \in Catalog :
        c.id = id /\ operation \notin BypassTerms /\ Blockers(c, operation, given) = {}
  BY DEF Allowed
<1>2. Blockers(c, operation, more) = {}
  BY <1>1, FewerBlockers
<1> QED
  BY <1>1, <1>2 DEF Allowed

\* A command that is not the gate leaves nothing to be said of it.
LEMMA GateAnswers ==
    ASSUME NEW id, NEW operation, NEW given, FrontierGate(id, operation, given)
    PROVE  GateInv'
<1>1. /\ call'.capability = id /\ call'.operation = operation /\ call'.given = given
      /\ answer'.exit = IF Allowed(id, operation, given) THEN 0 ELSE 2
  BY DEF FrontierGate, Tells
<1>2. answer'.exit = 0 <=> Allowed(call'.capability, call'.operation, call'.given)
  BY <1>1
<1> QED
  BY <1>2 DEF GateInv

\* Every command that may change something, and the machine moving (run).
LEMMA OthersKeep ==
    ASSUME GateInv, Changes \/ Moves
    PROVE  GateInv'
<1>1. CASE Moves
  BY <1>1 DEF Moves, GateInv, Allowed, Gate
<1>2. ASSUME NEW name, NEW servers, NEW i, DnsApply(name, servers, i) PROVE GateInv'
  <2>1. call' = [command |-> "dns_apply", profile |-> name, servers |-> servers, iface |-> i]
    BY <1>2 DEF DnsApply, Reports, Ends
  <2> QED
    BY <2>1 DEF GateInv, Gate
<1>3. ASSUME NEW i, DnsClear(i) PROVE GateInv'
  <2>1. call' = [command |-> "dns_clear", iface |-> i]
    BY <1>3 DEF DnsClear, Reports, Ends
  <2> QED
    BY <2>1 DEF GateInv, Gate
<1>4. ASSUME NEW server, ProxyEnable(server) PROVE GateInv'
  <2>1. call' = [command |-> "proxy_enable", server |-> server]
    BY <1>4 DEF ProxyEnable, Reports, Ends
  <2> QED
    BY <2>1 DEF GateInv, Gate
<1>5. ASSUME NEW url, ProxyPac(url) PROVE GateInv'
  <2>1. call' = [command |-> "proxy_pac", url |-> url]
    BY <1>5 DEF ProxyPac, Reports, Ends
  <2> QED
    BY <2>1 DEF GateInv, Gate
<1>6. ASSUME ProxyDisable PROVE GateInv'
  <2>1. call' = [command |-> "proxy_disable"]
    BY <1>6 DEF ProxyDisable, Reports, Ends
  <2> QED
    BY <2>1 DEF GateInv, Gate
<1>7. ASSUME NEW urls, DdnsForce(urls) PROVE GateInv'
  <2>1. call' = [command |-> "ddns_force", urls |-> urls]
    BY <1>7 DEF DdnsForce, Reports, Ends
  <2> QED
    BY <2>1 DEF GateInv, Gate
<1> QED
  BY <1>1, <1>2, <1>3, <1>4, <1>5, <1>6, <1>7 DEF Changes

LEMMA ReadsKeep ==
    ASSUME GateInv, Reads
    PROVE  GateInv'
<1>1. CASE ReadConfig
  BY <1>1 DEF ReadConfig, Reports, Ends, GateInv, Gate
<1>2. CASE Status
  BY <1>2 DEF Status, Tells, GateInv, Gate
<1>3. ASSUME NEW files, VerifyBundle(files) PROVE GateInv'
  BY <1>3 DEF VerifyBundle, Tells, GateInv, Gate
<1>4. ASSUME NEW kind, Refuse(kind) PROVE GateInv'
  BY <1>4 DEF Refuse, Tells, GateInv, Gate
<1>5. ASSUME NEW kind, NEW input, NEW verdict, Diagnose(kind, input, verdict) PROVE GateInv'
  BY <1>5 DEF Diagnose, Tells, GateInv, Gate
<1>6. ASSUME NEW adapters, MultiwanStatus(adapters) PROVE GateInv'
  BY <1>6 DEF MultiwanStatus, Tells, GateInv, Gate
<1>7. ASSUME NEW seconds, PcapPlan(seconds) PROVE GateInv'
  BY <1>7 DEF PcapPlan, Tells, GateInv, Gate
<1>8. ASSUME NEW history, NEW limit, TrafficHistory(history, limit) PROVE GateInv'
  BY <1>8 DEF TrafficHistory, Tells, GateInv, Gate
<1>9. ASSUME NEW history, Anomalies(history) PROVE GateInv'
  BY <1>9 DEF Anomalies, Tells, GateInv, Gate
<1> QED
  BY <1>1, <1>2, <1>3, <1>4, <1>5, <1>6, <1>7, <1>8, <1>9, GateAnswers
     DEF Reads, DiagnoseNames, DiagnoseTls, DiagnoseSni, DiagnoseCaptive

LEMMA GateInvAlways == Spec => []GateInv
<1>1. Init => GateInv
  BY DEF Init, GateInv, Gate
<1>2. GateInv /\ [Next]_commandVars => GateInv'
  <2>1. CASE UNCHANGED commandVars
    BY <2>1 DEF commandVars, GateInv, Gate, Allowed
  <2> QED
    BY <2>1, OthersKeep, ReadsKeep DEF Next
<1> QED
  BY <1>1, <1>2, PTL DEF Spec

\* ApprovalsOnlyHelp for every set of capabilities, operations and approvals
\* (frontier_policy.evaluate_capability, lucid_cli frontier gate).
THEOREM ApprovalsOnlyHelpAlways == Spec => ApprovalsOnlyHelp
<1>1. ASSUME GateInv, GateInv', call.command = Gate, call'.command = Gate,
             call'.capability = call.capability, call'.operation = call.operation,
             AtLeast(call'.given, call.given), answer.exit = 0
      PROVE  answer'.exit = 0
  <2>1. Allowed(call.capability, call.operation, call.given)
    BY <1>1 DEF GateInv
  <2>2. Allowed(call'.capability, call'.operation, call'.given)
    BY <1>1, <2>1, StillAllowed
  <2> QED
    BY <1>1, <2>2 DEF GateInv
<1>2. GateInv /\ GateInv' => ApprovalsStep
  BY <1>1 DEF ApprovalsStep, AtLeast, Gate
<1> QED
  BY <1>2, GateInvAlways, PTL DEF ApprovalsOnlyHelp

-----------------------------------------------------------------------------
(* The settings written                                                    *)

DnsValues == DnsServers \cup {Automatic}

\* A call on one adapter leaves the others alone; what it reports done is done.
LEMMA DnsCommandDoes ==
    ASSUME SettingsTypeOK, NEW i \in Ifaces \cup {NoIface}, NEW value \in DnsValues, NEW ok,
           DnsCommand(i, value, ok)
    PROVE  /\ dns' \in [Ifaces -> DnsServers \cup {Automatic}]
           /\ ok => dns'[Resolve(i)] = value
           /\ \A j \in Ifaces \ {Resolve(i)} : dns'[j] = dns[j]
<1>1. Resolve(i) # NoIface => Resolve(i) \in Ifaces
  BY DEF Resolve, SettingsTypeOK
<1>. QED
  BY <1>1 DEF DnsCommand, SettingsTypeOK, DnsValues

LEMMA SetDnsDoes ==
    ASSUME SettingsTypeOK, NEW i \in Ifaces \cup {NoIface}, NEW servers, NEW ok,
           SetDns(i, servers, ok)
    PROVE  /\ dns' \in [Ifaces -> DnsServers \cup {Automatic}]
           /\ ok => dns'[Resolve(i)] = servers
           /\ \A j \in Ifaces \ {Resolve(i)} : dns'[j] = dns[j]
<1>1. CASE servers \in DnsServers
  BY <1>1, DnsCommandDoes DEF SetDns, DnsValues
<1>2. CASE servers \notin DnsServers
  BY <1>2 DEF SetDns, SettingsTypeOK
<1>. QED
  BY <1>1, <1>2

\* Whether the writes get through or not, a value is as it was or as it was to be.
LEMMA RegistryDoes ==
    ASSUME SettingsTypeOK, NEW new \in Registry, NEW ok, RegistryWrite(new, ok)
    PROVE  /\ proxy' \in Registry
           /\ ok => proxy' = new
           /\ proxy'.pac \in {proxy.pac, new.pac}
           /\ proxy'.override \in {proxy.override, new.override}
<1>1. \A reg \in PartialWrites(new) : /\ reg \in Registry
                                  /\ reg.pac \in {proxy.pac, new.pac}
                                  /\ reg.override \in {proxy.override, new.override}
  BY DEF PartialWrites, SettingsTypeOK, Registry
<1>2. proxy' = new \/ (~ok /\ proxy' \in PartialWrites(new))
  BY DEF RegistryWrite
<1>. QED
  BY <1>1, <1>2

LEMMA EnableProxyDoes ==
    ASSUME SettingsTypeOK, NEW server, NEW ok, EnableProxy(server, ok)
    PROVE  /\ proxy' \in Registry
           /\ ok => proxy'.enable = 1 /\ proxy'.server = server
           /\ proxy'.pac = proxy.pac
           /\ proxy.override # Absent => proxy'.override = proxy.override
<1>1. CASE server \in Proxies
  <2>. DEFINE new == WithBypass([proxy EXCEPT !.enable = 1, !.server = server])
  <2>1. /\ new \in Registry /\ new.enable = 1 /\ new.server = server /\ new.pac = proxy.pac
        /\ proxy.override # Absent => new.override = proxy.override
    BY <1>1 DEF WithBypass, SettingsTypeOK, Registry
  <2>2. RegistryWrite(new, ok)
    BY <1>1 DEF EnableProxy
  <2>. HIDE DEF new
  <2>3. /\ proxy' \in Registry
        /\ ok => proxy' = new
        /\ proxy'.pac \in {proxy.pac, new.pac}
        /\ proxy'.override \in {proxy.override, new.override}
    BY <2>1, <2>2, RegistryDoes
  <2>. QED
    BY <2>1, <2>3
<1>2. CASE server \notin Proxies
  BY <1>2 DEF EnableProxy, SettingsTypeOK
<1>. QED
  BY <1>1, <1>2

LEMMA DisableProxyDoes ==
    ASSUME SettingsTypeOK, NEW ok, DisableProxy(ok)
    PROVE  /\ proxy' \in Registry
           /\ ok => proxy'.enable = 0
           /\ proxy'.pac = proxy.pac
           /\ proxy'.override = proxy.override
<1>. DEFINE new == [proxy EXCEPT !.enable = 0]
<1>1. new \in Registry /\ new.enable = 0 /\ new.pac = proxy.pac /\ new.override = proxy.override
  BY DEF SettingsTypeOK, Registry
<1>2. RegistryWrite(new, ok)
  BY DEF DisableProxy
<1>. HIDE DEF new
<1>. QED
  BY <1>1, <1>2, RegistryDoes

LEMMA SetPacDoes ==
    ASSUME SettingsTypeOK, NEW url, NEW ok, SetPac(url, ok)
    PROVE  /\ proxy' \in Registry
           /\ ok => proxy'.enable = 0 /\ proxy'.pac = url
           /\ proxy'.override = proxy.override
<1>1. CASE url \in Pacs
  <2>. DEFINE new == [proxy EXCEPT !.enable = 0, !.pac = url]
  <2>1. new \in Registry /\ new.enable = 0 /\ new.pac = url /\ new.override = proxy.override
    BY <1>1 DEF SettingsTypeOK, Registry
  <2>2. RegistryWrite(new, ok)
    BY <1>1 DEF SetPac
  <2>. HIDE DEF new
  <2>. QED
    BY <2>1, <2>2, RegistryDoes
<1>2. CASE url \notin Pacs
  BY <1>2 DEF SetPac, SettingsTypeOK
<1>. QED
  BY <1>1, <1>2

-----------------------------------------------------------------------------
(* What a command may change, and what exit code 0 means                   *)

AnswerTypes ==
    /\ SettingsTypeOK
    /\ config \in ConfigStates
    /\ told \subseteq Families
    /\ answer.exit \in ExitCodes

\* What is to be shown of every step.
Honest == AnswerTypes' /\ TruthStep /\ OneSettingStep

LEMMA LoadTypes ==
    ASSUME AnswerTypes, LoadConfig
    PROVE  config' \in ConfigStates /\ (config' # config => config = "unusable")
  BY DEF AnswerTypes, LoadConfig, ConfigStates

LEMMA DnsApplyHonest ==
    ASSUME AnswerTypes, NEW name, NEW servers, NEW i \in Interfaces, DnsApply(name, servers, i)
    PROVE  Honest
<1>. DEFINE c == [command |-> "dns_apply", profile |-> name, servers |-> servers, iface |-> i]
<1>1. /\ call' = c /\ told' = {} /\ UNCHANGED <<proxy, active>>
      /\ answer'.exit \in ExitCodes
  BY DEF DnsApply, Reports, Ends, ExitCodes
<1>2. /\ c.command = "dns_apply" /\ c.profile = name /\ c.servers = servers /\ c.iface = i
  OBVIOUS
<1>3. config' \in ConfigStates /\ (config' # config => config = "unusable")
  BY LoadTypes DEF DnsApply
<1>4. i \in Ifaces \cup {NoIface}
  BY CommandAssumption
<1>. HIDE DEF c
<1>5. CASE UNCHANGED dns /\ answer'.exit # 0
  BY <1>1, <1>2, <1>3, <1>5 DEF Honest, AnswerTypes, SettingsTypeOK, TruthStep, OneSettingStep
<1>6. CASE ~(UNCHANGED dns /\ answer'.exit # 0)
  <2>1. /\ name = Absent \/ name \in DOMAIN ProfilesNow
        /\ \E ok \in BOOLEAN :
              /\ SetDns(i, IF name = Absent THEN servers ELSE ProfilesNow[name], ok)
              /\ answer'.exit = IF ok THEN 0 ELSE 1
    BY <1>6 DEF DnsApply, Reports, Ends
  <2>2. PICK ok \in BOOLEAN :
            /\ SetDns(i, IF name = Absent THEN servers ELSE ProfilesNow[name], ok)
            /\ answer'.exit = IF ok THEN 0 ELSE 1
    BY <2>1
  <2>3. /\ dns' \in [Ifaces -> DnsServers \cup {Automatic}]
        /\ ok => dns'[Resolve(i)] = IF name = Absent THEN servers ELSE ProfilesNow[name]
        /\ \A j \in Ifaces \ {Resolve(i)} : dns'[j] = dns[j]
    BY <1>4, <2>2, SetDnsDoes DEF AnswerTypes
  <2>4. AnswerTypes'
    BY <1>1, <1>3, <2>3 DEF AnswerTypes, SettingsTypeOK
  <2>5. TruthStep
    BY <1>1, <1>2, <2>1, <2>2, <2>3 DEF TruthStep
  <2>6. OneSettingStep
    BY <1>1, <1>2, <1>3, <2>2, <2>3 DEF OneSettingStep
  <2>. QED
    BY <2>4, <2>5, <2>6 DEF Honest
<1>. QED
  BY <1>5, <1>6

LEMMA DnsClearHonest ==
    ASSUME AnswerTypes, NEW i \in Interfaces, DnsClear(i)
    PROVE  Honest
<1>1. PICK ok \in BOOLEAN :
          /\ ClearDns(i, ok)
          /\ Reports([command |-> "dns_clear", iface |-> i], ok)
          /\ UNCHANGED <<proxy, active, config>>
  BY DEF DnsClear
<1>2. /\ call' = [command |-> "dns_clear", iface |-> i] /\ told' = {}
      /\ answer'.exit = IF ok THEN 0 ELSE 1
  BY <1>1 DEF Reports, Ends
<1>3. /\ dns' \in [Ifaces -> DnsServers \cup {Automatic}]
      /\ ok => dns'[Resolve(i)] = Automatic
      /\ \A j \in Ifaces \ {Resolve(i)} : dns'[j] = dns[j]
  BY <1>1, DnsCommandDoes, CommandAssumption DEF ClearDns, DnsValues, AnswerTypes
<1>4. AnswerTypes'
  BY <1>1, <1>2, <1>3 DEF AnswerTypes, SettingsTypeOK, ExitCodes
<1>. QED
  BY <1>1, <1>2, <1>3, <1>4 DEF Honest, TruthStep, OneSettingStep

LEMMA ProxyHonest ==
    ASSUME AnswerTypes,
           ProxyDisable \/ (\E server : ProxyEnable(server)) \/ (\E url : ProxyPac(url))
    PROVE  Honest
<1>1. ASSUME NEW server, ProxyEnable(server) PROVE Honest
  <2>1. PICK ok \in BOOLEAN :
            /\ EnableProxy(server, ok)
            /\ Reports([command |-> "proxy_enable", server |-> server], ok)
            /\ UNCHANGED <<dns, active, config>>
    BY <1>1 DEF ProxyEnable
  <2>2. /\ call' = [command |-> "proxy_enable", server |-> server] /\ told' = {}
        /\ answer'.exit = IF ok THEN 0 ELSE 1
    BY <2>1 DEF Reports, Ends
  <2>3. /\ proxy' \in Registry
        /\ ok => proxy'.enable = 1 /\ proxy'.server = server
        /\ proxy'.pac = proxy.pac
        /\ proxy.override # Absent => proxy'.override = proxy.override
    BY <2>1, EnableProxyDoes DEF AnswerTypes
  <2>4. AnswerTypes'
    BY <2>1, <2>2, <2>3 DEF AnswerTypes, SettingsTypeOK, ExitCodes
  <2>. QED
    BY <2>1, <2>2, <2>3, <2>4 DEF Honest, TruthStep, OneSettingStep
<1>2. ASSUME NEW url, ProxyPac(url) PROVE Honest
  <2>1. PICK ok \in BOOLEAN :
            /\ SetPac(url, ok)
            /\ Reports([command |-> "proxy_pac", url |-> url], ok)
            /\ UNCHANGED <<dns, active, config>>
    BY <1>2 DEF ProxyPac
  <2>2. /\ call' = [command |-> "proxy_pac", url |-> url] /\ told' = {}
        /\ answer'.exit = IF ok THEN 0 ELSE 1
    BY <2>1 DEF Reports, Ends
  <2>3. /\ proxy' \in Registry
        /\ ok => proxy'.enable = 0 /\ proxy'.pac = url
        /\ proxy'.override = proxy.override
    BY <2>1, SetPacDoes DEF AnswerTypes
  <2>4. AnswerTypes'
    BY <2>1, <2>2, <2>3 DEF AnswerTypes, SettingsTypeOK, ExitCodes
  <2>. QED
    BY <2>1, <2>2, <2>3, <2>4 DEF Honest, TruthStep, OneSettingStep
<1>3. CASE ProxyDisable
  <2>1. PICK ok \in BOOLEAN :
            /\ DisableProxy(ok)
            /\ Reports([command |-> "proxy_disable"], ok)
            /\ UNCHANGED <<dns, active, config>>
    BY <1>3 DEF ProxyDisable
  <2>2. /\ call' = [command |-> "proxy_disable"] /\ told' = {}
        /\ answer'.exit = IF ok THEN 0 ELSE 1
    BY <2>1 DEF Reports, Ends
  <2>3. /\ proxy' \in Registry
        /\ ok => proxy'.enable = 0
        /\ proxy'.pac = proxy.pac
        /\ proxy'.override = proxy.override
    BY <2>1, DisableProxyDoes DEF AnswerTypes
  <2>4. AnswerTypes'
    BY <2>1, <2>2, <2>3 DEF AnswerTypes, SettingsTypeOK, ExitCodes
  <2>. QED
    BY <2>1, <2>2, <2>3, <2>4 DEF Honest, TruthStep, OneSettingStep
<1>. QED
  BY <1>1, <1>2, <1>3

LEMMA DdnsForceHonest ==
    ASSUME AnswerTypes, NEW urls \in SUBSET Families, DdnsForce(urls)
    PROVE  Honest
<1>1. /\ call' = [command |-> "ddns_force", urls |-> urls]
      /\ UNCHANGED <<dns, proxy, active>>
  BY DEF DdnsForce, Machine
<1>2. config' \in ConfigStates /\ (config' # config => config = "unusable")
  BY LoadTypes DEF DdnsForce
<1>3. CASE told' = {} /\ answer' = [exit |-> 1]
  BY <1>1, <1>2, <1>3 DEF Honest, AnswerTypes, SettingsTypeOK, ExitCodes, TruthStep, OneSettingStep
<1>4. CASE ~(told' = {} /\ answer' = [exit |-> 1])
  <2>1. PICK outcome \in Outcomes(urls) :
            /\ told' = {f \in Tried(urls) : outcome[f] \in {"answer_lost", "updated"}}
            /\ answer' = [exit |-> IF Succeeds(outcome) THEN 0 ELSE 1]
    BY <1>4 DEF DdnsForce
  <2>2. DOMAIN outcome = Tried(urls)
    BY <2>1 DEF Outcomes
  <2>3. Tried(urls) \subseteq urls /\ urls \ Tried(urls) \subseteq {"legacy"}
    BY DEF Tried
  <2>4. Succeeds(outcome) => told' = Tried(urls) /\ Tried(urls) # {}
    BY <2>1, <2>2 DEF Succeeds
  <2>5. answer'.exit \in {0, 1} /\ (answer'.exit = 0 => Succeeds(outcome))
    BY <2>1
  <2>6. told' \subseteq Families
    BY <2>1, <2>3
  <2>7. AnswerTypes'
    BY <1>1, <1>2, <2>5, <2>6 DEF AnswerTypes, SettingsTypeOK, ExitCodes
  <2>8. TruthStep
    BY <1>1, <2>3, <2>4, <2>5 DEF TruthStep
  <2>9. OneSettingStep
    BY <1>1, <1>2, <2>5 DEF OneSettingStep
  <2>. QED
    BY <2>7, <2>8, <2>9 DEF Honest
<1>. QED
  BY <1>3, <1>4

\* A command that only tells.
LEMMA TellsHonest ==
    ASSUME AnswerTypes, NEW command, NEW result, Tells(command, result),
           result.exit \in ExitCodes,
           command.command \in {"status", "plugins_verify_bundle", "diagnose", "multiwan_status",
                                "pcap_plan", "traffic_history", "anomalies", "frontier_gate"},
           command.command = "plugins_verify_bundle" =>
                (result.exit = 0 => command.files \subseteq {"as_listed"}),
           command.command = "diagnose" => (result.probed => command.consent)
    PROVE  Honest
<1>1. call' = command /\ answer' = result /\ told' = {} /\ UNCHANGED <<dns, proxy, active, config>>
  BY DEF Tells
<1>2. AnswerTypes'
  BY <1>1 DEF AnswerTypes, SettingsTypeOK
<1>. QED
  BY <1>1, <1>2 DEF Honest, TruthStep, OneSettingStep

LEMMA DiagnoseHonest ==
    ASSUME AnswerTypes, NEW kind, NEW input, NEW verdict, Diagnose(kind, input, verdict)
    PROVE  Honest
<1>. DEFINE c == [command |-> "diagnose", kind |-> kind, consent |-> TRUE, input |-> input]
            r == [exit |-> 0, probed |-> TRUE, verdict |-> verdict]
<1>1. c.command = "diagnose" /\ r.exit \in ExitCodes
  BY DEF ExitCodes
<1>2. c.consent
  BY Zenon
<1>3. Tells(c, r)
  BY DEF Diagnose
<1>. HIDE DEF c, r
<1>. QED
  BY <1>1, <1>2, <1>3, TellsHonest

LEMMA ReadsHonest ==
    ASSUME AnswerTypes, Reads
    PROVE  Honest
<1>. USE DEF ExitCodes
<1>1. CASE ReadConfig
  <2>1. /\ call' = [command |-> "read_config"] /\ told' = {}
        /\ answer'.exit \in {0, 1} /\ UNCHANGED <<dns, proxy, active>>
        /\ config' \in ConfigStates /\ (config' # config => config = "unusable")
    BY <1>1, LoadTypes DEF ReadConfig, Reports, Ends, Machine
  <2>2. AnswerTypes'
    BY <2>1 DEF AnswerTypes, SettingsTypeOK
  <2>. QED
    BY <2>1, <2>2 DEF Honest, TruthStep, OneSettingStep
<1>2. CASE Status
  <2>. DEFINE c == [command |-> "status"]
              r == [exit |-> 0, enabled |-> proxy.enable = 1]
  <2>1. c.command = "status" /\ r.exit \in ExitCodes /\ Tells(c, r)
    BY <1>2 DEF Status
  <2>. HIDE DEF c, r
  <2>. QED
    BY <2>1, TellsHonest
<1>3. ASSUME NEW files, VerifyBundle(files) PROVE Honest
  <2>. DEFINE c == [command |-> "plugins_verify_bundle", files |-> files]
              r == [exit |-> IF files \subseteq {"as_listed"} THEN 0 ELSE 1]
  <2>1. /\ c.command = "plugins_verify_bundle" /\ r.exit \in ExitCodes
        /\ r.exit = 0 => c.files \subseteq {"as_listed"}
    OBVIOUS
  <2>2. Tells(c, r)
    BY <1>3 DEF VerifyBundle
  <2>. HIDE DEF c, r
  <2>. QED
    BY <2>1, <2>2, TellsHonest
<1>4. ASSUME NEW kind, Refuse(kind) PROVE Honest
  <2>. DEFINE c == [command |-> "diagnose", kind |-> kind, consent |-> FALSE]
              r == [exit |-> 2, probed |-> FALSE]
  <2>1. c.command = "diagnose" /\ r.exit \in ExitCodes
    OBVIOUS
  <2>2. ~r.probed
    BY Zenon
  <2>3. Tells(c, r)
    BY <1>4 DEF Refuse
  <2>. HIDE DEF c, r
  <2>. QED
    BY <2>1, <2>2, <2>3, TellsHonest
<1>5. ASSUME NEW kind, NEW input, NEW verdict, Diagnose(kind, input, verdict) PROVE Honest
  BY <1>5, DiagnoseHonest
<1>6. ASSUME NEW adapters, MultiwanStatus(adapters) PROVE Honest
  <2>. DEFINE c == [command |-> "multiwan_status", adapters |-> adapters]
              r == [exit |-> 0, failover |-> Failover(adapters)]
  <2>1. c.command = "multiwan_status" /\ r.exit \in ExitCodes /\ Tells(c, r)
    BY <1>6 DEF MultiwanStatus
  <2>. HIDE DEF c, r
  <2>. QED
    BY <2>1, TellsHonest
<1>7. ASSUME NEW seconds, PcapPlan(seconds) PROVE Honest
  <2>. DEFINE c == [command |-> "pcap_plan", duration |-> seconds]
              r == [exit |-> 0, request |-> CaptureRequest(seconds)]
  <2>1. c.command = "pcap_plan" /\ r.exit \in ExitCodes /\ Tells(c, r)
    BY <1>7 DEF PcapPlan
  <2>. HIDE DEF c, r
  <2>. QED
    BY <2>1, TellsHonest
<1>8. ASSUME NEW history, NEW limit, TrafficHistory(history, limit) PROVE Honest
  <2>. DEFINE c == [command |-> "traffic_history", history |-> history, limit |-> limit]
              r == [exit |-> 0, delta |-> Delta(Recent(Rows(history), limit))]
  <2>1. c.command = "traffic_history" /\ r.exit \in ExitCodes /\ Tells(c, r)
    BY <1>8 DEF TrafficHistory
  <2>. HIDE DEF c, r
  <2>. QED
    BY <2>1, TellsHonest
<1>9. ASSUME NEW history, Anomalies(history) PROVE Honest
  <2>. DEFINE c == [command |-> "anomalies", history |-> history]
              r == [exit |-> 0, spike |-> Spike(Recent(Rows(history), 120))]
  <2>1. c.command = "anomalies" /\ r.exit \in ExitCodes /\ Tells(c, r)
    BY <1>9 DEF Anomalies
  <2>. HIDE DEF c, r
  <2>. QED
    BY <2>1, TellsHonest
<1>10. ASSUME NEW id, NEW operation, NEW given, FrontierGate(id, operation, given) PROVE Honest
  <2>. DEFINE c == [command |-> Gate, capability |-> id, operation |-> operation, given |-> given]
              r == [exit |-> IF Allowed(id, operation, given) THEN 0 ELSE 2,
                    decision |-> Decision(id, operation, given)]
  <2>1. c.command = "frontier_gate" /\ r.exit \in ExitCodes /\ Tells(c, r)
    BY <1>10 DEF FrontierGate, Gate
  <2>. HIDE DEF c, r
  <2>. QED
    BY <2>1, TellsHonest
<1>. QED
  BY <1>1, <1>2, <1>3, <1>4, <1>5, <1>6, <1>7, <1>8, <1>9, <1>10
     DEF Reads, DiagnoseNames, DiagnoseTls, DiagnoseSni, DiagnoseCaptive

LEMMA ChangesHonest ==
    ASSUME AnswerTypes, Changes
    PROVE  Honest
<1>1. ASSUME NEW dual \in BOOLEAN, NEW urls \in UrlSets,
             DdnsForce(IF dual THEN urls ELSE urls \cap {"legacy"})
      PROVE  Honest
  <2>1. (IF dual THEN urls ELSE urls \cap {"legacy"}) \in SUBSET Families
    BY CommandAssumption
  <2>. QED
    BY <1>1, <2>1, DdnsForceHonest
<1>. QED
  BY <1>1, DnsApplyHonest, DnsClearHonest, ProxyHonest DEF Changes

LEMMA StepsHonest ==
    ASSUME AnswerTypes, [Next]_commandVars
    PROVE  AnswerTypes' /\ [TruthStep]_commandVars /\ [OneSettingStep]_commandVars
<1>1. CASE Moves
  <2>1. AnswerTypes'
    BY <1>1 DEF Moves, SwitchInterface, AnswerTypes, SettingsTypeOK
  <2>2. ~ACommand
    BY <1>1 DEF Moves, ACommand
  <2>. QED
    BY <2>1, <2>2 DEF TruthStep, OneSettingStep
<1>2. CASE UNCHANGED commandVars
  BY <1>2 DEF commandVars, AnswerTypes, SettingsTypeOK
<1>3. CASE Changes \/ Reads
  BY <1>3, ChangesHonest, ReadsHonest DEF Honest
<1>. QED
  BY <1>1, <1>2, <1>3 DEF Next

LEMMA AnswerTypesAlways == Spec => []AnswerTypes
<1>1. Init => AnswerTypes
  <2>. SUFFICES ASSUME Init PROVE AnswerTypes
    OBVIOUS
  <2>1. SettingsTypeOK
    BY SettingsAssumption DEF Init, SettingsInit, SettingsTypeOK
  <2>. QED
    BY <2>1, CommandAssumption DEF Init, AnswerTypes, ExitCodes
<1>. QED
  BY <1>1, StepsHonest, PTL DEF Spec

\* Types, for every set of arguments (lucid_cli.main returns 0, 1 or 2).
THEOREM CommandTypesAlways == Spec => []TypeOK
<1>. DEFINE Bounded == changes \in 0..MaxChanges
<1>1. Init => Bounded
  BY CommandAssumption DEF Init
<1>2. Bounded /\ [Next]_commandVars => Bounded'
  BY CommandAssumption DEF Next, commandVars
<1>3. AnswerTypes /\ Bounded => TypeOK
  BY DEF AnswerTypes, TypeOK
<1>. HIDE DEF Bounded
<1>. QED
  BY <1>1, <1>2, <1>3, AnswerTypesAlways, PTL DEF Spec

\* Whatever fails, for every profile, adapter, server, URL and family: exit
\* code 0 means done (lucid_cli.main).
THEOREM ExitTellsTruthAlways == Spec => ExitTellsTruth
BY AnswerTypesAlways, StepsHonest, PTL DEF Spec, ExitTellsTruth

\* Whatever fails and wherever it stops: a command changes what it names and
\* nothing else (lucid_cli.main).
THEOREM NothingElseChangesAlways == Spec => NothingElseChanges
BY AnswerTypesAlways, StepsHonest, PTL DEF Spec, NothingElseChanges

-----------------------------------------------------------------------------
(* What the diagnostics conclude                                           *)

NameVerdicts(domain, path) == {DnsIntegrity(domain, path), TransparentDns(domain, path)}

\* Two honest answers have an IPv4 address in common, for such a domain.
LEMMA HonestNames ==
    ASSUME NEW domain, NEW path, domain.a \cap domain.far # {},
           path.local = "honest", path.trusted = "honest", NEW v \in NameVerdicts(domain, path)
    PROVE  v.status \in {"normal", "partial_mismatch", "no_proxy_evidence", "mixed_evidence"}
<1>. DEFINE local == SystemAnswers(domain, path)
            trusted == TrustedAnswers(domain, path)
<1>1. local = domain.a \cup domain.aaaa /\ trusted = domain.far \cup domain.cname
  BY DEF SystemAnswers, TrustedAnswers
<1>2. local \cap trusted # {} /\ local # {} /\ trusted # {}
  BY <1>1
<1>3. v \in {CompareDns(local, trusted), ComparePath(local, trusted)}
  BY DEF NameVerdicts, DnsIntegrity, TransparentDns
<1>. HIDE DEF local, trusted
<1>. QED
  BY <1>2, <1>3 DEF CompareDns, ComparePath, Verdict

\* A forged answer has nothing in common with an honest one.
LEMMA ForgedNames ==
    ASSUME NEW domain \in Domains, NEW path \in Paths, NEW v \in NameVerdicts(domain, path)
    PROVE  /\ path.local = "forged" =>
                /\ v.status \notin {"normal", "no_proxy_evidence"}
                /\ TrustedAnswers(domain, path) # {} =>
                        v.status \in {"mismatch", "possible_interception"}
           /\ v.confidence = "medium" => TrustedAnswers(domain, path) # {}
<1>. DEFINE local == SystemAnswers(domain, path)
            trusted == TrustedAnswers(domain, path)
<1>1. path.forged # {} /\ path.forged \cap (domain.a \cup domain.far \cup domain.aaaa \cup domain.cname) = {}
  BY CommandAssumption
<1>2. path.local = "forged" => local = path.forged
  BY DEF SystemAnswers
<1>3. trusted \subseteq domain.far \cup domain.cname
  BY DEF TrustedAnswers
<1>4. path.local = "forged" => local # {} /\ local \cap trusted = {}
  BY <1>1, <1>2, <1>3
<1>5. v \in {CompareDns(local, trusted), ComparePath(local, trusted)}
  BY DEF NameVerdicts, DnsIntegrity, TransparentDns
<1>6. path.local = "forged" =>
        /\ v.status \notin {"normal", "no_proxy_evidence"}
        /\ trusted # {} => v.status \in {"mismatch", "possible_interception"}
  <2>. HIDE DEF local, trusted
  <2>1. local # {} /\ local \cap trusted = {} => local # trusted
    OBVIOUS
  <2>. QED
    BY <1>4, <1>5, <2>1 DEF CompareDns, ComparePath, Verdict
<1>7. v.confidence = "medium" => trusted # {}
  <2>. HIDE DEF local, trusted
  <2>. QED
    BY <1>5 DEF CompareDns, ComparePath, Verdict
<1>. QED
  BY <1>6, <1>7

-----------------------------------------------------------------------------
(* The failover recommendation                                             *)

\* Every set of natural numbers has a least one.
LEMMA LeastNumber ==
    ASSUME NEW T \in SUBSET Nat, T # {}
    PROVE  \E n \in T : \A m \in T : n <= m
<1>. DEFINE Below == {1..n : n \in T}
<1>1. Below \subseteq FiniteSubsetsOf(Nat)
  <2>1. \A n \in T : 1..n \subseteq Nat /\ IsFiniteSet(1..n)
    BY FS_Interval
  <2>. QED
    BY <2>1 DEF FiniteSubsetsOf
<1>2. Below # {}
  OBVIOUS
<1>. HIDE DEF Below
<1>3. PICK least \in Below : \A b \in Below : <<b, least>> \notin StrictSubsetOrdering(Nat)
  BY <1>1, <1>2, FS_StrictSubsetOrderingWellFounded, WFMin
<1>4. PICK n \in T : least = 1..n
  BY <1>3 DEF Below
<1>5. ASSUME NEW m \in T, m < n PROVE FALSE
  <2>1. 1..m \subseteq 1..n /\ 1..m # 1..n /\ 1..n \subseteq Nat
    <3>1. n \in 1..n /\ n \notin 1..m
      BY <1>5
    <3>. QED
      BY <1>5, <3>1
  <2>2. 1..m \in Below
    BY DEF Below
  <2>. QED
    BY <1>3, <1>4, <2>1, <2>2 DEF StrictSubsetOrdering
<1>. QED
  BY <1>5

Named(adapters) == \A a, b \in adapters : a.name \in Nat /\ (a.name = b.name => a = b)

\* Of two adapters one comes before the other, and never both.
LEMMA BeforeIsOrder ==
    ASSUME NEW adapters, Named(adapters), NEW a \in adapters, NEW b \in adapters
    PROVE  /\ Metric(a) \in Nat
           /\ ~(Before(a, b) /\ Before(b, a))
           /\ a # b => Before(a, b) \/ Before(b, a)
<1>1. Metric(a) \in Nat /\ Metric(b) \in Nat
  BY DEF Metric
<1>. QED
  BY <1>1 DEF Before, Named

\* Among some adapters there is a first one.
LEMMA FirstAdapter ==
    ASSUME NEW adapters, Named(adapters), adapters # {}
    PROVE  \E a \in adapters : \A b \in adapters : ~Before(b, a)
<1>. DEFINE metrics == {Metric(a) : a \in adapters}
<1>1. PICK m \in metrics : \A n \in metrics : m <= n
  <2>1. metrics \in SUBSET Nat /\ metrics # {}
    BY BeforeIsOrder
  <2>. HIDE DEF metrics
  <2>. QED
    BY <2>1, LeastNumber
<1>. DEFINE names == {a.name : a \in {c \in adapters : Metric(c) = m}}
<1>2. PICK l \in names : \A n \in names : l <= n
  <2>1. names \in SUBSET Nat /\ names # {}
    BY <1>1 DEF Named
  <2>. HIDE DEF names
  <2>. QED
    BY <2>1, LeastNumber
<1>3. PICK a \in adapters : Metric(a) = m /\ a.name = l
  BY <1>2
<1>4. ASSUME NEW b \in adapters, Before(b, a) PROVE FALSE
  <2>1. Metric(b) \in metrics /\ Metric(b) \in Nat /\ m \in Nat
    BY <1>3, BeforeIsOrder
  <2>2. Metric(b) = m
    BY <1>1, <1>3, <1>4, <2>1 DEF Before
  <2>3. b.name \in names /\ b.name < l /\ b.name \in Nat /\ l \in Nat
    BY <1>3, <1>4, <2>1, <2>2 DEF Before, Named
  <2>. QED
    BY <1>2, <2>3
<1>. QED
  BY <1>4

\* adapter_failover_recommendation, for every finite set of adapters.
LEMMA FailoverTakesOver ==
    ASSUME NEW adapters, IsFiniteSet(adapters), Named(adapters)
    PROVE  /\ Cardinality(Usable(adapters)) >= 2 <=> Failover(adapters) # {}
           /\ \A pair \in Failover(adapters) :
                /\ pair[1] # pair[2] /\ {pair[1], pair[2]} \subseteq Usable(adapters)
                /\ \A next \in Failover(adapters \ {pair[1]}) : next[1] = pair[2]
<1>. DEFINE usable == Usable(adapters)
            Ahead(a) == {b \in usable : Before(b, a)}
<1>1. usable \subseteq adapters /\ IsFiniteSet(usable) /\ Named(usable)
  <2>1. usable \subseteq adapters
    BY DEF Usable
  <2>. QED
    BY <2>1, FS_Subset DEF Named
<1>2. \A a : IsFiniteSet(Ahead(a)) /\ Ahead(a) \subseteq usable
  BY <1>1, FS_Subset
<1>3. \A pair : pair \in Failover(adapters) <=>
        /\ pair \in usable \X usable /\ Cardinality(usable) >= 2
        /\ Cardinality(Ahead(pair[1])) = 0 /\ Cardinality(Ahead(pair[2])) = 1
  BY DEF Failover
<1>4. ASSUME NEW a PROVE Cardinality(Ahead(a)) = 0 <=> Ahead(a) = {}
  BY <1>2, FS_EmptySet
<1>5. ASSUME NEW a PROVE Cardinality(Ahead(a)) = 1 <=> \E b : Ahead(a) = {b}
  BY <1>2, FS_Singleton
<1>6. ASSUME Cardinality(usable) >= 2 PROVE Failover(adapters) # {}
  <2>1. usable # {}
    BY <1>1, <1>6, FS_EmptySet
  <2>2. PICK a \in usable : \A b \in usable : ~Before(b, a)
    <3>. HIDE DEF usable
    <3>. QED
      BY <1>1, <2>1, FirstAdapter
  <2>3. usable \ {a} # {} /\ Named(usable \ {a})
    <3>1. Cardinality(usable \ {a}) = Cardinality(usable) - 1 /\ IsFiniteSet(usable \ {a})
      BY <1>1, <2>2, FS_RemoveElement
    <3>2. Cardinality(usable) \in Nat
      BY <1>1, FS_CardinalityType
    <3>3. Cardinality(usable \ {a}) # 0
      BY <1>6, <3>1, <3>2
    <3>. QED
      BY <1>1, <3>1, <3>3, FS_EmptySet DEF Named
  <2>4. PICK c \in usable \ {a} : \A b \in usable \ {a} : ~Before(b, c)
    <3>. HIDE DEF usable
    <3>. QED
      BY <2>3, FirstAdapter
  <2>5. Before(a, c)
    <3>. HIDE DEF usable
    <3>. QED
      BY <1>1, <2>2, <2>4, BeforeIsOrder
  <2>6. Ahead(a) = {} /\ Ahead(c) = {a}
    BY <2>2, <2>4, <2>5
  <2>7. Cardinality(Ahead(a)) = 0 /\ Cardinality(Ahead(c)) = 1
    BY <1>4, <1>5, <2>6
  <2>8. <<a, c>>[1] = a /\ <<a, c>>[2] = c /\ <<a, c>> \in usable \X usable
    BY <2>2, <2>4
  <2>9. <<a, c>> \in Failover(adapters)
    <3>. HIDE DEF usable, Ahead
    <3>. QED
      BY <1>3, <1>6, <2>7, <2>8
  <2>. QED
    BY <2>9
<1>7. ASSUME NEW pair \in Failover(adapters)
      PROVE  /\ pair[1] # pair[2] /\ {pair[1], pair[2]} \subseteq usable
             /\ \A next \in Failover(adapters \ {pair[1]}) : next[1] = pair[2]
  <2>1. /\ pair[1] \in usable /\ pair[2] \in usable /\ pair[1] # pair[2]
        /\ Ahead(pair[1]) = {} /\ \E b : Ahead(pair[2]) = {b}
    <3>. HIDE DEF usable, Ahead
    <3>1. /\ pair \in usable \X usable
          /\ Cardinality(Ahead(pair[1])) = 0 /\ Cardinality(Ahead(pair[2])) = 1
      BY <1>3, <1>7
    <3>. QED
      BY <1>4, <1>5, <3>1
  <2>2. Before(pair[1], pair[2])
    <3>1. ~Before(pair[2], pair[1])
      BY <2>1
    <3>. HIDE DEF usable
    <3>. QED
      BY <1>1, <2>1, <3>1, BeforeIsOrder
  <2>3. Ahead(pair[2]) = {pair[1]}
    BY <2>1, <2>2
  <2>4. ASSUME NEW next \in Failover(adapters \ {pair[1]}) PROVE next[1] = pair[2]
    <3>1. Usable(adapters \ {pair[1]}) = usable \ {pair[1]}
      BY DEF Usable
    <3>2. /\ next[1] \in usable \ {pair[1]}
          /\ Cardinality({b \in usable \ {pair[1]} : Before(b, next[1])}) = 0
      BY <2>4, <3>1 DEF Failover
    <3>3. IsFiniteSet({b \in usable \ {pair[1]} : Before(b, next[1])})
      BY <1>1, FS_Subset
    <3>4. {b \in usable \ {pair[1]} : Before(b, next[1])} = {}
      BY <3>2, <3>3, FS_EmptySet
    <3>5. pair[2] \in usable \ {pair[1]} /\ ~Before(pair[2], next[1])
      BY <2>1, <3>4
    <3>6. ~Before(next[1], pair[2])
      BY <2>3, <3>2
    <3>. HIDE DEF usable
    <3>. QED
      BY <1>1, <3>2, <3>5, <3>6, BeforeIsOrder
  <2>. QED
    BY <2>1, <2>4
<1>. HIDE DEF usable, Ahead
<1>8. Failover(adapters) # {} => Cardinality(usable) >= 2
  BY <1>3
<1>. QED
  BY <1>6, <1>7, <1>8 DEF usable

-----------------------------------------------------------------------------
(* Totals and counters                                                     *)

\* Induction over 0..N, for a set in the place of a formula.
LEMMA Induction ==
    ASSUME NEW N \in Nat, NEW S, 0 \in S, \A n \in 0..(N - 1) : n \in S => n + 1 \in S
    PROVE  0..N \subseteq S
<1>. DEFINE T == {n \in Nat : n \in 0..N /\ n \notin S}
<1>1. ASSUME T # {} PROVE FALSE
  <2>1. PICK n \in T : \A m \in T : n <= m
    <3>1. T \in SUBSET Nat
      OBVIOUS
    <3>. HIDE DEF T
    <3>. QED
      BY <1>1, <3>1, LeastNumber
  <2>2. n # 0 /\ n - 1 \in 0..(N - 1) /\ n - 1 \notin T
    BY <2>1
  <2>. QED
    BY <2>1, <2>2
<1>. QED
  BY <1>1

\* f[n] is the state of a loop after n of its m rounds.
Runs(f, m, start, round) ==
    f[0] = start /\ \A n \in 0..(m - 1) : f[n + 1] = round[n + 1][f[n]]

\* A loop of N rounds, each of which takes a state of S to a state of S, has
\* its states.
LEMMA Recursion ==
    ASSUME NEW N \in Nat, NEW S, NEW start \in S, NEW round \in [1..N -> [S -> S]]
    PROVE  \E f \in [0..N -> S] : Runs(f, N, start, round)
<1>. DEFINE M == {m \in 0..N : \E f \in [0..m -> S] : Runs(f, m, start, round)}
<1>1. 0 \in M
  <2>. DEFINE f == [n \in 0..0 |-> start]
  <2>1. f[0] = start
    OBVIOUS
  <2>2. f \in [0..0 -> S]
    OBVIOUS
  <2>. HIDE DEF f
  <2>3. Runs(f, 0, start, round)
    BY <2>1 DEF Runs
  <2>4. 0 \in 0..N
    OBVIOUS
  <2>. QED
    BY <2>2, <2>3, <2>4
<1>2. ASSUME NEW m \in 0..(N - 1), m \in M PROVE m + 1 \in M
  <2>1. PICK f \in [0..m -> S] : Runs(f, m, start, round)
    BY <1>2
  <2>. DEFINE last == round[m + 1][f[m]]
              g == [n \in 0..(m + 1) |-> IF n = m + 1 THEN last ELSE f[n]]
  <2>2. m \in Nat /\ m + 1 \in 1..N /\ m \in 0..m
    OBVIOUS
  <2>3. last \in S
    <3>1. round[m + 1] \in [S -> S] /\ f[m] \in S
      BY <2>2
    <3>. QED
      BY <3>1
  <2>. HIDE DEF last
  <2>4. g[m + 1] = last /\ \A n \in 0..m : g[n] = f[n]
    BY <2>2
  <2>5. g \in [0..(m + 1) -> S]
    BY <2>2, <2>3
  <2>6. Runs(g, m + 1, start, round)
    <3>. HIDE DEF g
    <3>1. g[0] = start
      BY <2>1, <2>2, <2>4 DEF Runs
    <3>2. ASSUME NEW n \in 0..m PROVE g[n + 1] = round[n + 1][g[n]]
      <4>1. CASE n = m
        BY <2>2, <2>4, <4>1 DEF last
      <4>2. CASE n # m
        <5>1. n \in 0..(m - 1) /\ n + 1 \in 0..m
          BY <2>2, <4>2
        <5>. QED
          BY <2>1, <2>4, <5>1 DEF Runs
      <4>. QED
        BY <4>1, <4>2
    <3>3. (m + 1) - 1 = m
      BY <2>2
    <3>. QED
      BY <3>1, <3>2, <3>3 DEF Runs
  <2>. HIDE DEF g
  <2>7. m + 1 \in 0..N
    OBVIOUS
  <2>. QED
    BY <2>5, <2>6, <2>7
<1>. HIDE DEF M
<1>3. N \in M
  <2>1. 0..N \subseteq M
    BY <1>1, <1>2, Induction
  <2>. QED
    BY <2>1
<1>. QED
  BY <1>3 DEF M

\* The loop of TotalTo: total[k] is that of the first k numbers.
Totals(numbers, N, total) ==
    /\ total[0] = 0
    /\ \A k \in 0..(N - 1) : total[k + 1] = total[k] + numbers[k + 1]

LEMMA TotalLoop ==
    ASSUME NEW N \in Nat, NEW numbers, \A k \in 1..N : numbers[k] \in Int
    PROVE  \E total \in [0..N -> Int] :
                Totals(numbers, N, total) /\ TotalTo(numbers, N) = total[N]
<1>. DEFINE Body(total, k) == IF k = 0 THEN 0 ELSE total[k - 1] + numbers[k]
            Is(total) == total = [k \in 0..N |-> Body(total, k)]
            round == [k \in 1..N |-> [c \in Int |-> c + numbers[k]]]
<1>1. round \in [1..N -> [Int -> Int]]
  OBVIOUS
<1>2. PICK f \in [0..N -> Int] : Runs(f, N, 0, round)
  <2>1. 0 \in Int
    OBVIOUS
  <2>. DEFINE S == Int
  <2>2. round \in [1..N -> [S -> S]] /\ 0 \in S
    BY <1>1, <2>1
  <2>. HIDE DEF round, S
  <2>3. \E f \in [0..N -> S] : Runs(f, N, 0, round)
    BY <2>2, Recursion
  <2>. QED
    BY <2>3 DEF S
<1>3. Totals(numbers, N, f)
  <2>1. ASSUME NEW k \in 0..(N - 1) PROVE f[k + 1] = f[k] + numbers[k + 1]
    <3>1. k \in 0..N /\ k + 1 \in 1..N
      OBVIOUS
    <3>2. f[k] \in Int
      BY <3>1
    <3>3. f[k + 1] = round[k + 1][f[k]]
      <4>. HIDE DEF round
      <4>. QED
        BY <1>2 DEF Runs
    <3>4. round[k + 1][f[k]] = f[k] + numbers[k + 1]
      BY <3>1, <3>2
    <3>. QED
      BY <3>3, <3>4
  <2>2. f[0] = 0
    <3>. HIDE DEF round
    <3>. QED
      BY <1>2 DEF Runs
  <2>. QED
    BY <2>1, <2>2 DEF Totals
<1>. HIDE DEF round
<1>4. Is(f)
  <2>1. ASSUME NEW k \in 0..N PROVE f[k] = Body(f, k)
    <3>1. CASE k = 0
      BY <1>3, <3>1 DEF Totals
    <3>2. CASE k # 0
      <4>1. k - 1 \in 0..(N - 1) /\ (k - 1) + 1 = k
        BY <3>2
      <4>2. f[k] = f[k - 1] + numbers[k]
        BY <1>3, <4>1 DEF Totals
      <4>. QED
        BY <3>2, <4>2
    <3>. QED
      BY <3>1, <3>2
  <2>2. f = [k \in 0..N |-> f[k]]
    BY <1>2
  <2>. HIDE DEF Body
  <2>. QED
    BY <2>1, <2>2
<1>. DEFINE total == CHOOSE f1 : Is(f1)
<1>5. Is(total)
  <2>. HIDE DEF Is
  <2>. QED
    BY <1>4
<1>6. TotalTo(numbers, N) = total[N]
  BY DEF TotalTo
<1>. HIDE DEF total
<1>7. \A k \in 0..N : total[k] = Body(total, k)
  <2>. HIDE DEF Body
  <2>. QED
    BY <1>5
<1>8. Totals(numbers, N, total)
  <2>1. total[0] = 0
    BY <1>7
  <2>2. ASSUME NEW k \in 0..(N - 1) PROVE total[k + 1] = total[k] + numbers[k + 1]
    <3>1. k + 1 \in 0..N /\ k + 1 # 0 /\ (k + 1) - 1 = k
      OBVIOUS
    <3>2. total[k + 1] = Body(total, k + 1)
      BY <1>7, <3>1
    <3>. QED
      BY <3>1, <3>2
  <2>. QED
    BY <2>1, <2>2 DEF Totals
<1>9. \A k \in 0..N : total[k] \in Int
  <2>. DEFINE S == {k \in 0..N : total[k] \in Int}
  <2>1. 0 \in S
    BY <1>8 DEF Totals
  <2>2. ASSUME NEW k \in 0..(N - 1), k \in S PROVE k + 1 \in S
    <3>1. k + 1 \in 0..N /\ k + 1 \in 1..N
      OBVIOUS
    <3>2. total[k + 1] = total[k] + numbers[k + 1]
      BY <1>8 DEF Totals
    <3>3. total[k] \in Int /\ numbers[k + 1] \in Int
      BY <2>2, <3>1
    <3>. QED
      BY <3>1, <3>2, <3>3
  <2>. HIDE DEF S
  <2>3. 0..N \subseteq S
    BY <2>1, <2>2, Induction
  <2>. QED
    BY <2>3 DEF S
<1>10. total \in [0..N -> Int]
  <2>1. total = [k \in 0..N |-> total[k]]
    <3>. HIDE DEF Body
    <3>. QED
      BY <1>5
  <2>. QED
    BY <1>9, <2>1
<1>. QED
  BY <1>6, <1>8, <1>10

\* A total is that of one number less, and the number.
LEMMA TotalStep ==
    ASSUME NEW n \in Nat, NEW numbers, \A k \in 1..(n + 1) : numbers[k] \in Int
    PROVE  /\ TotalTo(numbers, 0) = 0
           /\ TotalTo(numbers, n) \in Int
           /\ TotalTo(numbers, n + 1) = TotalTo(numbers, n) + numbers[n + 1]
<1>1. \A k \in 1..n : numbers[k] \in Int
  OBVIOUS
<1>2. TotalTo(numbers, 0) = 0
  <2>1. \A k \in 1..0 : numbers[k] \in Int
    OBVIOUS
  <2>. QED
    BY <2>1, TotalLoop DEF Totals
<1>3. PICK f \in [0..n -> Int] : Totals(numbers, n, f) /\ TotalTo(numbers, n) = f[n]
  BY <1>1, TotalLoop
<1>4. PICK g \in [0..(n + 1) -> Int] :
        Totals(numbers, n + 1, g) /\ TotalTo(numbers, n + 1) = g[n + 1]
  <2>. DEFINE m == n + 1
  <2>1. m \in Nat /\ \A k \in 1..m : numbers[k] \in Int
    OBVIOUS
  <2>. HIDE DEF m
  <2>2. \E g \in [0..m -> Int] : Totals(numbers, m, g) /\ TotalTo(numbers, m) = g[m]
    BY <2>1, TotalLoop
  <2>. QED
    BY <2>2 DEF m
<1>. DEFINE S == {k \in 0..n : f[k] = g[k]}
<1>5. 0 \in S
  BY <1>3, <1>4 DEF Totals
<1>6. ASSUME NEW k \in 0..(n - 1), k \in S PROVE k + 1 \in S
  <2>1. k \in 0..((n + 1) - 1) /\ k + 1 \in 0..n
    OBVIOUS
  <2>2. g[k + 1] = g[k] + numbers[k + 1]
    BY <1>4, <2>1 DEF Totals
  <2>3. f[k + 1] = f[k] + numbers[k + 1]
    BY <1>3 DEF Totals
  <2>. QED
    BY <1>6, <2>1, <2>2, <2>3
<1>. HIDE DEF S
<1>7. f[n] = g[n]
  <2>1. 0..n \subseteq S
    BY <1>5, <1>6, Induction
  <2>2. n \in 0..n
    OBVIOUS
  <2>. QED
    BY <2>1, <2>2 DEF S
<1>8. g[n + 1] = g[n] + numbers[n + 1]
  <2>1. n \in 0..((n + 1) - 1)
    OBVIOUS
  <2>. QED
    BY <1>4, <2>1 DEF Totals
<1>. QED
  BY <1>2, <1>3, <1>4, <1>7, <1>8

-----------------------------------------------------------------------------
(* Spikes                                                                  *)

\* What FarAbove compares, for the n numbers before number n + 1: n times the
\* distance of that one from their mean, and n^2 times their variance.  Neither
\* depends on where the counters began.
Above(x, n) == n * x[n + 1] - TotalTo(x, n)
Spread(x, n) == n * TotalTo(Squares(x), n) - TotalTo(x, n) * TotalTo(x, n)

LEMMA SpikeIs ==
    ASSUME NEW x, NEW n, n = Len(x) - 1
    PROVE  Spike(x) <=> /\ n >= 3 /\ Spread(x, n) # 0 /\ Above(x, n) >= 0
                        /\ Above(x, n) * Above(x, n) >= 9 * Spread(x, n)
BY DEF Spike, FarAbove, Above, Spread

LEMMA MomentTypes ==
    ASSUME NEW n \in Int, NEW q \in Int, NEW a \in Int, NEW b \in Int, NEW s \in Int
    PROVE  /\ n * a - s \in Int /\ n * q - s * s \in Int
           /\ (n + 1) * b - (s + a) \in Int
           /\ (n + 1) * (q + a * a) - (s + a) * (s + a) \in Int
<1>1. n * a \in Int /\ n * q \in Int /\ s * s \in Int /\ (n + 1) * b \in Int /\ a * a \in Int
  BY SMT
<1>2. q + a * a \in Int /\ s + a \in Int /\ n + 1 \in Int
  BY <1>1, SMT
<1>3. (n + 1) * (q + a * a) \in Int /\ (s + a) * (s + a) \in Int
  BY <1>2, SMT
<1>. QED
  BY <1>1, <1>3, SMT

LEMMA MomentAlgebra ==
    ASSUME NEW n \in Int, NEW q \in Int, NEW a \in Int, NEW b \in Int, NEW s \in Int
    PROVE  /\ (n + 1) * b - (s + a) = (n * a - s) + (n + 1) * (b - a)
           /\ n * ((n + 1) * (q + a * a) - (s + a) * (s + a))
                = (n + 1) * (n * q - s * s) + (n * a - s) * (n * a - s)
BY SMT

LEMMA MomentStep ==
    ASSUME NEW x \in Seq(Int), NEW n \in Nat, n + 2 <= Len(x)
    PROVE  /\ Above(x, n) \in Int /\ Spread(x, n) \in Int
           /\ Above(x, n + 1) \in Int /\ Spread(x, n + 1) \in Int
           /\ Above(x, n + 1) = Above(x, n) + (n + 1) * (x[n + 2] - x[n + 1])
           /\ n * Spread(x, n + 1) = (n + 1) * Spread(x, n) + Above(x, n) * Above(x, n)
<1>. DEFINE s == TotalTo(x, n)
            q == TotalTo(Squares(x), n)
            a == x[n + 1]
            b == x[n + 2]
<1>1. a \in Int /\ b \in Int /\ \A k \in 1..(n + 1) : x[k] \in Int
  OBVIOUS
<1>2. \A k \in 1..(n + 1) : k \in DOMAIN x
  OBVIOUS
<1>3. \A k \in 1..(n + 1) : Squares(x)[k] = x[k] * x[k]
  BY <1>2 DEF Squares
<1>4. \A k \in 1..(n + 1) : Squares(x)[k] \in Int
  <2>1. \A i \in Int : i * i \in Int
    OBVIOUS
  <2>. QED
    BY <1>1, <1>3, <2>1
<1>5. Squares(x)[n + 1] = a * a
  BY <1>3
<1>6. s \in Int /\ TotalTo(x, n + 1) = s + a
  BY <1>1, TotalStep
<1>7. q \in Int /\ TotalTo(Squares(x), n + 1) = q + a * a
  BY <1>4, <1>5, TotalStep
<1>. HIDE DEF s, q, a, b
<1>8. Above(x, n) = n * a - s /\ Spread(x, n) = n * q - s * s
  BY DEF Above, Spread, a, s, q
<1>9. /\ Above(x, n + 1) = (n + 1) * b - (s + a)
      /\ Spread(x, n + 1) = (n + 1) * (q + a * a) - (s + a) * (s + a)
  <2>1. x[(n + 1) + 1] = b
    <3>1. (n + 1) + 1 = n + 2
      OBVIOUS
    <3>. QED
      BY <3>1 DEF b
  <2>. QED
    BY <1>6, <1>7, <2>1 DEF Above, Spread
<1>10. n \in Int /\ a \in Int /\ b \in Int
  BY <1>1 DEF a, b
<1>11. /\ (n + 1) * b - (s + a) = (n * a - s) + (n + 1) * (b - a)
       /\ n * ((n + 1) * (q + a * a) - (s + a) * (s + a))
            = (n + 1) * (n * q - s * s) + (n * a - s) * (n * a - s)
  BY <1>6, <1>7, <1>10, MomentAlgebra
<1>12. /\ n * a - s \in Int /\ n * q - s * s \in Int /\ (n + 1) * b - (s + a) \in Int
       /\ (n + 1) * (q + a * a) - (s + a) * (s + a) \in Int
  BY <1>6, <1>7, <1>10, MomentTypes
<1>. QED
  BY <1>8, <1>9, <1>11, <1>12 DEF a, b

\* The distance and the variance while the increases do not grow: the next
\* number is d above the last.
Falling(n, above, spread, d) ==
    /\ 0 <= above /\ 0 <= spread
    /\ above * above <= 9 * spread
    /\ n >= 3 => above * above < 9 * spread \/ spread = 0
    /\ n * (n + 1) * d <= 2 * above

LEMMA FallingBegins ==
    ASSUME NEW p \in Nat, NEW q \in Nat, q <= p
    PROVE  Falling(2, p + 2 * q, p * p, q)
<1>1. (p + 2 * q) * (p + 2 * q) <= 9 * (p * p)
  <2>1. p + 2 * q <= 3 * p /\ 0 <= p + 2 * q
    OBVIOUS
  <2>2. \A i, j \in Nat : i <= j => i * i <= j * j
    BY SMT
  <2>3. (p + 2 * q) * (p + 2 * q) <= (3 * p) * (3 * p)
    BY <2>1, <2>2
  <2>4. (3 * p) * (3 * p) = 9 * (p * p)
    BY SMT
  <2>. QED
    BY <2>3, <2>4
<1>2. 0 <= p * p /\ 0 <= p + 2 * q /\ ~(2 >= 3)
  BY SMT
<1>3. 2 * (2 + 1) * q <= 2 * (p + 2 * q)
  BY SMT
<1>. QED
  BY <1>1, <1>2, <1>3 DEF Falling

\* Increases that do not grow keep the next number within three deviations.
LEMMA FallingGoesOn ==
    ASSUME NEW n \in Nat, 2 <= n, NEW a \in Int, NEW v \in Int, NEW d \in Nat, NEW e \in Nat,
           Falling(n, a, v, d), e <= d,
           NEW a2 \in Int, NEW v2 \in Int,
           a2 = a + (n + 1) * e, n * v2 = (n + 1) * v + a * a
    PROVE  Falling(n + 1, a2, v2, e)
<1>1. 0 <= a /\ 0 <= v /\ a * a <= 9 * v /\ n * (n + 1) * d <= 2 * a
  BY DEF Falling
<1>. DEFINE m == n + 1
            w == a * a
            f == m * e
<1>2. w \in Nat /\ m \in Nat /\ f \in Nat
  <2>1. a \in Nat
    BY <1>1
  <2>. QED
    BY <2>1, SMT
<1>3. n * f <= 2 * a
  <2>1. n * m \in Nat
    BY SMT
  <2>2. (n * m) * e <= (n * m) * d
    <3>1. \A i \in Nat : i * e <= i * d
      BY SMT
    <3>. QED
      BY <2>1, <3>1
  <2>3. n * f = (n * m) * e /\ n * (n + 1) * d = (n * m) * d
    BY SMT
  <2>4. n * f \in Int /\ (n * m) * e \in Int /\ (n * m) * d \in Int
    BY <2>1, <1>2, SMT
  <2>. HIDE DEF m, f
  <2>. QED
    BY <1>1, <2>2, <2>3, <2>4
<1>4. a2 = a + f /\ n * v2 = m * v + w
  OBVIOUS
<1>5. 0 <= a2
  BY <1>1, <1>2, <1>4
<1>6. 0 <= v2
  <2>1. 0 <= m * v
    <3>1. v \in Nat
      BY <1>1
    <3>. HIDE DEF m
    <3>. QED
      BY <1>2, <3>1, SMT
  <2>2. 0 <= n * v2
    <3>1. m * v \in Int /\ n * v2 \in Int
      BY <1>2, SMT
    <3>. HIDE DEF m, w
    <3>. QED
      BY <1>2, <1>4, <2>1, <3>1
  <2>3. \A i \in Int : i < 0 => n * i < 0
    BY SMT
  <2>. QED
    BY <2>2, <2>3
<1>. HIDE DEF m, w, f
\* n times the distance, and its square.
<1>7. (n * a2) * (n * a2) <= ((n + 2) * a) * ((n + 2) * a)
  <2>1. n * a2 = n * a + n * f /\ (n + 2) * a = n * a + 2 * a
    BY <1>2, <1>4, SMT
  <2>2. n * a2 \in Nat /\ (n + 2) * a \in Nat /\ n * a \in Int /\ n * f \in Int
    <3>1. a \in Nat /\ a2 \in Nat
      BY <1>1, <1>5
    <3>. QED
      BY <1>2, <3>1, SMT
  <2>3. n * a2 <= (n + 2) * a
    BY <1>3, <2>1, <2>2
  <2>4. \A i, j \in Nat : i <= j => i * i <= j * j
    BY SMT
  <2>. QED
    BY <2>2, <2>3, <2>4
<1>8. (n * a2) * (n * a2) = (n * n) * (a2 * a2)
      /\ ((n + 2) * a) * ((n + 2) * a) = (n * n + 4 * n + 4) * w
  BY SMT DEF w
<1>9. (n * n) * (9 * v2) >= (n * n + 10 * n) * w
  <2>1. n * (9 * v2) = m * (9 * v) + 9 * w
    <3>1. n * (9 * v2) = 9 * (n * v2) /\ m * (9 * v) = 9 * (m * v)
      BY <1>2, SMT
    <3>2. n * v2 \in Int /\ m * v \in Int
      BY <1>2, SMT
    <3>. QED
      BY <1>2, <1>4, <3>1, <3>2
  <2>2. m * (9 * v) >= m * w
    <3>1. w <= 9 * v /\ 9 * v \in Int
      BY <1>1 DEF w
    <3>2. \A i, j \in Int : i <= j => m * i <= m * j
      BY <1>2, SMT
    <3>. QED
      BY <1>2, <3>1, <3>2
  <2>3. m * w + 9 * w = (n + 10) * w
    BY <1>2, SMT DEF m
  <2>4. n * (9 * v2) >= (n + 10) * w
    <3>1. m * (9 * v) \in Int /\ m * w \in Int /\ n * (9 * v2) \in Int /\ (n + 10) * w \in Int
      BY <1>2, SMT
    <3>. QED
      BY <1>2, <2>1, <2>2, <2>3, <3>1
  <2>5. n * (n * (9 * v2)) >= n * ((n + 10) * w)
    <3>1. \A i, j \in Int : i <= j => n * i <= n * j
      BY SMT
    <3>2. n * (9 * v2) \in Int /\ (n + 10) * w \in Int
      BY <1>2, SMT
    <3>. QED
      BY <2>4, <3>1, <3>2
  <2>6. n * (n * (9 * v2)) = (n * n) * (9 * v2) /\ n * ((n + 10) * w) = (n * n + 10 * n) * w
    BY <1>2, SMT
  <2>. QED
    BY <2>5, <2>6
\* Twice two is more than nothing: what is left over.
<1>10. (n * n + 4 * n + 4) * w + w <= (n * n + 10 * n) * w
  <2>1. \A i, j \in Nat : i <= j => i * w <= j * w
    BY <1>2, SMT
  <2>2. n * n + 4 * n + 5 <= n * n + 10 * n /\ n * n + 4 * n + 5 \in Nat /\ n * n + 10 * n \in Nat
    <3>1. n * n \in Nat
      BY SMT
    <3>. QED
      BY <3>1
  <2>3. (n * n + 4 * n + 5) * w = (n * n + 4 * n + 4) * w + w
    BY <1>2, SMT
  <2>. QED
    BY <2>1, <2>2, <2>3
<1>11. (n * n) * (a2 * a2) + w <= (n * n) * (9 * v2)
  <2>. DEFINE i == (n * n) * (a2 * a2)
              j == (n * n + 4 * n + 4) * w
              k == (n * n + 10 * n) * w
              l == (n * n) * (9 * v2)
  <2>1. i \in Int /\ j \in Int /\ k \in Int /\ l \in Int
    BY <1>2, SMT
  <2>2. i <= j /\ j + w <= k /\ k <= l
    BY <1>7, <1>8, <1>9, <1>10
  <2>. HIDE DEF i, j, k, l
  <2>3. i + w <= l
    BY <1>2, <2>1, <2>2
  <2>. QED
    BY <2>3 DEF i, l
<1>12. /\ a2 * a2 <= 9 * v2
       /\ w > 0 => a2 * a2 < 9 * v2
  <2>1. n * n \in Nat
    BY SMT
  <2>2. \A i, j \in Int : j < i => (n * n) * j < (n * n) * i
    <3>1. n * n > 0
      BY SMT
    <3>. QED
      BY <2>1, <3>1, SMT
  <2>3. a2 * a2 \in Int /\ 9 * v2 \in Int
    BY SMT
  <2>4. (n * n) * (a2 * a2) \in Int /\ (n * n) * (9 * v2) \in Int
    BY <2>1, <2>3, SMT
  <2>5. a2 * a2 <= 9 * v2
    BY <1>2, <1>11, <2>2, <2>3, <2>4
  <2>6. w > 0 => a2 * a2 # 9 * v2
    BY <1>2, <1>11, <2>4
  <2>. QED
    BY <2>3, <2>5, <2>6
<1>13. w = 0 => a2 * a2 < 9 * v2 \/ v2 = 0
  <2>1. SUFFICES ASSUME w = 0 PROVE a2 * a2 < 9 * v2 \/ v2 = 0
    OBVIOUS
  <2>2. a = 0
    <3>1. \A i \in Nat : i > 0 => i * i > 0
      BY SMT
    <3>. QED
      BY <1>1, <2>1, <3>1 DEF w
  <2>3. f = 0
    <3>1. \A i \in Nat : i > 0 => n * i > 0
      BY SMT
    <3>. QED
      BY <1>2, <1>3, <2>2, <3>1
  <2>4. a2 * a2 = 0
    BY <1>4, <2>2, <2>3
  <2>. QED
    BY <1>6, <2>4
<1>14. m * (m + 1) * e <= 2 * a2
  <2>1. m * (m + 1) * e = n * f + 2 * f
    BY SMT DEF m, f
  <2>2. n * f \in Int
    BY <1>2, SMT
  <2>. QED
    BY <1>2, <1>3, <1>4, <2>1, <2>2
<1>. QED
  BY <1>2, <1>5, <1>6, <1>12, <1>13, <1>14 DEF Falling, m

\* One number before the next: no variance.
LEMMA OneBefore ==
    ASSUME NEW x \in Seq(Int), 2 <= Len(x)
    PROVE  Above(x, 1) = x[2] - x[1] /\ Spread(x, 1) = 0
<1>1. x[1] \in Int /\ x[2] \in Int /\ 1 \in DOMAIN x
  OBVIOUS
<1>2. Squares(x)[1] = x[1] * x[1] /\ x[1] * x[1] \in Int
  BY <1>1, SMT DEF Squares
<1>3. TotalTo(x, 1) = x[1]
  <2>1. \A k \in 1..(0 + 1) : x[k] \in Int
    BY <1>1
  <2>2. TotalTo(x, 0) = 0 /\ TotalTo(x, 0 + 1) = TotalTo(x, 0) + x[0 + 1]
    BY <2>1, TotalStep
  <2>. QED
    BY <1>1, <2>2
<1>4. TotalTo(Squares(x), 1) = x[1] * x[1]
  <2>. DEFINE y == Squares(x)
  <2>1. y[1] \in Int
    BY <1>2
  <2>. HIDE DEF y
  <2>2. \A k \in 1..(0 + 1) : y[k] \in Int
    BY <2>1
  <2>3. TotalTo(y, 0) = 0 /\ TotalTo(y, 0 + 1) = TotalTo(y, 0) + y[0 + 1]
    BY <2>2, TotalStep
  <2>4. TotalTo(y, 1) = y[1]
    BY <2>1, <2>3
  <2>. QED
    BY <1>2, <2>4 DEF y
<1>5. Above(x, 1) = 1 * x[2] - x[1]
  <2>1. 1 + 1 = 2
    OBVIOUS
  <2>. QED
    BY <1>3, <2>1 DEF Above
<1>6. Spread(x, 1) = 1 * (x[1] * x[1]) - x[1] * x[1]
  BY <1>3, <1>4 DEF Spread
<1>7. \A i \in Int : 1 * i = i /\ i - i = 0
  OBVIOUS
<1>. QED
  BY <1>1, <1>2, <1>5, <1>6, <1>7

\* Counters whose increases do not grow end in no spike.
LEMMA FallingIsNoSpike ==
    ASSUME NEW x \in Seq(Int),
           \A k \in 1..(Len(x) - 1) : x[k + 1] - x[k] \in Nat,
           \A k \in 1..(Len(x) - 2) : x[k + 2] - x[k + 1] <= x[k + 1] - x[k]
    PROVE  ~Spike(x)
<1>. DEFINE N == Len(x) - 1
            Increase(k) == x[k + 1] - x[k]
<1>1. CASE N >= 3
  <2>1. N \in Nat /\ Len(x) = N + 1
    BY <1>1
  <2>2. \A k \in 1..N : Increase(k) \in Nat
    OBVIOUS
  <2>3. \A k \in 1..(N - 1) : Increase(k + 1) <= Increase(k)
    <3>1. ASSUME NEW k \in 1..(N - 1) PROVE x[(k + 1) + 1] = x[k + 2]
      <4>1. (k + 1) + 1 = k + 2
        BY <2>1
      <4>. QED
        BY <4>1
    <3>. QED
      BY <1>1, <3>1
  <2>. DEFINE S == {n \in 0..N : n >= 2 => Falling(n, Above(x, n), Spread(x, n), Increase(n))}
  <2>. HIDE DEF N, Increase
  <2>4. 0 \in S
    BY <1>1, <2>1
  <2>5. ASSUME NEW n \in 0..(N - 1), n \in S PROVE n + 1 \in S
    <3>1. n \in Nat /\ n + 1 \in 0..N /\ n + 2 <= Len(x)
      BY <2>1
    <3>2. /\ Above(x, n) \in Int /\ Spread(x, n) \in Int
          /\ Above(x, n + 1) \in Int /\ Spread(x, n + 1) \in Int
          /\ Above(x, n + 1) = Above(x, n) + (n + 1) * (x[n + 2] - x[n + 1])
          /\ n * Spread(x, n + 1) = (n + 1) * Spread(x, n) + Above(x, n) * Above(x, n)
      BY <3>1, MomentStep
    <3>3. Increase(n + 1) = x[n + 2] - x[n + 1]
      <4>1. (n + 1) + 1 = n + 2
        BY <3>1
      <4>. QED
        BY <4>1 DEF Increase
    <3>4. n + 1 \in 1..N /\ Increase(n + 1) \in Nat
      BY <2>2, <3>1
    <3>5. n >= 1 => Increase(n) \in Nat /\ Increase(n + 1) <= Increase(n)
      <4>1. SUFFICES ASSUME n >= 1
                     PROVE  Increase(n) \in Nat /\ Increase(n + 1) <= Increase(n)
        OBVIOUS
      <4>2. n \in 1..N /\ n \in 1..(N - 1)
        BY <2>1, <4>1
      <4>. QED
        BY <2>2, <2>3, <4>2
    <3>6. CASE n = 0
      BY <3>1, <3>6
    <3>7. CASE n = 1
      <4>. DEFINE p == Increase(1)
                  q == Increase(2)
      <4>1. p = x[2] - x[1] /\ p \in Nat
        <5>1. 1 + 1 = 2
          OBVIOUS
        <5>. QED
          BY <3>5, <3>7, <5>1 DEF Increase
      <4>2. q \in Nat /\ q <= p /\ q = x[n + 2] - x[n + 1]
        BY <3>3, <3>4, <3>5, <3>7
      <4>3. Above(x, 1) = p /\ Spread(x, 1) = 0
        <5>1. 2 <= Len(x)
          BY <1>1, <2>1
        <5>2. Above(x, 1) = x[2] - x[1] /\ Spread(x, 1) = 0
          BY <5>1, OneBefore
        <5>. QED
          BY <4>1, <5>2
      <4>. HIDE DEF p, q
      <4>4. Above(x, 2) = p + 2 * q
        BY <3>2, <3>7, <4>2, <4>3
      <4>5. Spread(x, 2) = p * p
        <5>1. 1 * Spread(x, 2) = 2 * 0 + p * p /\ Spread(x, 2) \in Int
          BY <3>2, <3>7, <4>3
        <5>2. p * p \in Int
          BY <4>1, SMT
        <5>. QED
          BY <5>1, <5>2
      <4>6. Falling(2, p + 2 * q, p * p, q)
        BY <4>1, <4>2, FallingBegins
      <4>7. Falling(2, Above(x, 2), Spread(x, 2), Increase(2))
        BY <4>4, <4>5, <4>6 DEF q
      <4>. QED
        BY <3>1, <3>7, <4>7
    <3>8. CASE n >= 2
      <4>. DEFINE a == Above(x, n)
                  v == Spread(x, n)
                  d == Increase(n)
                  e == Increase(n + 1)
                  a2 == Above(x, n + 1)
                  v2 == Spread(x, n + 1)
      <4>1. Falling(n, a, v, d)
        BY <2>5, <3>8
      <4>2. d \in Nat /\ e \in Nat /\ e <= d
        BY <3>1, <3>4, <3>5, <3>8
      <4>3. a \in Int /\ v \in Int /\ a2 \in Int /\ v2 \in Int
            /\ a2 = a + (n + 1) * e /\ n * v2 = (n + 1) * v + a * a
        BY <3>2, <3>3
      <4>. HIDE DEF a, v, d, e, a2, v2
      <4>4. Falling(n + 1, a2, v2, e)
        BY <3>1, <3>8, <4>1, <4>2, <4>3, FallingGoesOn
      <4>. QED
        BY <3>1, <4>4 DEF a2, v2, e
    <3>. QED
      BY <3>1, <3>6, <3>7, <3>8
  <2>. HIDE DEF S
  <2>6. 0..N \subseteq S
    BY <2>1, <2>4, <2>5, Induction
  <2>7. Falling(N, Above(x, N), Spread(x, N), Increase(N))
    BY <1>1, <2>1, <2>6 DEF S
  <2>8. Above(x, N) * Above(x, N) < 9 * Spread(x, N) \/ Spread(x, N) = 0
    BY <1>1, <2>7 DEF Falling
  <2>9. Spread(x, N) # 0 => ~(Above(x, N) * Above(x, N) >= 9 * Spread(x, N))
    <3>1. Above(x, N) \in Int /\ Spread(x, N) \in Int
      <4>. DEFINE n == N - 1
      <4>1. n \in Nat /\ n + 2 <= Len(x) /\ n + 1 = N
        BY <1>1, <2>1
      <4>. HIDE DEF n
      <4>2. Above(x, n + 1) \in Int /\ Spread(x, n + 1) \in Int
        BY <4>1, MomentStep
      <4>. QED
        BY <4>1, <4>2
    <3>2. Above(x, N) * Above(x, N) \in Int /\ 9 * Spread(x, N) \in Int
      BY <3>1, SMT
    <3>. QED
      BY <2>8, <3>2
  <2>. QED
    BY <2>9, SpikeIs DEF N
<1>2. CASE ~(N >= 3)
  BY <1>2 DEF Spike, FarAbove
<1>. QED
  BY <1>1, <1>2

\* Twice the distance, and twelve times the variance, of n numbers and a next
\* one that are each b above the last.
SteadyAbove(n, b) == n * (n + 1) * b
SteadySpread(n, b) == (b * b) * ((n * n) * (n * n - 1))

LEMMA SteadyTypes ==
    ASSUME NEW n \in Nat, NEW b \in Nat
    PROVE  SteadyAbove(n, b) \in Int /\ SteadySpread(n, b) \in Int
<1>1. n * n \in Int /\ b * b \in Int /\ n * (n + 1) \in Int
  BY SMT
<1>2. n * n - 1 \in Int /\ n * (n + 1) * b \in Int
  BY <1>1, SMT
<1>3. (n * n) * (n * n - 1) \in Int
  BY <1>1, <1>2, SMT
<1>4. (b * b) * ((n * n) * (n * n - 1)) \in Int
  BY <1>1, <1>3, SMT
<1>. QED
  BY <1>2, <1>4 DEF SteadyAbove, SteadySpread

LEMMA Cancel ==
    ASSUME NEW n \in Nat, 1 <= n, NEW i \in Int, NEW j \in Int, n * i = n * j
    PROVE  i = j
<1>1. \A k \in Int : n * k = 0 => k = 0
  BY SMT
<1>2. n * (i - j) = n * i - n * j /\ n * i \in Int /\ n * j \in Int
  BY SMT
<1>. QED
  BY <1>1, <1>2

\* The variance of one number more.
LEMMA SteadyGoesOn ==
    ASSUME NEW n \in Nat, 1 <= n, NEW b \in Nat, NEW a \in Int, NEW v \in Int, NEW v2 \in Int,
           2 * a = SteadyAbove(n, b), 12 * v = SteadySpread(n, b),
           n * v2 = (n + 1) * v + a * a
    PROVE  12 * v2 = SteadySpread(n + 1, b)
<1>. DEFINE A == SteadyAbove(n, b)
            V == SteadySpread(n, b)
<1>1. 12 * (n * v2) = (n + 1) * (12 * v) + 3 * ((2 * a) * (2 * a))
  <2>1. (n + 1) * (12 * v) = 12 * ((n + 1) * v) /\ (2 * a) * (2 * a) = 4 * (a * a)
    BY SMT
  <2>2. (n + 1) * v \in Int /\ a * a \in Int
    BY SMT
  <2>. QED
    BY <2>1, <2>2
<1>2. 12 * (n * v2) = (n + 1) * V + 3 * (A * A)
  BY <1>1
<1>3. (n + 1) * V + 3 * (A * A) = n * SteadySpread(n + 1, b)
  BY SMT DEF SteadyAbove, SteadySpread
<1>4. 12 * (n * v2) = n * (12 * v2)
  BY SMT
<1>5. n * (12 * v2) = n * SteadySpread(n + 1, b) /\ 12 * v2 \in Int
  BY <1>2, <1>3, <1>4
<1>6. SteadySpread(n + 1, b) \in Int
  BY SteadyTypes
<1>. QED
  BY <1>5, <1>6, Cancel

\* After that, a number as far above the last as all steps before together and
\* one more.
LEMMA BurstIsFar ==
    ASSUME NEW n \in Nat, 1 <= n, NEW b \in Nat, 0 < b, NEW a \in Int, NEW v2 \in Int,
           NEW burst \in Nat, (n + 1) * b <= burst, NEW a2 \in Int,
           2 * a = SteadyAbove(n, b), 12 * v2 = SteadySpread(n + 1, b),
           a2 = a + (n + 1) * burst
    PROVE  v2 # 0 /\ 0 <= a2 /\ 9 * v2 <= a2 * a2
<1>. DEFINE m == n + 1
            c == m * b
            least == c * (3 * n + 2)
            w == (b * b) * (m * m)
<1>1. m \in Nat /\ c \in Nat /\ c > 0 /\ 2 <= m
  <2>1. \A i, j \in Nat : 0 < i /\ 0 < j => i * j \in Nat /\ 0 < i * j
    BY SMT
  <2>. QED
    BY <2>1
<1>2. least \in Nat /\ c * c = w /\ least * least = w * ((3 * n + 2) * (3 * n + 2))
  <2>1. c * (3 * n + 2) \in Nat
    <3>. HIDE DEF c
    <3>. QED
      BY <1>1, SMT
  <2>2. c * c = w
    BY SMT
  <2>3. least * least = (c * c) * ((3 * n + 2) * (3 * n + 2))
    BY SMT
  <2>. QED
    BY <2>1, <2>2, <2>3
<1>3. w \in Nat /\ 0 < w
  <2>1. \A i \in Nat : 0 < i => i * i \in Nat /\ 0 < i * i
    BY SMT
  <2>2. c * c \in Nat /\ 0 < c * c
    <3>. HIDE DEF c
    <3>. QED
      BY <1>1, <2>1
  <2>. QED
    BY <1>2, <2>2
<1>4. least <= 2 * a2
  <2>1. least = n * c + 2 * (m * c) /\ SteadyAbove(n, b) = n * c
    BY SMT DEF SteadyAbove
  <2>2. m * c <= m * burst
    <3>1. \A i, j \in Int : i <= j => m * i <= m * j
      <4>. HIDE DEF m
      <4>. QED
        BY <1>1, SMT
    <3>. QED
      BY <1>1, <3>1
  <2>3. n * c \in Int /\ m * c \in Int /\ m * burst \in Int
    <3>. HIDE DEF c, m
    <3>. QED
      BY <1>1, SMT
  <2>4. 2 * a2 = n * c + 2 * (m * burst)
    <3>1. 2 * a = n * c /\ a2 = a + m * burst
      BY <2>1
    <3>. HIDE DEF c, m
    <3>. QED
      BY <2>3, <3>1
  <2>. HIDE DEF c, m, least
  <2>. QED
    BY <2>1, <2>2, <2>3, <2>4
<1>5. 12 * v2 = w * (n * n + 2 * n)
  BY SMT DEF SteadySpread
<1>. HIDE DEF m, c, least, w
<1>6. 0 <= a2
  BY <1>2, <1>4
<1>7. v2 # 0
  <2>1. \A i \in Nat : 0 < i => w * i # 0
    BY <1>3, SMT
  <2>2. n * n + 2 * n \in Nat /\ 0 < n * n + 2 * n
    <3>1. n * n \in Nat
      BY SMT
    <3>. QED
      BY <3>1
  <2>3. w * (n * n + 2 * n) # 0
    BY <2>1, <2>2
  <2>. QED
    BY <1>5, <2>3
<1>8. 9 * v2 <= a2 * a2
  <2>1. least * least <= (2 * a2) * (2 * a2)
    <3>1. \A i, j \in Nat : i <= j => i * i <= j * j
      BY SMT
    <3>. QED
      BY <1>2, <1>4, <1>6, <3>1
  <2>2. w * (3 * (n * n + 2 * n)) <= w * ((3 * n + 2) * (3 * n + 2))
    <3>1. \A i, j \in Nat : i <= j => w * i <= w * j
      BY <1>3, SMT
    <3>2. (3 * n + 2) * (3 * n + 2) = 9 * (n * n) + 12 * n + 4 /\ n * n \in Nat
      BY SMT
    <3>3. 3 * (n * n + 2 * n) <= (3 * n + 2) * (3 * n + 2)
          /\ 3 * (n * n + 2 * n) \in Nat /\ (3 * n + 2) * (3 * n + 2) \in Nat
      BY <3>2
    <3>. QED
      BY <3>1, <3>3
  <2>3. w * (3 * (n * n + 2 * n)) = 3 * (w * (n * n + 2 * n))
    BY <1>3, SMT
  <2>4. (2 * a2) * (2 * a2) = 4 * (a2 * a2) /\ a2 * a2 \in Int
    BY SMT
  <2>5. w * (n * n + 2 * n) \in Int
    BY <1>5
  <2>6. 3 * (w * (n * n + 2 * n)) <= 4 * (a2 * a2)
    <3>1. w * ((3 * n + 2) * (3 * n + 2)) <= 4 * (a2 * a2)
      BY <1>2, <2>1, <2>4
    <3>2. 3 * (w * (n * n + 2 * n)) <= w * ((3 * n + 2) * (3 * n + 2))
      BY <2>2, <2>3
    <3>. DEFINE i == 3 * (w * (n * n + 2 * n))
                j == w * ((3 * n + 2) * (3 * n + 2))
                k == 4 * (a2 * a2)
    <3>3. i \in Int /\ k \in Int /\ j \in Int
      <4>1. j = least * least
        BY <1>2
      <4>2. least * least \in Int
        BY <1>2, SMT
      <4>. QED
        BY <2>4, <2>5, <4>1, <4>2
    <3>4. i <= j /\ j <= k
      BY <3>1, <3>2
    <3>. HIDE DEF i, j, k
    <3>5. i <= k
      BY <3>3, <3>4
    <3>. QED
      BY <3>5 DEF i, k
  <2>. QED
    BY <1>5, <2>4, <2>6
<1>. QED
  BY <1>6, <1>7, <1>8

\* Counters that grow by the same amount b, and at the end by as much as before
\* together and b more.
LEMMA BurstIsSpike ==
    ASSUME NEW x \in Seq(Int), 4 <= Len(x), NEW b \in Nat, 0 < b,
           \A k \in 1..(Len(x) - 2) : x[k + 1] - x[k] = b,
           (Len(x) - 1) * b <= x[Len(x)] - x[Len(x) - 1]
    PROVE  Spike(x)
<1>. DEFINE N == Len(x) - 2
            burst == x[Len(x)] - x[Len(x) - 1]
            S == {n \in 0..N : n >= 1 => /\ 2 * Above(x, n) = SteadyAbove(n, b)
                                         /\ 12 * Spread(x, n) = SteadySpread(n, b)}
<1>1. N \in Nat /\ 2 <= N /\ Len(x) = N + 2
  OBVIOUS
<1>2. \A k \in 1..(N + 2) : x[k] \in Int
  OBVIOUS
<1>3. \A k \in 1..N : x[k + 1] - x[k] = b
  OBVIOUS
<1>4. (N + 1) * b <= burst /\ burst = x[N + 2] - x[N + 1]
  <2>1. Len(x) - 1 = N + 1
    BY <1>1
  <2>. QED
    BY <1>1, <2>1
<1>5. burst \in Nat
  <2>1. (N + 1) * b \in Nat
    <3>. HIDE DEF N
    <3>. QED
      BY <1>1, SMT
  <2>2. burst \in Int
    <3>1. x[N + 2] \in Int /\ x[N + 1] \in Int
      BY <1>1, <1>2
    <3>. QED
      BY <1>4, <3>1
  <2>. HIDE DEF burst, N
  <2>. QED
    BY <1>4, <2>1, <2>2
<1>. HIDE DEF N, burst
<1>6. 0 \in S
  BY <1>1
<1>7. ASSUME NEW n \in 0..(N - 1), n \in S PROVE n + 1 \in S
  <2>1. n \in Nat /\ n + 1 \in 0..N /\ n + 1 \in 1..N /\ n + 2 <= Len(x)
    BY <1>1
  <2>2. /\ Above(x, n) \in Int /\ Spread(x, n) \in Int
        /\ Above(x, n + 1) \in Int /\ Spread(x, n + 1) \in Int
        /\ Above(x, n + 1) = Above(x, n) + (n + 1) * (x[n + 2] - x[n + 1])
        /\ n * Spread(x, n + 1) = (n + 1) * Spread(x, n) + Above(x, n) * Above(x, n)
    BY <2>1, MomentStep
  <2>3. x[n + 2] - x[n + 1] = b
    <3>1. (n + 1) + 1 = n + 2
      BY <2>1
    <3>. QED
      BY <1>3, <2>1, <3>1
  <2>4. CASE n = 0
    <3>1. 2 <= Len(x) /\ 1 \in 1..N /\ 1 + 1 = 2
      BY <1>1
    <3>2. x[2] - x[1] = b
      BY <1>3, <3>1
    <3>3. Above(x, 1) = b /\ Spread(x, 1) = 0
      BY <3>1, <3>2, OneBefore
    <3>4. SteadyAbove(1, b) = 2 * b
      BY SMT DEF SteadyAbove
    <3>5. SteadySpread(1, b) = 0
      BY SMT DEF SteadySpread
    <3>6. 2 * Above(x, 1) = SteadyAbove(1, b) /\ 12 * Spread(x, 1) = SteadySpread(1, b)
      <4>1. 2 * Above(x, 1) = 2 * b /\ 12 * Spread(x, 1) = 12 * 0
        BY <3>3, Zenon
      <4>2. 12 * 0 = 0
        OBVIOUS
      <4>. QED
        BY <3>4, <3>5, <4>1, <4>2, Zenon
    <3>7. n + 1 = 1
      BY <2>4
    <3>. QED
      BY <2>1, <3>6, <3>7
  <2>5. CASE n >= 1
    <3>. DEFINE a == Above(x, n)
                v == Spread(x, n)
                v2 == Spread(x, n + 1)
    <3>1. 2 * a = SteadyAbove(n, b) /\ 12 * v = SteadySpread(n, b)
      BY <1>7, <2>5
    <3>2. a \in Int /\ v \in Int /\ v2 \in Int /\ n * v2 = (n + 1) * v + a * a
      BY <2>2
    <3>3. Above(x, n + 1) = a + (n + 1) * b
      BY <2>2, <2>3
    <3>. HIDE DEF a, v, v2
    <3>4. 12 * v2 = SteadySpread(n + 1, b)
      BY <2>1, <2>5, <3>1, <3>2, SteadyGoesOn
    <3>5. 2 * Above(x, n + 1) = SteadyAbove(n + 1, b)
      <4>1. 2 * (a + (n + 1) * b) = 2 * a + 2 * ((n + 1) * b) /\ (n + 1) * b \in Int
        BY <2>1, <3>2, SMT
      <4>2. SteadyAbove(n + 1, b) = SteadyAbove(n, b) + 2 * ((n + 1) * b)
        BY <2>1, SMT DEF SteadyAbove
      <4>. QED
        BY <3>1, <3>3, <4>1, <4>2
    <3>. QED
      BY <2>1, <3>4, <3>5 DEF v2
  <2>. QED
    BY <2>1, <2>4, <2>5
<1>. HIDE DEF S
<1>8. 0..N \subseteq S
  BY <1>1, <1>6, <1>7, Induction
<1>. DEFINE a == Above(x, N)
            v == Spread(x, N)
            a2 == Above(x, N + 1)
            v2 == Spread(x, N + 1)
<1>9. 2 * a = SteadyAbove(N, b) /\ 12 * v = SteadySpread(N, b)
  <2>1. N \in S /\ N >= 1
    BY <1>1, <1>8
  <2>. QED
    BY <2>1 DEF S
<1>10. /\ a \in Int /\ v \in Int /\ a2 \in Int /\ v2 \in Int
       /\ a2 = a + (N + 1) * burst
       /\ N * v2 = (N + 1) * v + a * a
  <2>1. N + 2 <= Len(x)
    BY <1>1
  <2>2. /\ a \in Int /\ v \in Int /\ a2 \in Int /\ v2 \in Int
        /\ a2 = a + (N + 1) * (x[N + 2] - x[N + 1])
        /\ N * v2 = (N + 1) * v + a * a
    BY <1>1, <2>1, MomentStep
  <2>. HIDE DEF a, v, a2, v2
  <2>. QED
    BY <1>4, <2>2
<1>11. 9 * v2 <= a2 * a2 /\ v2 # 0 /\ 0 <= a2
  <2>. HIDE DEF a, v, a2, v2
  <2>1. 1 <= N
    BY <1>1
  <2>2. 12 * v2 = SteadySpread(N + 1, b)
    BY <1>1, <1>9, <1>10, <2>1, SteadyGoesOn
  <2>. QED
    BY <1>1, <1>4, <1>5, <1>9, <1>10, <2>1, <2>2, BurstIsFar
<1>12. a2 * a2 >= 9 * v2 /\ a2 >= 0
  <2>. HIDE DEF a2, v2
  <2>1. a2 * a2 \in Int /\ 9 * v2 \in Int
    BY <1>10, SMT
  <2>. QED
    BY <1>10, <1>11, <2>1
<1>13. Len(x) - 1 = N + 1 /\ N + 1 >= 3
  BY <1>1
<1>14. Spike(x) <=> /\ N + 1 >= 3 /\ v2 # 0 /\ a2 >= 0
                    /\ a2 * a2 >= 9 * v2
  BY <1>13, SpikeIs
<1>. HIDE DEF a2, v2
<1>. QED
  BY <1>11, <1>12, <1>13, <1>14

-----------------------------------------------------------------------------
(* The table of traffic counters                                           *)

\* The counter after a period, from the one before.
NextCounter(h, c, k) == (IF h[k].reboot THEN 0 ELSE c) + h[k].bytes

LEMMA CounterLoop ==
    ASSUME NEW h \in Seq(Periods)
    PROVE  /\ \A k \in 0..Len(h) : Counters(h)[k] \in Nat
           /\ Counters(h)[0] = 0
           /\ \A k \in 0..(Len(h) - 1) :
                Counters(h)[k + 1] = NextCounter(h, Counters(h)[k], k + 1)
<1>. DEFINE N == Len(h)
            Body(counter, k) == IF k = 0 THEN 0
                                ELSE (IF h[k].reboot THEN 0 ELSE counter[k - 1]) + h[k].bytes
            Is(counter) == counter = [k \in 0..N |-> Body(counter, k)]
            round == [k \in 1..N |-> [c \in Nat |-> NextCounter(h, c, k)]]
            S0 == Nat
<1>1. N \in Nat /\ \A k \in 1..N : h[k].bytes \in Nat /\ h[k].reboot \in BOOLEAN
  <2>1. N \in Nat /\ \A k \in 1..N : h[k] \in Periods
    OBVIOUS
  <2>. QED
    BY <2>1 DEF Periods
<1>. HIDE DEF N
<1>2. ASSUME NEW k \in 1..N, NEW c \in Nat PROVE NextCounter(h, c, k) \in Nat
  BY <1>1 DEF NextCounter
<1>3. round \in [1..N -> [Nat -> Nat]]
  BY <1>2
<1>4. PICK f \in [0..N -> Nat] : Runs(f, N, 0, round)
  <2>1. round \in [1..N -> [S0 -> S0]] /\ 0 \in S0
    BY <1>3
  <2>. HIDE DEF round, S0
  <2>2. \E f \in [0..N -> S0] : Runs(f, N, 0, round)
    BY <1>1, <2>1, Recursion
  <2>. QED
    BY <2>2 DEF S0
<1>5. f[0] = 0 /\ \A k \in 0..(N - 1) : f[k + 1] = NextCounter(h, f[k], k + 1)
  <2>1. ASSUME NEW k \in 0..(N - 1) PROVE f[k + 1] = NextCounter(h, f[k], k + 1)
    <3>1. k \in 0..N /\ k + 1 \in 1..N
      BY <1>1
    <3>2. f[k] \in Nat
      BY <3>1
    <3>3. f[k + 1] = round[k + 1][f[k]]
      <4>. HIDE DEF round
      <4>. QED
        BY <1>4 DEF Runs
    <3>. QED
      BY <3>1, <3>2, <3>3
  <2>2. f[0] = 0
    <3>. HIDE DEF round
    <3>. QED
      BY <1>4 DEF Runs
  <2>. QED
    BY <2>1, <2>2
<1>. HIDE DEF round
<1>6. Is(f)
  <2>1. ASSUME NEW k \in 0..N PROVE f[k] = Body(f, k)
    <3>1. CASE k = 0
      BY <1>5, <3>1
    <3>2. CASE k # 0
      <4>1. k - 1 \in 0..(N - 1) /\ (k - 1) + 1 = k
        BY <1>1, <3>2
      <4>2. f[k] = NextCounter(h, f[k - 1], k)
        BY <1>5, <4>1
      <4>. QED
        BY <3>2, <4>2 DEF NextCounter
    <3>. QED
      BY <3>1, <3>2
  <2>2. f = [k \in 0..N |-> f[k]]
    BY <1>4
  <2>. HIDE DEF Body
  <2>. QED
    BY <2>1, <2>2
<1>. DEFINE counter == CHOOSE f1 : Is(f1)
<1>7. Is(counter)
  <2>. HIDE DEF Is
  <2>. QED
    BY <1>6
<1>8. Counters(h) = counter
  BY DEF Counters, N
<1>. HIDE DEF counter
<1>9. \A k \in 0..N : counter[k] = Body(counter, k)
  <2>. HIDE DEF Body
  <2>. QED
    BY <1>7
<1>10. counter[0] = 0 /\ \A k \in 0..(N - 1) : counter[k + 1] = NextCounter(h, counter[k], k + 1)
  <2>1. counter[0] = 0
    BY <1>1, <1>9
  <2>2. ASSUME NEW k \in 0..(N - 1) PROVE counter[k + 1] = NextCounter(h, counter[k], k + 1)
    <3>1. k + 1 \in 0..N /\ k + 1 # 0 /\ (k + 1) - 1 = k
      BY <1>1
    <3>2. counter[k + 1] = Body(counter, k + 1)
      BY <1>9, <3>1
    <3>. QED
      BY <3>1, <3>2 DEF NextCounter
  <2>. QED
    BY <2>1, <2>2
<1>. HIDE DEF Is, Body
<1>11. \A k \in 0..N : counter[k] \in Nat
  <2>. DEFINE S == {k \in 0..N : counter[k] \in Nat}
  <2>1. 0 \in S
    BY <1>1, <1>10
  <2>2. ASSUME NEW k \in 0..(N - 1), k \in S PROVE k + 1 \in S
    <3>1. k + 1 \in 0..N /\ k + 1 \in 1..N
      BY <1>1
    <3>2. counter[k] \in Nat
      BY <2>2
    <3>3. NextCounter(h, counter[k], k + 1) \in Nat
      BY <1>2, <3>1, <3>2
    <3>. QED
      BY <1>10, <3>1, <3>3
  <2>. HIDE DEF S
  <2>3. 0..N \subseteq S
    BY <1>1, <2>1, <2>2, Induction
  <2>. QED
    BY <2>3 DEF S
<1>. QED
  BY <1>8, <1>10, <1>11 DEF N

\* The rows the readers take: from the first of the limit to the last.
LEMMA WindowIs ==
    ASSUME NEW h \in Seq(Periods), NEW limit \in Int, \A k \in DOMAIN h : h[k].readable
    PROVE  LET first == FirstOf(h, limit)
               x == Recent(Rows(h), limit)
           IN  /\ first \in Nat /\ 1 <= first
               /\ Len(h) = 0 => x = << >>
               /\ Len(h) # 0 => /\ first <= Len(h)
                                /\ x \in Seq(Nat)
                                /\ Len(x) = Len(h) - first + 1
                                /\ \A i \in 1..Len(x) : x[i] = Counters(h)[first + i - 1]
<1>. DEFINE N == Len(h)
            first == FirstOf(h, limit)
            r == Rows(h)
            x == Recent(r, limit)
<1>1. N \in Nat /\ DOMAIN h = 1..N
  OBVIOUS
<1>2. \A k \in 1..N : k \in 0..N
  BY <1>1
<1>3. r = [k \in 1..N |-> Counters(h)[k]]
  BY <1>1 DEF Rows
<1>4. \A k \in 1..N : Counters(h)[k] \in Nat
  BY <1>2, CounterLoop
<1>. HIDE DEF N, r
<1>5. r \in Seq(Nat) /\ Len(r) = N
  BY <1>1, <1>3, <1>4
<1>6. FirstOf(r, limit) = first
  BY <1>5 DEF FirstOf, N
<1>7. first \in Nat /\ 1 <= first /\ (N # 0 => first <= N)
  BY <1>1 DEF FirstOf, N
<1>8. x = SubSeq(r, first, N)
  BY <1>5, <1>6 DEF Recent
<1>. HIDE DEF x, first
<1>9. ASSUME N = 0 PROVE x = << >>
  <2>1. r = << >>
    BY <1>5, <1>9
  <2>2. SubSeq(r, first, N) \in Seq(Nat) /\ Len(SubSeq(r, first, N)) = 0
    BY <1>5, <1>7, <1>9
  <2>. QED
    BY <1>8, <2>2
<1>10. ASSUME N # 0
       PROVE  /\ x \in Seq(Nat)
              /\ Len(x) = N - first + 1
              /\ \A i \in 1..Len(x) : x[i] = Counters(h)[first + i - 1]
  <2>1. x \in Seq(Nat) /\ Len(x) = N - first + 1
    BY <1>1, <1>5, <1>7, <1>8, <1>10
  <2>2. \A i \in 1..(N - first + 1) : x[i] = r[first + i - 1]
    BY <1>1, <1>5, <1>7, <1>8, <1>10
  <2>3. \A i \in 1..(N - first + 1) : first + i - 1 \in 1..N
    BY <1>1, <1>7, <1>10
  <2>. QED
    BY <1>3, <2>1, <2>2, <2>3
<1>. QED
  BY <1>7, <1>9, <1>10 DEF N, x, first, r

\* BytesFrom adds up the periods from the one after first.
LEMMA BytesAre ==
    ASSUME NEW h \in Seq(Periods), NEW first \in Nat, 1 <= first, first <= Len(h)
    PROVE  \E y \in Seq(Nat) :
                /\ Len(y) = Len(h) - first
                /\ \A k \in 1..(Len(h) - first) : y[k] = h[first + k].bytes
                /\ BytesFrom(h, first + 1) = TotalTo(y, Len(h) - first)
<1>. DEFINE N == Len(h)
            M == N - first
            later == SubSeq(h, first + 1, N)
            y == [k \in DOMAIN later |-> later[k].bytes]
<1>1. N \in Nat /\ M \in Nat
  OBVIOUS
<1>2. later \in Seq(Periods) /\ Len(later) = M
  <2>1. later \in Seq(Periods)
    BY <1>1
  <2>2. CASE first = N
    BY <1>1, <2>2
  <2>3. CASE first # N
    BY <1>1, <2>3
  <2>. QED
    BY <2>1, <2>2, <2>3
<1>3. \A k \in 1..M : later[k] = h[first + k]
  <2>1. \A k \in 1..M : later[k] = h[(first + 1) + k - 1]
    BY <1>1
  <2>2. \A k \in 1..M : (first + 1) + k - 1 = first + k
    BY <1>1
  <2>. QED
    BY <2>1, <2>2
<1>4. BytesFrom(h, first + 1) = TotalTo(y, Len(y))
  BY DEF BytesFrom, Total
<1>5. \A k \in 1..M : h[first + k].bytes \in Nat
  <2>1. \A k \in 1..M : first + k \in 1..N
    BY <1>1
  <2>2. \A k \in 1..M : h[first + k] \in Periods
    BY <2>1
  <2>. QED
    BY <2>2 DEF Periods
<1>. HIDE DEF later, M
<1>6. y = [k \in 1..M |-> h[first + k].bytes]
  <2>1. DOMAIN later = 1..M
    BY <1>1, <1>2
  <2>. QED
    BY <1>3, <2>1
<1>. HIDE DEF y
<1>7. y \in Seq(Nat) /\ Len(y) = M /\ \A k \in 1..M : y[k] = h[first + k].bytes
  BY <1>1, <1>5, <1>6
<1>. QED
  BY <1>4, <1>7 DEF M

\* Totals of natural numbers.
LEMMA TotalNat ==
    ASSUME NEW y \in Seq(Nat), NEW n \in 0..Len(y)
    PROVE  TotalTo(y, n) \in Nat
<1>. DEFINE N == Len(y)
            S == {k \in 0..N : TotalTo(y, k) \in Nat}
<1>1. N \in Nat /\ \A k \in 1..N : y[k] \in Nat
  OBVIOUS
<1>. HIDE DEF N
<1>2. 0 \in S
  <2>1. \A k \in 1..0 : y[k] \in Int
    OBVIOUS
  <2>2. TotalTo(y, 0) = 0
    BY <2>1, TotalLoop DEF Totals
  <2>. QED
    BY <1>1, <2>2
<1>3. ASSUME NEW k \in 0..(N - 1), k \in S PROVE k + 1 \in S
  <2>1. k \in Nat /\ k + 1 \in 0..N /\ k + 1 \in 1..N
    BY <1>1
  <2>2. \A i \in 1..(k + 1) : y[i] \in Int
    BY <1>1
  <2>3. TotalTo(y, k + 1) = TotalTo(y, k) + y[k + 1]
    BY <2>1, <2>2, TotalStep
  <2>4. TotalTo(y, k) \in Nat /\ y[k + 1] \in Nat
    BY <1>1, <1>3, <2>1
  <2>. QED
    BY <2>1, <2>3, <2>4
<1>. HIDE DEF S
<1>4. 0..N \subseteq S
  BY <1>1, <1>2, <1>3, Induction
<1>. QED
  BY <1>4 DEF S, N

\* From one row to a later one the counter grows by no more than the bytes
\* between them, and by as many if Windows ran on.
LEMMA CounterGrows ==
    ASSUME NEW h \in Seq(Periods), NEW first \in Nat, first <= Len(h), NEW y \in Seq(Nat),
           Len(y) = Len(h) - first,
           \A k \in 1..(Len(h) - first) : y[k] = h[first + k].bytes
    PROVE  LET c == Counters(h) IN
           /\ c[Len(h)] <= c[first] + TotalTo(y, Len(y))
           /\ (\A k \in (first + 1)..Len(h) : ~h[k].reboot) =>
                c[Len(h)] = c[first] + TotalTo(y, Len(y))
<1>. DEFINE N == Len(h)
            M == Len(y)
            c == Counters(h)
            RunsOn == \A k \in (first + 1)..N : ~h[k].reboot
            S == {k \in 0..M : /\ c[first + k] <= c[first] + TotalTo(y, k)
                               /\ RunsOn => c[first + k] = c[first] + TotalTo(y, k)}
<1>1. N \in Nat /\ M \in Nat /\ first + M = N
  OBVIOUS
<1>2. \A k \in 0..N : c[k] \in Nat
  BY CounterLoop
<1>3. \A k \in 0..(N - 1) : c[k + 1] = NextCounter(h, c[k], k + 1)
  BY CounterLoop
<1>4. \A k \in 1..M : y[k] \in Nat /\ y[k] = h[first + k].bytes
  OBVIOUS
<1>5. \A k \in 0..M : TotalTo(y, k) \in Nat
  BY TotalNat
<1>. HIDE DEF N, M, c
<1>6. 0 \in S
  <2>1. \A k \in 1..0 : y[k] \in Int
    OBVIOUS
  <2>2. TotalTo(y, 0) = 0
    BY <2>1, TotalLoop DEF Totals
  <2>3. c[first] \in Nat /\ first + 0 = first
    BY <1>1, <1>2
  <2>. QED
    BY <1>1, <2>2, <2>3
<1>7. ASSUME NEW k \in 0..(M - 1), k \in S PROVE k + 1 \in S
  <2>1. k \in Nat /\ k + 1 \in 0..M /\ k + 1 \in 1..M /\ first + k \in 0..(N - 1)
        /\ first + k \in 0..N /\ first \in 0..N /\ (first + k) + 1 = first + (k + 1)
    BY <1>1
  <2>2. TotalTo(y, k + 1) = TotalTo(y, k) + y[k + 1]
    <3>1. \A i \in 1..(k + 1) : y[i] \in Int
      BY <1>1, <1>4
    <3>. QED
      BY <2>1, <3>1, TotalStep
  <2>. DEFINE old == c[first + k]
              new == c[first + (k + 1)]
              t == TotalTo(y, k)
              b == y[k + 1]
              c1 == c[first]
  <2>3. old \in Nat /\ t \in Nat /\ b \in Nat /\ c1 \in Nat
    <3>1. old \in Nat
      BY <1>2, <2>1
    <3>2. c1 \in Nat
      BY <1>2, <2>1
    <3>3. b \in Nat
      BY <1>4, <2>1
    <3>4. k \in 0..M
      BY <1>1
    <3>5. t \in Nat
      BY <1>5, <3>4
    <3>. QED
      BY <3>1, <3>2, <3>3, <3>5
  <2>4. new = (IF h[first + (k + 1)].reboot THEN 0 ELSE old) + b
    <3>1. new = NextCounter(h, old, first + (k + 1))
      BY <1>3, <2>1
    <3>2. h[first + (k + 1)].bytes = b
      BY <1>4, <2>1
    <3>. QED
      BY <3>1, <3>2 DEF NextCounter
  <2>5. old <= c1 + t /\ (RunsOn => old = c1 + t)
    BY <1>7
  <2>6. RunsOn => ~h[first + (k + 1)].reboot
    <3>1. first + (k + 1) \in (first + 1)..N
      BY <1>1, <2>1
    <3>. QED
      BY <3>1
  <2>. HIDE DEF old, new, t, b, c1, RunsOn
  <2>7. new <= c1 + (t + b)
    BY <2>3, <2>4, <2>5
  <2>8. RunsOn => new = c1 + (t + b)
    BY <2>3, <2>4, <2>5, <2>6
  <2>9. /\ c[first + (k + 1)] <= c[first] + TotalTo(y, k + 1)
        /\ RunsOn => c[first + (k + 1)] = c[first] + TotalTo(y, k + 1)
    BY <2>2, <2>7, <2>8 DEF new, c1, t, b
  <2>. QED
    BY <2>1, <2>9
<1>. HIDE DEF S
<1>8. 0..M \subseteq S
  BY <1>1, <1>6, <1>7, Induction
<1>9. M \in S
  BY <1>1, <1>8
<1>. QED
  BY <1>1, <1>9 DEF S, N, M, c

\* The trend that traffic-history prints.
LEMMA DeltaIsTold ==
    ASSUME NEW h \in Seq(Periods), NEW limit \in Int, NEW delta,
           delta = Delta(Recent(Rows(h), limit)), \A k \in DOMAIN h : h[k].readable
    PROVE  LET first == FirstOf(h, limit)
           IN  /\ delta \in 0..BytesFrom(h, first + 1)
               /\ RanOn(h) => delta = BytesFrom(h, first + 1)
<1>. DEFINE N == Len(h)
            first == FirstOf(h, limit)
            x == Recent(Rows(h), limit)
            bytes == BytesFrom(h, first + 1)
<1>1. /\ first \in Nat /\ 1 <= first
      /\ N = 0 => x = << >>
      /\ N # 0 => /\ first <= N
                  /\ x \in Seq(Nat)
                  /\ Len(x) = N - first + 1
                  /\ \A i \in 1..Len(x) : x[i] = Counters(h)[first + i - 1]
  BY WindowIs
<1>2. CASE N = 0
  <2>1. first = 1
    BY <1>2 DEF FirstOf
  <2>2. SubSeq(h, 2, N) = << >>
    BY <1>2
  <2>3. bytes = 0
    <3>. DEFINE later == SubSeq(h, 2, N)
                y == [k \in DOMAIN later |-> later[k].bytes]
    <3>1. bytes = TotalTo(y, Len(y))
      BY <2>1 DEF BytesFrom, Total
    <3>2. y = << >>
      BY <2>2
    <3>. HIDE DEF y
    <3>3. Len(y) = 0 /\ \A k \in 1..0 : y[k] \in Int
      BY <3>2
    <3>4. TotalTo(y, 0) = 0
      BY <3>3, TotalLoop DEF Totals
    <3>. QED
      BY <3>1, <3>3, <3>4
  <2>4. x = << >> /\ delta = Delta(x)
    BY <1>1, <1>2
  <2>5. Delta(<< >>) = 0
    BY DEF Delta
  <2>6. delta = 0
    BY <2>4, <2>5
  <2>. QED
    BY <2>3, <2>6
<1>3. CASE N # 0
  <2>. DEFINE c == Counters(h)
              M == N - first
  <2>1. N \in Nat /\ first <= N /\ M \in Nat
    BY <1>1, <1>3
  <2>2. PICK y \in Seq(Nat) :
            /\ Len(y) = M
            /\ \A k \in 1..M : y[k] = h[first + k].bytes
            /\ bytes = TotalTo(y, M)
    <3>. HIDE DEF first
    <3>. QED
      BY <1>1, <2>1, BytesAre
  <2>3. /\ c[N] <= c[first] + bytes
        /\ (\A k \in (first + 1)..N : ~h[k].reboot) => c[N] = c[first] + bytes
    <3>. HIDE DEF first
    <3>. QED
      <4>1. Len(y) = Len(h) - first /\ first <= Len(h)
        BY <2>1, <2>2
      <4>2. \A k \in 1..(Len(h) - first) : y[k] = h[first + k].bytes
        BY <2>2
      <4>3. /\ Counters(h)[Len(h)] <= Counters(h)[first] + TotalTo(y, Len(y))
            /\ (\A k \in (first + 1)..Len(h) : ~h[k].reboot) =>
                 Counters(h)[Len(h)] = Counters(h)[first] + TotalTo(y, Len(y))
        BY <1>1, <4>1, <4>2, CounterGrows
      <4>. QED
        BY <2>2, <4>3
  <2>4. bytes \in Nat
    <3>1. M \in 0..Len(y)
      BY <2>1, <2>2
    <3>. QED
      BY <2>2, <3>1, TotalNat
  <2>5. c[N] \in Nat /\ c[first] \in Nat
    <3>1. N \in 0..N /\ first \in 0..N
      BY <1>1, <2>1
    <3>. HIDE DEF first
    <3>. QED
      BY <3>1, CounterLoop
  <2>6. RanOn(h) => \A k \in (first + 1)..N : ~h[k].reboot
    <3>1. \A k \in (first + 1)..N : k \in DOMAIN h /\ k # 1
      BY <1>1, <2>1
    <3>. QED
      BY <3>1 DEF RanOn
  <2>7. x[1] = c[first] /\ x[Len(x)] = c[N] /\ Len(x) = N - first + 1
    <3>1. Len(x) = N - first + 1
      BY <1>1, <1>3
    <3>2. \A i \in 1..Len(x) : x[i] = c[first + i - 1]
      BY <1>1, <1>3
    <3>. HIDE DEF first, x, c, N
    <3>3. 1 \in 1..Len(x) /\ Len(x) \in 1..Len(x) /\ first + 1 - 1 = first
          /\ first + Len(x) - 1 = N
      BY <1>1, <2>1, <3>1
    <3>. QED
      BY <3>1, <3>2, <3>3
  <2>8. Len(x) < 2 => c[N] = c[first]
    <3>. HIDE DEF first, x, c, N
    <3>1. Len(x) < 2 => N = first
      BY <1>1, <2>1, <2>7
    <3>. QED
      BY <3>1
  <2>9. delta = IF Len(x) >= 2 /\ c[N] > c[first] THEN c[N] - c[first] ELSE 0
    BY <2>7 DEF Delta
  <2>10. Len(x) \in Nat
    BY <1>1, <2>1, <2>7
  <2>. DEFINE cn == c[N]
              cf == c[first]
              n == Len(x)
  <2>. HIDE DEF cn, cf, n, bytes
  <2>11. /\ cn \in Nat /\ cf \in Nat /\ n \in Nat /\ bytes \in Nat
         /\ cn <= cf + bytes /\ (n < 2 => cn = cf)
         /\ delta = IF n >= 2 /\ cn > cf THEN cn - cf ELSE 0
    BY <2>3, <2>4, <2>5, <2>8, <2>9, <2>10 DEF cn, cf, n
  <2>12. RanOn(h) => cn = cf + bytes
    BY <2>3, <2>6 DEF cn, cf
  <2>13. delta \in 0..bytes /\ (RanOn(h) => delta = bytes)
    BY <2>11, <2>12
  <2>. QED
    BY <2>13 DEF bytes
<1>. QED
  BY <1>2, <1>3


\* What anomalies concludes.
LEMMA SpikeIsTold ==
    ASSUME NEW h \in Seq(Periods), RanOn(h), NEW spike, spike = Spike(Recent(Rows(h), 120))
    PROVE  LET n == Len(h)
           IN  /\ (\A k \in 2..n : h[k].bytes <= h[k - 1].bytes) => ~spike
               /\ n > 3 /\ (\A k \in 1..(n - 1) : h[k].bytes = h[1].bytes) /\ h[1].bytes > 0
                       /\ h[n].bytes >= (n - 1) * h[1].bytes => spike
<1>. DEFINE n == Len(h)
            limit == 120
            first == FirstOf(h, limit)
            x == Recent(Rows(h), limit)
            c == Counters(h)
            L == Len(x)
<1>1. \A k \in DOMAIN h : h[k].readable
  BY DEF RanOn
<1>2. limit \in Int /\ 3 < limit
  OBVIOUS
<1>3. /\ first \in Nat /\ 1 <= first
      /\ n = 0 => x = << >>
      /\ n # 0 => /\ first <= n
                  /\ x \in Seq(Nat)
                  /\ L = n - first + 1
                  /\ \A i \in 1..L : x[i] = c[first + i - 1]
  <2>. HIDE DEF limit
  <2>. QED
    BY <1>1, <1>2, WindowIs
<1>4. n \in Nat /\ first = IF limit < n THEN n - limit + 1 ELSE 1
  BY DEF FirstOf
<1>5. spike = Spike(x)
  OBVIOUS
<1>6. CASE n = 0
  <2>1. x = << >>
    BY <1>3, <1>6
  <2>2. ~Spike(<< >>)
    BY SpikeIs
  <2>. QED
    BY <1>5, <1>6, <2>1, <2>2
<1>7. CASE n # 0
  <2>1. \A k \in 1..n : h[k].bytes \in Nat
    <3>1. \A k \in 1..n : h[k] \in Periods
      OBVIOUS
    <3>. QED
      BY <3>1 DEF Periods
  <2>2. \A k \in 2..n : ~h[k].reboot
    BY DEF RanOn
  <2>3. \A k \in 0..(n - 1) : c[k] \in Nat /\ c[k + 1] = NextCounter(h, c[k], k + 1)
    BY CounterLoop
  <2>. HIDE DEF c, first, x, limit
  <2>4. /\ x \in Seq(Nat) /\ x \in Seq(Int) /\ L \in Nat /\ first \in 1..n /\ L = n - first + 1
        /\ \A i \in 1..L : x[i] = c[first + i - 1]
    BY <1>3, <1>4, <1>7
  <2>. HIDE DEF L, n
  <2>5. /\ n \in Nat /\ L \in Nat /\ first \in Nat /\ 1 <= first /\ first <= n
        /\ L = n - first + 1
    BY <1>4, <2>4
  <2>6. ASSUME NEW i \in 1..(L - 1)
        PROVE  /\ first + i \in 2..n /\ h[first + i].bytes \in Nat
               /\ x[i + 1] - x[i] = h[first + i].bytes
    <3>. DEFINE k == first + i - 1
    <3>1. /\ i \in Nat /\ i \in 1..L /\ i + 1 \in 1..L /\ k \in 0..(n - 1) /\ k + 1 = first + i
          /\ k + 1 \in 2..n /\ k + 1 \in 1..n /\ first + (i + 1) - 1 = k + 1
      BY <2>5
    <3>. HIDE DEF k
    <3>2. x[i] = c[k] /\ x[i + 1] = c[k + 1]
      BY <2>4, <3>1 DEF k
    <3>3. c[k] \in Nat /\ c[k + 1] = NextCounter(h, c[k], k + 1)
      BY <2>3, <3>1
    <3>4. ~h[k + 1].reboot
      BY <2>2, <3>1
    <3>5. c[k + 1] = c[k] + h[k + 1].bytes
      BY <3>3, <3>4 DEF NextCounter
    <3>6. h[k + 1].bytes \in Nat
      BY <2>1, <3>1
    <3>. DEFINE ck == c[k]
                bytes == h[k + 1].bytes
    <3>. HIDE DEF ck, bytes
    <3>7. (ck + bytes) - ck = bytes
      BY <3>3, <3>6 DEF ck, bytes
    <3>8. x[i + 1] - x[i] = bytes
      BY <3>2, <3>5, <3>7 DEF ck, bytes
    <3>. QED
      BY <3>1, <3>6, <3>8 DEF bytes
  <2>7. ASSUME \A k \in 2..n : h[k].bytes <= h[k - 1].bytes PROVE ~spike
    <3>1. L = Len(x)
      BY DEF L
    <3>2. \A i \in 1..(L - 1) : x[i + 1] - x[i] \in Nat
      BY <2>6
    <3>3. ASSUME NEW i \in 1..(L - 2)
          PROVE  x[i + 2] - x[i + 1] <= x[i + 1] - x[i]
      <4>1. i \in Nat /\ i \in 1..(L - 1) /\ i + 1 \in 1..(L - 1) /\ (i + 1) + 1 = i + 2
            /\ first + (i + 1) - 1 = first + i
        BY <2>5
      <4>2. x[i + 1] - x[i] = h[first + i].bytes
        BY <2>6, <4>1
      <4>. DEFINE j == i + 1
      <4>3. j \in 1..(L - 1)
        BY <4>1
      <4>. HIDE DEF j
      <4>4. first + j \in 2..n /\ x[j + 1] - x[j] = h[first + j].bytes
        BY <2>6, <4>3
      <4>5. h[first + j].bytes <= h[(first + j) - 1].bytes
        BY <2>7, <4>4
      <4>6. (first + j) - 1 = first + i /\ j + 1 = i + 2
        BY <2>5, <4>1 DEF j
      <4>7. x[i + 2] - x[j] = h[first + j].bytes /\ h[first + j].bytes <= h[first + i].bytes
        BY <4>4, <4>5, <4>6
      <4>. QED
        BY <4>2, <4>7 DEF j
    <3>4. ~Spike(x)
      BY <2>4, <3>1, <3>2, <3>3, FallingIsNoSpike
    <3>. QED
      BY <1>5, <3>4
  <2>8. ASSUME n > 3, \A k \in 1..(n - 1) : h[k].bytes = h[1].bytes, h[1].bytes > 0,
               h[n].bytes >= (n - 1) * h[1].bytes
        PROVE  spike
    <3>. DEFINE b == h[1].bytes
                last == h[n].bytes
    <3>1. b \in Nat /\ 0 < b /\ last \in Nat
      <4>1. 1 \in 1..n /\ n \in 1..n
        BY <1>4, <2>8
      <4>2. b \in Nat /\ last \in Nat
        BY <2>1, <4>1
      <4>. QED
        BY <2>8, <4>2
    <3>2. \A k \in 1..(n - 1) : h[k].bytes = b
      BY <2>8
    <3>3. last >= (n - 1) * b
      BY <2>8
    <3>. HIDE DEF b, last
    <3>4. 4 <= L /\ L <= n /\ L = Len(x)
      BY <1>2, <1>4, <2>4, <2>8 DEF L
    <3>5. ASSUME NEW i \in 1..(L - 2) PROVE x[i + 1] - x[i] = b
      <4>1. i \in 1..(L - 1) /\ first + i \in 1..(n - 1)
        BY <2>5
      <4>. QED
        BY <2>6, <3>2, <4>1
    <3>6. (L - 1) * b <= x[L] - x[L - 1]
      <4>. DEFINE m == L - 1
                  l == n - 1
                  most == l * b
                  need == m * b
      <4>1. m \in 1..(L - 1) /\ m \in Nat /\ l \in Nat /\ m <= l /\ m + 1 = L /\ first + m = n
        BY <2>5, <3>4
      <4>. HIDE DEF m, l
      <4>2. x[m + 1] - x[m] = h[first + m].bytes
        BY <2>6, <4>1
      <4>3. x[L] - x[m] = last
        BY <4>1, <4>2 DEF last
      <4>4. \A i, j \in Nat : i <= j => i * b <= j * b
        BY <3>1, SMT
      <4>5. need <= most /\ need \in Int /\ most \in Int
        BY <3>1, <4>1, <4>4
      <4>6. last >= most
        BY <3>3 DEF l
      <4>. HIDE DEF need, most
      <4>7. need <= last
        BY <3>1, <4>5, <4>6
      <4>. QED
        BY <4>3, <4>7 DEF need, m
    <3>7. Spike(x)
      BY <2>4, <3>1, <3>4, <3>5, <3>6, BurstIsSpike
    <3>. QED
      BY <1>5, <3>7
  <2>. QED
    BY <2>7, <2>8 DEF n
<1>. QED
  BY <1>6, <1>7

-----------------------------------------------------------------------------
(* The verdicts as invariants                                              *)

Verdicts ==
    /\ HonestIsNotAccused
    /\ InterferenceIsSeen
    /\ BackupTakesOver
    /\ TrafficIsToldTruly

Concludes == {"diagnose", "multiwan_status", "traffic_history", "anomalies"}

LEMMA OtherVerdicts ==
    ASSUME call'.command \notin Concludes
    PROVE  Verdicts'
  BY DEF Concludes, Verdicts, HonestIsNotAccused, InterferenceIsSeen, BackupTakesOver, TrafficIsToldTruly, NameCheck, Diagnosed

LEMMA DiagnosisVerdicts ==
    ASSUME NEW kind, NEW input, NEW verdict, Diagnose(kind, input, verdict),
           \/ /\ kind \in {"dns", "transparent_dns"}
              /\ \E domain \in Domains, path \in Paths :
                    /\ input = [domain |-> domain, path |-> path]
                    /\ verdict \in NameVerdicts(domain, path)
           \/ /\ kind = "tls"
              /\ \E peer \in Peers, hints \in Hints :
                    /\ input = [peer |-> peer, hints |-> hints]
                    /\ verdict = TlsInspection(peer, hints)
           \/ kind = "sni" /\ \E peer : input = [peer |-> peer] /\ verdict = SniFiltering(peer)
           \/ kind = "captive" /\ \E reply : input = [reply |-> reply] /\ verdict = CaptivePortal(reply)
    PROVE  Verdicts'
<1>1. /\ call'.command = "diagnose" /\ call'.kind = kind /\ call'.input = input
      /\ answer'.verdict = verdict
  BY DEF Diagnose, Tells
<1>2. BackupTakesOver' /\ TrafficIsToldTruly'
  BY <1>1 DEF BackupTakesOver, TrafficIsToldTruly
<1>3. CASE kind \in {"dns", "transparent_dns"}
  <2>1. PICK domain \in Domains, path \in Paths :
            input = [domain |-> domain, path |-> path] /\ verdict \in NameVerdicts(domain, path)
    BY <1>3
  <2>2. call'.input.domain = domain /\ call'.input.path = path
    BY <1>1, <2>1
  <2>3. HonestIsNotAccused'
    BY <1>1, <1>3, <2>1, <2>2, HonestNames DEF HonestIsNotAccused, NameCheck, Diagnosed
  <2>4. InterferenceIsSeen'
    BY <1>1, <1>3, <2>1, <2>2, ForgedNames DEF InterferenceIsSeen, NameCheck, Diagnosed
  <2>. QED
    BY <1>2, <2>3, <2>4 DEF Verdicts
<1>4. CASE kind = "tls"
  <2>1. PICK peer \in Peers, hints \in Hints : /\ input = [peer |-> peer, hints |-> hints]
                                                /\ verdict = TlsInspection(peer, hints)
    BY <1>4
  <2>2. call'.input.peer = peer /\ call'.input.hints = hints
    BY <1>1, <2>1
  <2>3. /\ peer = "genuine" /\ "inspector" \notin hints => verdict.status = "normal"
        /\ peer = "inspector" /\ hints = {"genuine"} => verdict.status # "normal"
    <3>1. ASSUME peer = "genuine", "inspector" \notin hints PROVE verdict.status = "normal"
      <4>1. hints = {} \/ hints = {"genuine"}
        BY <3>1 DEF Hints
      <4>. QED
        BY <2>1, <3>1, <4>1 DEF TlsInspection, Verdict, Certificates
    <3>2. ASSUME peer = "inspector", hints = {"genuine"} PROVE verdict.status # "normal"
      BY <2>1, <3>2 DEF TlsInspection, Verdict, Certificates
    <3>. QED
      BY <3>1, <3>2
  <2>. QED
    BY <1>1, <1>2, <1>4, <2>2, <2>3
       DEF Verdicts, HonestIsNotAccused, InterferenceIsSeen, NameCheck, Diagnosed
<1>5. CASE kind = "sni"
  <2>1. PICK peer : input = [peer |-> peer] /\ verdict = SniFiltering(peer)
    BY <1>5
  <2>2. call'.input.peer = peer /\ (peer = "genuine" => verdict.status = "reachable")
    BY <1>1, <2>1 DEF SniFiltering, Certificates, Verdict
  <2>. QED
    BY <1>1, <1>2, <1>5, <2>2
       DEF Verdicts, HonestIsNotAccused, InterferenceIsSeen, NameCheck, Diagnosed
<1>6. CASE kind = "captive"
  <2>1. PICK reply : input = [reply |-> reply] /\ verdict = CaptivePortal(reply)
    BY <1>6
  <2>2. /\ call'.input.reply = reply
        /\ reply \in {"expected_text", "error", "none"} => verdict.status # "captive"
    BY <1>1, <2>1 DEF CaptivePortal, Verdict
  <2>. QED
    BY <1>1, <1>2, <1>6, <2>2
       DEF Verdicts, HonestIsNotAccused, InterferenceIsSeen, NameCheck, Diagnosed
<1>. QED
  BY <1>3, <1>4, <1>5, <1>6

LEMMA ChangesTellNoVerdict ==
    ASSUME Changes
    PROVE  call'.command \notin Concludes
<1>. USE DEF Concludes, Reports, Ends
<1>1. ASSUME NEW name, NEW servers, NEW i, DnsApply(name, servers, i)
      PROVE  call'.command \notin Concludes
  <2>1. call' = [command |-> "dns_apply", profile |-> name, servers |-> servers, iface |-> i]
    BY <1>1 DEF DnsApply
  <2>. QED
    BY <2>1
<1>2. ASSUME NEW i, DnsClear(i) PROVE call'.command \notin Concludes
  BY <1>2 DEF DnsClear
<1>3. ASSUME NEW server, ProxyEnable(server) PROVE call'.command \notin Concludes
  BY <1>3 DEF ProxyEnable
<1>4. ASSUME NEW url, ProxyPac(url) PROVE call'.command \notin Concludes
  BY <1>4 DEF ProxyPac
<1>5. CASE ProxyDisable
  BY <1>5 DEF ProxyDisable
<1>6. ASSUME NEW urls, DdnsForce(urls) PROVE call'.command \notin Concludes
  BY <1>6 DEF DdnsForce
<1>. QED
  BY <1>1, <1>2, <1>3, <1>4, <1>5, <1>6 DEF Changes

LEMMA VerdictsKept ==
    ASSUME Verdicts, UNCHANGED <<call, answer>>
    PROVE  Verdicts'
<1>1. call' = call /\ answer' = answer
  OBVIOUS
<1>2. HonestIsNotAccused'
  BY <1>1 DEF Verdicts, HonestIsNotAccused, NameCheck, Diagnosed
<1>3. InterferenceIsSeen'
  BY <1>1 DEF Verdicts, InterferenceIsSeen, NameCheck, Diagnosed
<1>4. BackupTakesOver'
  BY <1>1 DEF Verdicts, BackupTakesOver
<1>5. TrafficIsToldTruly'
  BY <1>1 DEF Verdicts, TrafficIsToldTruly
<1>. QED
  BY <1>2, <1>3, <1>4, <1>5 DEF Verdicts

LEMMA ReadsConclude ==
    ASSUME Reads
    PROVE  Verdicts'
<1>1. CASE ReadConfig \/ Status
  <2>1. call'.command \notin Concludes
    BY <1>1 DEF ReadConfig, Reports, Ends, Status, Tells, Concludes
  <2>. QED
    BY <2>1, OtherVerdicts
<1>2. ASSUME NEW files, VerifyBundle(files) PROVE Verdicts'
  <2>1. call'.command \notin Concludes
    BY <1>2 DEF VerifyBundle, Tells, Concludes
  <2>. QED
    BY <2>1, OtherVerdicts
<1>3. ASSUME NEW kind, Refuse(kind) PROVE Verdicts'
  <2>1. call'.command = "diagnose" /\ answer'.exit = 2
    BY <1>3 DEF Refuse, Tells
  <2>. QED
    BY <2>1 DEF Verdicts, HonestIsNotAccused, InterferenceIsSeen, BackupTakesOver,
                TrafficIsToldTruly, NameCheck, Diagnosed
<1>4. ASSUME NEW domain \in Domains, NEW path \in Paths, DiagnoseNames(domain, path)
      PROVE  Verdicts'
  <2>1. PICK kind \in {"dns", "transparent_dns"}, verdict \in NameVerdicts(domain, path) :
            Diagnose(kind, [domain |-> domain, path |-> path], verdict)
    BY <1>4 DEF DiagnoseNames, NameVerdicts
  <2>. QED
    BY <2>1, DiagnosisVerdicts
<1>5. ASSUME NEW peer \in Peers, NEW hints \in Hints, DiagnoseTls(peer, hints) PROVE Verdicts'
  BY <1>5, DiagnosisVerdicts DEF DiagnoseTls
<1>6. ASSUME NEW peer \in Peers, DiagnoseSni(peer) PROVE Verdicts'
  BY <1>6, DiagnosisVerdicts DEF DiagnoseSni
<1>7. ASSUME NEW reply, DiagnoseCaptive(reply) PROVE Verdicts'
  BY <1>7, DiagnosisVerdicts DEF DiagnoseCaptive
<1>8. ASSUME NEW adapters \in Adapters, MultiwanStatus(adapters) PROVE Verdicts'
  <2>1. /\ call'.command = "multiwan_status" /\ call'.adapters = adapters
        /\ answer'.failover = Failover(adapters)
    BY <1>8 DEF MultiwanStatus, Tells
  <2>2. IsFiniteSet(adapters) /\ Named(adapters)
    BY CommandAssumption DEF Named
  <2>3. BackupTakesOver'
    BY <2>1, <2>2, FailoverTakesOver DEF BackupTakesOver
  <2>. QED
    BY <2>1, <2>3 DEF Verdicts, HonestIsNotAccused, InterferenceIsSeen, TrafficIsToldTruly, NameCheck, Diagnosed
<1>9. ASSUME NEW seconds \in Durations, PcapPlan(seconds) PROVE Verdicts'
  <2>1. call'.command \notin Concludes
    BY <1>9 DEF PcapPlan, Tells, Concludes
  <2>. QED
    BY <2>1, OtherVerdicts
<1>10. ASSUME NEW history \in Histories, NEW limit \in Limits, TrafficHistory(history, limit)
       PROVE  Verdicts'
  <2>1. /\ call'.command = "traffic_history" /\ call'.history = history /\ call'.limit = limit
        /\ answer'.delta = Delta(Recent(Rows(history), limit))
    BY <1>10 DEF TrafficHistory, Tells
  <2>2. history \in Seq(Periods) /\ limit \in Int
    BY CommandAssumption
  <2>3. TrafficIsToldTruly'
    BY <2>1, <2>2, DeltaIsTold DEF TrafficIsToldTruly, RanOn
  <2>. QED
    BY <2>1, <2>3 DEF Verdicts, HonestIsNotAccused, InterferenceIsSeen, BackupTakesOver, NameCheck, Diagnosed
<1>11. ASSUME NEW history \in Histories, Anomalies(history) PROVE Verdicts'
  <2>1. /\ call'.command = "anomalies" /\ call'.history = history
        /\ answer'.spike = Spike(Recent(Rows(history), 120))
    BY <1>11 DEF Anomalies, Tells
  <2>2. history \in Seq(Periods)
    BY CommandAssumption
  <2>3. TrafficIsToldTruly'
    BY <2>1, <2>2, SpikeIsTold DEF TrafficIsToldTruly
  <2>. QED
    BY <2>1, <2>3 DEF Verdicts, HonestIsNotAccused, InterferenceIsSeen, BackupTakesOver, NameCheck, Diagnosed
<1>12. ASSUME NEW id, NEW operation, NEW given, FrontierGate(id, operation, given) PROVE Verdicts'
  <2>1. call'.command \notin Concludes
    BY <1>12 DEF FrontierGate, Tells, Concludes
  <2>. QED
    BY <2>1, OtherVerdicts
<1>. QED
  BY <1>1, <1>2, <1>3, <1>4, <1>5, <1>6, <1>7, <1>8, <1>9, <1>10, <1>11, <1>12 DEF Reads

LEMMA VerdictsAlways == Spec => []Verdicts
<1>1. Init => Verdicts
  BY DEF Init, Verdicts, HonestIsNotAccused, InterferenceIsSeen, BackupTakesOver,
         TrafficIsToldTruly, NameCheck, Diagnosed
<1>2. Verdicts /\ [Next]_commandVars => Verdicts'
  <2>1. Changes => Verdicts'
    BY ChangesTellNoVerdict, OtherVerdicts
  <2>2. Moves => UNCHANGED <<call, answer>>
    BY DEF Moves
  <2>3. UNCHANGED commandVars => UNCHANGED <<call, answer>>
    BY DEF commandVars
  <2>. QED
    BY <2>1, <2>2, <2>3, VerdictsKept, ReadsConclude DEF Next
<1>. QED
  BY <1>1, <1>2, PTL DEF Spec

\* For every domain and path: honest answers that share an IPv4 address are not
\* called interference, whatever else they hold, and nor is the peer that was
\* meant (classify_dns_integrity, classify_transparent_dns_proxy,
\* run_tls_inspection_diagnostic).
THEOREM HonestIsNotAccusedAlways == Spec => []HonestIsNotAccused
BY VerdictsAlways, PTL DEF Verdicts

\* For every domain and path: a forged answer is not called normal, and a firm
\* verdict rests on the trusted resolver (classify_dns_integrity).
THEOREM InterferenceIsSeenAlways == Spec => []InterferenceIsSeen
BY VerdictsAlways, PTL DEF Verdicts

\* For every finite set of adapters: two that can carry the traffic are enough
\* for a recommendation, and the backup is the best of the others
\* (adapter_failover_recommendation).
THEOREM BackupTakesOverAlways == Spec => []BackupTakesOver
BY VerdictsAlways, PTL DEF Verdicts

\* For every history and limit: the trend told is no more than went over the
\* network, and exactly that if Windows ran on (summarize_metric_deltas); traffic
\* that never grows is no spike, and a burst after steady traffic is one
\* (detect_spike).
THEOREM TrafficIsToldTrulyAlways == Spec => []TrafficIsToldTruly
BY VerdictsAlways, PTL DEF Verdicts
=============================================================================
