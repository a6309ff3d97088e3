------------------------------ MODULE CommandLine ------------------------------
(***************************************************************************)
(* lucid_cli.py: every command is a process of its own that calls the same *)
(* functions as the window, on the same settings (NetSettings), without    *)
(* the window's snapshot, probe and rollback, and ends with an exit code.  *)
(*                                                                         *)
(* hosts is in HostsFile.  A command is one step: what others do while it  *)
(* runs is in SettingsChange, ConfigSync and DdnsSync.                     *)
(***************************************************************************)
EXTENDS NetSettings, ActiveDiagnostics, FrontierPolicy, TrafficMetrics

CONSTANTS
    Profiles,       \* the DNS profiles of config.json: a function
    DefaultProfiles,\* those of DEFAULT_CONFIG
    Configs,        \* what config.json may be at first: see ConfigStates
    Interfaces,     \* arguments of --interface; NoIface when it is left out
    ProfileNames,   \* arguments of --profile
    ServerArgs,     \* arguments of --servers
    ProxyArgs,      \* arguments of --server
    PacArgs,        \* arguments of --url
    UrlSets,        \* which update URLs may be configured: sets of Families
    Bundles,        \* states the files of a plugin bundle may be in: sets of
                    \* FileStates
    Domains, Paths, \* domains looked up, and the paths they are looked up on
    Adapters,       \* sets of adapters the machine may have
    Durations,      \* arguments of --duration
    Histories,      \* what went over the network: sequences of Periods
    Limits,         \* arguments of --limit
    Capabilities, Operations, Approvals,    \* arguments of frontier gate
    MaxChanges      \* bound: how often the machine or its network changes

ConfigStates == {"good", "missing", "unusable", "locked", "not_utf8"}
Families == {"legacy", "ipv4", "ipv6"}

\* A forged answer names none of the addresses of the domain; a machine has
\* finitely many adapters, told apart and ordered by their names.
ASSUME CommandAssumption ==
    /\ Configs \subseteq ConfigStates
    /\ Interfaces \subseteq Ifaces \cup {NoIface}
    /\ \A urls \in UrlSets : urls \subseteq Families
    /\ MaxChanges \in Nat
    /\ Durations \subseteq Int
    /\ Histories \subseteq Seq(Periods)
    /\ Limits \subseteq Int
    /\ \A domain \in Domains, path \in Paths :
            /\ path.forged # {}
            /\ path.forged \cap (domain.a \cup domain.far \cup domain.aaaa \cup domain.cname) = {}
    /\ \A adapters \in Adapters :
            /\ IsFiniteSet(adapters)
            /\ \A a, b \in adapters : a.name \in Nat /\ (a.name = b.name => a = b)

VARIABLES
    config,     \* config.json
    told,       \* the families the provider accepted in the last command
    call,       \* the last command with its arguments
    answer,     \* what it printed that matters, and its exit code
    changes     \* how many commands and moves so far may have changed something

commandVars == <<dns, proxy, active, config, told, call, answer, changes>>

FileStates == {"as_listed", "missing", "changed", "outside"}
Replies == {"expected_text", "other_text", "redirect", "error", "none"}
Kinds == {"dns", "transparent_dns", "tls", "sni", "captive"}
Hints == {{}, {"genuine"}, {"inspector"}}

ExitCodes == {0, 1, 2}

-----------------------------------------------------------------------------
(* What every command does                                                 *)

Machine == <<dns, proxy, active>>

\* load_config moves a file aside that is no JSON or too new; a file that is
\* not UTF-8 raises.
LoadConfig == config' = IF config = "unusable" THEN "missing" ELSE config
LoadRaises == config = "not_utf8"

ProfilesNow == IF config = "good" THEN Profiles ELSE DefaultProfiles

Ends(command, exit) == call' = command /\ answer' = [exit |-> exit]

\* _emit or _error with the result of a call to core.
Reports(command, ok) == Ends(command, IF ok THEN 0 ELSE 1) /\ told' = {}

\* A command that only tells.
Tells(command, result) ==
    /\ call' = command
    /\ answer' = result
    /\ told' = {}
    /\ UNCHANGED <<dns, proxy, active, config>>

-----------------------------------------------------------------------------
(* The commands                                                            *)

\* profiles preview, dns list, export-diagnostics.
ReadConfig ==
    /\ LoadConfig
    /\ Reports([command |-> "read_config"], ~LoadRaises)
    /\ UNCHANGED Machine

\* status, proxy status.
Status ==
    Tells([command |-> "status"], [exit |-> 0, enabled |-> proxy.enable = 1])

\* dns apply; only the --profile form looks at the profiles.
DnsApply(name, servers, i) ==
    LET command == [command |-> "dns_apply", profile |-> name, servers |-> servers, iface |-> i]
    IN  /\ LoadConfig
        /\ UNCHANGED <<proxy, active>>
        /\ \/ LoadRaises /\ Reports(command, FALSE) /\ UNCHANGED dns
           \/ /\ ~LoadRaises /\ name # Absent /\ name \notin DOMAIN ProfilesNow
              /\ Ends(command, 2)
              /\ told' = {}
              /\ UNCHANGED dns
           \/ /\ ~LoadRaises /\ (name = Absent \/ name \in DOMAIN ProfilesNow)
              /\ \E ok \in BOOLEAN :
                    /\ SetDns(i, IF name = Absent THEN servers ELSE ProfilesNow[name], ok)
                    /\ Reports(command, ok)

DnsClear(i) ==
    \E ok \in BOOLEAN :
        /\ ClearDns(i, ok)
        /\ Reports([command |-> "dns_clear", iface |-> i], ok)
        /\ UNCHANGED <<proxy, active, config>>

\* proxy enable, proxy socks5.
ProxyEnable(server) ==
    \E ok \in BOOLEAN :
        /\ EnableProxy(server, ok)
        /\ Reports([command |-> "proxy_enable", server |-> server], ok)
        /\ UNCHANGED <<dns, active, config>>

ProxyPac(url) ==
    \E ok \in BOOLEAN :
        /\ SetPac(url, ok)
        /\ Reports([command |-> "proxy_pac", url |-> url], ok)
        /\ UNCHANGED <<dns, active, config>>

ProxyDisable ==
    \E ok \in BOOLEAN :
        /\ DisableProxy(ok)
        /\ Reports([command |-> "proxy_disable"], ok)
        /\ UNCHANGED <<dns, active, config>>

\* The updates update_ddns_dual_stack tries: the legacy URL only when no
\* other is configured.
Tried(urls) == IF urls \subseteq {"legacy"} THEN urls ELSE urls \ {"legacy"}

\* What may come of one: an update needs an address of its family, and its
\* answer may be lost after the provider took it.
Outcomes(urls) ==
    {o \in [Tried(urls) -> {"no_address", "refused", "answer_lost", "updated"}] :
        "legacy" \in DOMAIN o => o["legacy"] # "no_address"}

\* Mutant of Succeeds: one update that worked is enough.
AnySucceeds(outcome) == \E f \in DOMAIN outcome : outcome[f] = "updated"

Succeeds(outcome) ==
    DOMAIN outcome # {} /\ \A f \in DOMAIN outcome : outcome[f] = "updated"

\* ddns force.
DdnsForce(urls) ==
    /\ LoadConfig
    /\ UNCHANGED Machine
    /\ call' = [command |-> "ddns_force", urls |-> urls]
    /\ \/ LoadRaises /\ told' = {} /\ answer' = [exit |-> 1]
       \/ /\ ~LoadRaises
          /\ \E outcome \in Outcomes(urls) :
                /\ told' = {f \in Tried(urls) : outcome[f] \in {"answer_lost", "updated"}}
                /\ answer' = [exit |-> IF Succeeds(outcome) THEN 0 ELSE 1]

\* plugins verify-bundle: verify_bundle_manifest over the files listed.
VerifyBundle(files) ==
    Tells([command |-> "plugins_verify_bundle", files |-> files],
          [exit |-> IF files \subseteq {"as_listed"} THEN 0 ELSE 1])

\* Mutant of Refuse: the captive portal check is made all the same.
CaptiveWithoutConsent(kind) ==
    Tells([command |-> "diagnose", kind |-> kind, consent |-> FALSE],
          [exit |-> 2, probed |-> kind = "captive"])

\* diagnose without --i-consent, and with it.
Refuse(kind) ==
    Tells([command |-> "diagnose", kind |-> kind, consent |-> FALSE],
          [exit |-> 2, probed |-> FALSE])

Diagnose(kind, input, verdict) ==
    Tells([command |-> "diagnose", kind |-> kind, consent |-> TRUE, input |-> input],
          [exit |-> 0, probed |-> TRUE, verdict |-> verdict])

DiagnoseNames(domain, path) ==
    LET input == [domain |-> domain, path |-> path]
    IN  \/ Diagnose("dns", input, DnsIntegrity(domain, path))
        \/ Diagnose("transparent_dns", input, TransparentDns(domain, path))

DiagnoseTls(peer, hints) ==
    Diagnose("tls", [peer |-> peer, hints |-> hints], TlsInspection(peer, hints))

DiagnoseSni(peer) == Diagnose("sni", [peer |-> peer], SniFiltering(peer))

DiagnoseCaptive(reply) == Diagnose("captive", [reply |-> reply], CaptivePortal(reply))

MultiwanStatus(adapters) ==
    Tells([command |-> "multiwan_status", adapters |-> adapters],
          [exit |-> 0, failover |-> Failover(adapters)])

PcapPlan(seconds) ==
    Tells([command |-> "pcap_plan", duration |-> seconds],
          [exit |-> 0, request |-> CaptureRequest(seconds)])

\* traffic-history, for what the Traffic panel has recorded.
TrafficHistory(history, limit) ==
    Tells([command |-> "traffic_history", history |-> history, limit |-> limit],
          [exit |-> 0, delta |-> Delta(Recent(Rows(history), limit))])

\* anomalies, over the last 120 rows.
Anomalies(history) ==
    Tells([command |-> "anomalies", history |-> history],
          [exit |-> 0, spike |-> Spike(Recent(Rows(history), 120))])

FrontierGate(id, operation, given) ==
    Tells([command |-> "frontier_gate", capability |-> id, operation |-> operation,
           given |-> given],
          [exit |-> IF Allowed(id, operation, given) THEN 0 ELSE 2,
           decision |-> Decision(id, operation, given)])

\* The machine moves to another network between two commands.
Moves == SwitchInterface /\ UNCHANGED <<config, told, call, answer>>

Init ==
    /\ SettingsInit
    /\ config \in Configs
    /\ told = {}
    /\ call = [command |-> "none"]
    /\ answer = [exit |-> 0]
    /\ changes = 0

Changes ==
    \/ \E name \in ProfileNames \cup {Absent}, servers \in ServerArgs, i \in Interfaces :
            DnsApply(name, servers, i)
    \/ \E i \in Interfaces : DnsClear(i)
    \/ \E server \in ProxyArgs : ProxyEnable(server)
    \/ \E url \in PacArgs : ProxyPac(url)
    \/ ProxyDisable
    \/ \E dual \in BOOLEAN, urls \in UrlSets :
            DdnsForce(IF dual THEN urls ELSE urls \cap {"legacy"})

Reads ==
    \/ ReadConfig
    \/ Status
    \/ \E files \in Bundles : VerifyBundle(files)
    \/ \E kind \in Kinds : Refuse(kind)
    \/ \E domain \in Domains, path \in Paths : DiagnoseNames(domain, path)
    \/ \E peer \in Peers, hints \in Hints : DiagnoseTls(peer, hints)
    \/ \E peer \in Peers : DiagnoseSni(peer)
    \/ \E reply \in Replies : DiagnoseCaptive(reply)
    \/ \E adapters \in Adapters : MultiwanStatus(adapters)
    \/ \E seconds \in Durations : PcapPlan(seconds)
    \/ \E history \in Histories, limit \in Limits : TrafficHistory(history, limit)
    \/ \E history \in Histories : Anomalies(history)
    \/ \E id \in Capabilities, operation \in Operations, given \in Approvals :
            FrontierGate(id, operation, given)

Next ==
    \/ /\ changes < MaxChanges
       /\ changes' = changes + 1
       /\ Changes \/ Moves
    \/ Reads /\ UNCHANGED changes

Spec == Init /\ [][Next]_commandVars

-----------------------------------------------------------------------------
(* Properties                                                              *)

\* Types.
TypeOK ==
    /\ SettingsTypeOK
    /\ config \in ConfigStates
    /\ told \subseteq Families
    /\ answer.exit \in ExitCodes
    /\ changes \in 0..MaxChanges

ACommand == active' = active /\ call' # call

\* A command that ends with exit code 0 has done what it was asked for.
TruthStep ==
    ACommand /\ answer'.exit = 0 =>
        LET c == call' IN
        /\ c.command = "dns_apply" =>
            /\ c.profile # Absent => c.profile \in DOMAIN ProfilesNow
            /\ dns'[Resolve(c.iface)] =
                    IF c.profile = Absent THEN c.servers ELSE ProfilesNow[c.profile]
        /\ c.command = "dns_clear" => dns'[Resolve(c.iface)] = Automatic
        /\ c.command = "proxy_enable" => proxy'.enable = 1 /\ proxy'.server = c.server
        /\ c.command = "proxy_pac" => proxy'.enable = 0 /\ proxy'.pac = c.url
        /\ c.command = "proxy_disable" => proxy'.enable = 0
        /\ c.command = "ddns_force" => told' # {} /\ c.urls \ told' \subseteq {"legacy"}
        /\ c.command = "plugins_verify_bundle" => c.files \subseteq {"as_listed"}

\* docs/CLI_AND_POWER_MODE.md:51-52: exit code 0 means that all that was asked
\* for is done: on the adapter of the moment when none was named, with the
\* default profiles when config.json could not be used, and for every family
\* of an update.
ExitTellsTruth == [][TruthStep]_commandVars

\* A command changes what it is about and nothing else.
OneSettingStep ==
    ACommand =>
        LET c == call'.command IN
        /\ dns' # dns =>
            /\ c \in {"dns_apply", "dns_clear"}
            /\ \A i \in Ifaces \ {Resolve(call'.iface)} : dns'[i] = dns[i]
        /\ proxy' # proxy => c \in {"proxy_enable", "proxy_pac", "proxy_disable"}
        /\ proxy'.pac # proxy.pac => c = "proxy_pac"
        /\ proxy.override # Absent => proxy'.override = proxy.override
        /\ told' # {} => c = "ddns_force"
        /\ config' # config => config = "unusable"
        /\ answer'.exit = 2 => UNCHANGED <<dns, proxy>> /\ told' = {}
        /\ c = "diagnose" => (answer'.probed => call'.consent)

\* docs/CLI_AND_POWER_MODE.md:54-58: a command changes the setting it names and
\* no other, whether it succeeds, fails or fails half way; one that was refused
\* (exit code 2) changed nothing and contacted nobody; a diagnostic contacts
\* somebody with consent only; config.json is moved aside only when unusable.
NothingElseChanges == [][OneSettingStep]_commandVars

Diagnosed(kinds) == call.command = "diagnose" /\ call.kind \in kinds /\ answer.exit = 0
NameCheck == Diagnosed({"dns", "transparent_dns"})

\* deep_diagnostics.py:95, 144: when both resolvers answer as the owner of the
\* name set it up, and he gave both an IPv4 address in common, no interference is
\* reported for the others, for IPv6 addresses or for aliases; nor is it by the
\* connection checks when the peer is the one that was meant.  A name that is
\* answered with other addresses in other places is reported as interference.
HonestIsNotAccused ==
    /\ NameCheck /\ call.input.domain.a \cap call.input.domain.far # {}
        /\ call.input.path.local = "honest" /\ call.input.path.trusted = "honest" =>
            answer.verdict.status \in
                {"normal", "partial_mismatch", "no_proxy_evidence", "mixed_evidence"}
    /\ Diagnosed({"tls"}) /\ call.input.peer = "genuine" /\ "inspector" \notin call.input.hints =>
            answer.verdict.status = "normal"
    /\ Diagnosed({"sni"}) /\ call.input.peer = "genuine" => answer.verdict.status = "reachable"
    /\ Diagnosed({"captive"}) /\ call.input.reply \in {"expected_text", "error", "none"} =>
            answer.verdict.status # "captive"

\* docs/DEEP_DIAGNOSTICS_FRAMEWORK.md:51, deep_diagnostics.py:106: a partial
\* mismatch is told of answers that overlap.
PartialMeansOverlap ==
    NameCheck /\ answer.verdict.status = "partial_mismatch" =>
        LET input == call.input IN
        SystemAnswers(input.domain, input.path) \cap TrustedAnswers(input.domain, input.path) # {}

\* deep_diagnostics.py:95, 144, 157: answers that were replaced are never called
\* normal and, when the trusted resolver answered, never excused; an issuer other
\* than the one hinted at is never called normal; and a firm verdict on names
\* rests on an answer of the trusted resolver.
InterferenceIsSeen ==
    /\ NameCheck /\ call.input.path.local = "forged" =>
        /\ answer.verdict.status \notin {"normal", "no_proxy_evidence"}
        /\ TrustedAnswers(call.input.domain, call.input.path) # {} =>
                answer.verdict.status \in {"mismatch", "possible_interception"}
    /\ NameCheck /\ answer.verdict.confidence = "medium" =>
            TrustedAnswers(call.input.domain, call.input.path) # {}
    /\ Diagnosed({"tls"}) /\ call.input.peer = "inspector" /\ call.input.hints = {"genuine"} =>
            answer.verdict.status # "normal"

\* forensics_plan.py:162: a failover is recommended as soon as two adapters can
\* carry it, and the backup is the adapter that would be recommended first if
\* the primary went down.
BackupTakesOver ==
    call.command = "multiwan_status" =>
        LET usable == Usable(call.adapters) IN
        /\ Cardinality(usable) >= 2 <=> answer.failover # {}
        /\ \A pair \in answer.failover :
            /\ pair[1] # pair[2] /\ {pair[1], pair[2]} \subseteq usable
            /\ \A next \in Failover(call.adapters \ {pair[1]}) : next[1] = pair[2]

\* One gate after another, with more approvals.
ApprovalsStep ==
    (/\ call.command = "frontier_gate" /\ call'.command = "frontier_gate"
     /\ call'.capability = call.capability /\ call'.operation = call.operation
     /\ call.given.consent => call'.given.consent
     /\ call.given.lab => call'.given.lab
     /\ call.given.reviews \subseteq call'.given.reviews
     /\ answer.exit = 0)
    => answer'.exit = 0

\* Windows ran on through all periods after the first, and its counters could
\* be read.
RanOn(history) ==
    /\ \A k \in DOMAIN history : history[k].readable
    /\ \A k \in DOMAIN history \ {1} : ~history[k].reboot

\* Bytes of the periods from first to the last.
BytesFrom(history, first) ==
    LET later == SubSeq(history, first, Len(history))
    IN  Total([k \in DOMAIN later |-> later[k].bytes])

\* traffic_collector.py:138, anomaly_detection.py:18: the trend is never more
\* than went over the network between the rows listed as long as they could be
\* read, and exactly that if Windows ran on; then traffic that never grows is no
\* anomaly, and a period with as much as all before, after steady traffic, is
\* one.
TrafficIsToldTruly ==
    /\ call.command = "traffic_history" =>
        LET h == call.history
            first == FirstOf(h, call.limit)
        IN  /\ (\A k \in DOMAIN h : h[k].readable) =>
                    answer.delta \in 0..BytesFrom(h, first + 1)
            /\ RanOn(h) => answer.delta = BytesFrom(h, first + 1)
    /\ call.command = "anomalies" /\ RanOn(call.history) =>
        LET h == call.history
            n == Len(h)
        IN  /\ (\A k \in 2..n : h[k].bytes <= h[k - 1].bytes) => ~answer.spike
            /\ n > 3 /\ (\A k \in 1..(n - 1) : h[k].bytes = h[1].bytes) /\ h[1].bytes > 0
                    /\ h[n].bytes >= (n - 1) * h[1].bytes => answer.spike

\* frontier_policy.py:270: what is allowed stays allowed with more consent, lab
\* mode or reviews: nobody is refused for having asked.
ApprovalsOnlyHelp == [][ApprovalsStep]_commandVars
=============================================================================
