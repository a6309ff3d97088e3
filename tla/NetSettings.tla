----------------------------- MODULE NetSettings -----------------------------
(***************************************************************************)
(* The Windows network settings Lucid Net changes, and the calls of        *)
(* core.py that read and write them.  Every thread of the process (the UI  *)
(* worker threads, the monitor thread) and the user outside the program    *)
(* share this state; no lock of the program protects it.                   *)
(*                                                                         *)
(* Each writing call is an action on dns or proxy that also fixes the      *)
(* Boolean ok the call returns.  One call is one step: it is one process   *)
(* spawn or one burst of registry writes.                                  *)
(***************************************************************************)
EXTENDS Naturals

CONSTANTS
    Ifaces,         \* network adapters
    NoIface,        \* get_active_interface_alias() found none
    DnsServers,     \* server lists that can be configured on an adapter
    NoServers,      \* the empty server list
    Automatic,      \* adapter takes its servers from DHCP
    DhcpServers,    \* what DHCP hands out
    BadDns,         \* server lists that do not resolve
    Proxies,        \* values of ProxyServer (HTTP and socks=)
    BadProxies,     \* proxies that do not forward
    Pacs,           \* values of AutoConfigURL
    InitialProxies, \* WinINet values the user had before the program ran
    Absent,         \* a registry value that does not exist
    Invalid,        \* an argument the validators of core.py refuse
    Faults          \* which calls may fail: see FaultKinds

FaultKinds == {"dns_write", "proxy_write", "proxy_refresh",
               "dns_read", "proxy_read", "link", "exception"}

Registry == [enable   : {0, 1, Absent},
             server   : Proxies \cup {Absent},
             override : {Absent, "custom", "local_bypass"},
             pac      : Pacs \cup {Absent}]

EmptyRegistry == [enable |-> Absent, server |-> Absent,
                  override |-> Absent, pac |-> Absent]

ASSUME SettingsAssumption ==
    /\ NoIface \notin Ifaces
    /\ BadDns \subseteq DnsServers
    /\ {NoServers, Automatic, Invalid} \cap DnsServers = {}
    /\ NoServers # Automatic
    /\ DhcpServers \in DnsServers \cup {NoServers}
    /\ {Absent, Invalid} \cap (Proxies \cup Pacs) = {}
    /\ InitialProxies \subseteq Registry
    /\ Faults \subseteq FaultKinds

VARIABLES
    dns,        \* dns[i]: Automatic or the static server list of adapter i
    proxy,      \* the WinINet values of HKCU Internet Settings
    active      \* adapter of the default route, or NoIface

settingsVars == <<dns, proxy, active>>

Servers == DnsServers \cup {NoServers}

SettingsTypeOK ==
    /\ dns \in [Ifaces -> DnsServers \cup {Automatic}]
    /\ proxy \in Registry
    /\ active \in Ifaces \cup {NoIface}

-----------------------------------------------------------------------------
(* Reading                                                                 *)

\* What Get-DnsClientServerAddress lists: the servers in effect, static or not.
Effective(i) == IF dns[i] = Automatic THEN DhcpServers ELSE dns[i]

\* An interface argument of None is resolved when the call runs.
Resolve(i) == IF i = NoIface THEN active ELSE i

\* Mutant of DnsReads: the configured servers are read, not the effective ones.
DnsReadsRaw(i) ==
    {IF Resolve(i) = NoIface THEN NoServers ELSE dns[Resolve(i)]}

\* The results get_dns_restore_state(i) may return: [] stands both for "no
\* servers" and for a PowerShell call that failed.
DnsReads(i) ==
    {IF Resolve(i) = NoIface THEN NoServers ELSE Effective(Resolve(i))}
        \cup (IF "dns_read" \in Faults THEN {NoServers} ELSE {})

\* The results get_proxy_settings() may return.
ProxyReads ==
    {proxy} \cup (IF "proxy_read" \in Faults THEN {EmptyRegistry} ELSE {})

\* Server list s resolves names.
Resolves(s) == s \in DnsServers \ BadDns

\* The HTTP probe gets through: name resolution on the active adapter and the
\* proxy Python's HTTP stack takes from the registry (a PAC URL is ignored).
ProbeSucceeds(servers, reg) ==
    /\ Resolves(servers)
    /\ reg.enable = 1 => reg.server \notin BadProxies

Connected == active # NoIface /\ ProbeSucceeds(Effective(active), proxy)

\* Mutant of CheckResults: the probe does not go through the proxy.
CheckIgnoresProxy == {active # NoIface /\ Resolves(Effective(active))}

\* The verdicts check_basic_connectivity() may return.
CheckResults ==
    {Connected} \cup (IF "link" \in Faults THEN {FALSE} ELSE {})

-----------------------------------------------------------------------------
(* Writing                                                                 *)

\* Set-DnsClientServerAddress on adapter i.  A failure is reported before or
\* after the adapter changed (the 45 s timeout kills the shell, not the change).
DnsCommand(i, value, ok) ==
    LET target  == Resolve(i)
        changed == [dns EXCEPT ![target] = value]
    IN  \/ target = NoIface /\ ~ok /\ UNCHANGED dns
        \/ target # NoIface /\ ok /\ dns' = changed
        \/ /\ target # NoIface /\ "dns_write" \in Faults /\ ~ok
           /\ dns' \in {dns, changed}

SetDns(i, servers, ok) ==
    IF servers \in DnsServers THEN DnsCommand(i, servers, ok)
                              ELSE ~ok /\ UNCHANGED dns

\* Mutant of ClearDns: an empty static list is written.
ClearWithNone(i, ok) == DnsCommand(i, NoServers, ok)

ClearDns(i, ok) == DnsCommand(i, Automatic, ok)

\* How far a burst of registry writes may get: the four values are written in
\* this order by every caller, and a caller leaves the ones it does not write.
PartialWrites(new) ==
    LET one   == [proxy EXCEPT !.enable = new.enable]
        two   == [one EXCEPT !.server = new.server]
        three == [two EXCEPT !.override = new.override]
    IN  {proxy, one, two, three}

\* A burst of writes to reach new, then the WinINet refresh notification.
RegistryWrite(new, ok) ==
    \/ ok /\ proxy' = new
    \/ ~ok /\ "proxy_refresh" \in Faults /\ proxy' = new
    \/ ~ok /\ "proxy_write" \in Faults /\ proxy' \in PartialWrites(new)

\* ProxyOverride is only written when the user has none.
WithBypass(reg) ==
    IF reg.override = Absent THEN [reg EXCEPT !.override = "local_bypass"] ELSE reg

EnableProxy(server, ok) ==
    IF server \in Proxies
    THEN RegistryWrite(WithBypass([proxy EXCEPT !.enable = 1, !.server = server]), ok)
    ELSE ~ok /\ UNCHANGED proxy

DisableProxy(ok) == RegistryWrite([proxy EXCEPT !.enable = 0], ok)

SetPac(url, ok) ==
    IF url \in Pacs
    THEN RegistryWrite([proxy EXCEPT !.enable = 0, !.pac = url], ok)
    ELSE ~ok /\ UNCHANGED proxy

\* Mutant of RestoreProxy: bypass list and PAC URL are forgotten.
RestoreEnableAndServer(reg, ok) ==
    RegistryWrite([proxy EXCEPT !.enable = reg.enable, !.server = reg.server], ok)

\* Every value of the snapshot is written back; a value it does not hold is deleted.
RestoreProxy(reg, ok) == RegistryWrite(reg, ok)

\* The DNS half of a rollback or a restore: an empty list means automatic.
RestoreDns(i, servers, ok) ==
    IF servers = NoServers THEN ClearDns(i, ok) ELSE SetDns(i, servers, ok)

-----------------------------------------------------------------------------
SettingsInit ==
    /\ dns \in [Ifaces -> {Automatic} \cup (DnsServers \ BadDns)]
    /\ proxy \in InitialProxies
    /\ active \in Ifaces

\* The default route moves: cable pulled, Wi-Fi joined, VPN up.
SwitchInterface ==
    /\ active' \in (Ifaces \cup {NoIface}) \ {active}
    /\ UNCHANGED <<dns, proxy>>
=============================================================================
