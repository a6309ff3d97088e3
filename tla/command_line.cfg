CONSTANTS
    eth = eth
    wifi = wifi
    good = good
    other = other
    px = px
    wpad = wpad
    v4 = v4
    v4far = v4far
    v6 = v6
    alias = alias
    lie = lie
    Ifaces = {eth, wifi}
    NoIface = NoIface
    DnsServers = {good, other}
    NoServers = NoServers
    Automatic = Automatic
    DhcpServers = NoServers
    BadDns = {good, other}
    Proxies = {px}
    BadProxies = {}
    Pacs = {wpad}
    InitialProxies <- MCInitialProxies
    Absent = Absent
    Invalid = Invalid
    Faults = {"dns_write", "proxy_write"}
    Profiles <- MCProfiles
    DefaultProfiles <- MCDefaultProfiles
    Configs = {"good", "unusable", "not_utf8"}
    Interfaces = {NoIface, eth}
    ProfileNames = {"work", "Cloudflare"}
    ServerArgs = {good, NoServers}
    ProxyArgs = {px, Invalid}
    PacArgs = {wpad}
    UrlSets <- MCUrlSets
    Bundles <- MCBundles
    Domains <- MCDomains
    Paths <- MCPaths
    Adapters <- MCAdapters
    Durations = {0, 30, 301}
    Histories <- MCHistories
    Limits = {0, 3}
    Capabilities = {"plugin_sandboxing", "wfp_enforcement", "no_such"}
    Operations = {"inspect", "prototype", "implement", "evade"}
    Approvals <- MCApprovals
    MaxChanges = 1
SPECIFICATION Spec
INVARIANTS TypeOK HonestIsNotAccused InterferenceIsSeen TrafficIsToldTruly
INVARIANTS BackupTakesOver
PROPERTIES ExitTellsTruth NothingElseChanges ApprovalsOnlyHelp
