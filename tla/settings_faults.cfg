SPECIFICATION FairSpec
CONSTANTS
    wifi = wifi
    lan = lan
    dhcp = dhcp
    good = good
    bad = bad
    px = px
    socks = socks
    deadpx = deadpx
    wpad = wpad
    NoIface = NoIface
    NoServers = NoServers
    Automatic = Automatic
    Absent = Absent
    Invalid = Invalid
    NoOp = NoOp
    NoSnapshot = NoSnapshot
    NoPlan = NoPlan
    NoStep = NoStep
    NoKey = NoKey
    DhcpServers = dhcp
    DnsServers = {dhcp, bad}
    BadDns = {bad}
    Proxies = {px}
    BadProxies = {}
    Pacs = {wpad}
    InitialProxies <- OneProxy
    Ifaces = {wifi}
    Workers = {w1}
    Ops <- FaultyClicks
    Faults = {"dns_write", "proxy_write", "proxy_refresh", "dns_read", "proxy_read", "link", "exception"}
    Profile <- NoProfile
    MonitorOn = FALSE
    Patient = FALSE
    RollbackFixed = FALSE
    InterfaceFixed = TRUE
INVARIANT SuccessIsTrue
PROPERTY TasksEnd
