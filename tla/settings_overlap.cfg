SPECIFICATION Spec
CONSTANTS
    wifi = wifi
    lan = lan
    dhcp = dhcp
    good = good
    bad = bad
    px = px
    socks = socks
    deadpx = deadpx
    wpad = wpad
    NoIface = NoIface
    NoServers = NoServers
    Automatic = Automatic
    Absent = Absent
    Invalid = Invalid
    NoOp = NoOp
    NoSnapshot = NoSnapshot
    NoPlan = NoPlan
    NoStep = NoStep
    NoKey = NoKey
    DhcpServers = dhcp
    DnsServers = {dhcp, good, bad}
    BadDns = {bad}
    Proxies = {px, deadpx}
    BadProxies = {deadpx}
    Pacs = {wpad}
    InitialProxies <- OneProxy
    Ifaces = {wifi}
    Workers = {w1, w2}
    Ops <- FewClicks
    Faults = {}
    Profile <- NoProfile
    MonitorOn = FALSE
    Patient = FALSE
    RollbackFixed = TRUE
    InterfaceFixed = TRUE
INVARIANT AtRestConnected
