SPECIFICATION Spec
CONSTANTS
    wifi = wifi
    lan = lan
    dhcp = dhcp
    good = good
    bad = bad
    px = px
    socks = socks
    deadpx = deadpx
    wpad = wpad
    NoIface = NoIface
    NoServers = NoServers
    Automatic = Automatic
    Absent = Absent
    Invalid = Invalid
    NoOp = NoOp
    NoSnapshot = NoSnapshot
    NoPlan = NoPlan
    NoStep = NoStep
    NoKey = NoKey
    DhcpServers = dhcp
    DnsServers = {dhcp, good, bad}
    BadDns = {bad}
    Proxies = {px, deadpx}
    BadProxies = {deadpx}
    Pacs = {wpad}
    InitialProxies <- WorkingProxies
    Ifaces = {wifi}
    Workers = {w1, w2}
    Ops <- AllClicks
    Faults = {}
    Profile <- NoProfile
    MonitorOn = FALSE
    Patient = TRUE
    RollbackFixed = TRUE
    InterfaceFixed = TRUE
INVARIANTS OneTaskPerKey AtRestConnected
PROPERTY ClickIsAtomic
