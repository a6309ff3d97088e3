SPECIFICATION FairSpec
CONSTANTS
    wifi = wifi
    lan = lan
    dhcp = dhcp
    good = good
    bad = bad
    px = px
    socks = socks
    deadpx = deadpx
    wpad = wpad
    NoIface = NoIface
    NoServers = NoServers
    Automatic = Automatic
    Absent = Absent
    Invalid = Invalid
    NoOp = NoOp
    NoSnapshot = NoSnapshot
    NoPlan = NoPlan
    NoStep = NoStep
    NoKey = NoKey
    DhcpServers = dhcp
    DnsServers = {dhcp, good, bad}
    BadDns = {bad}
    Proxies = {px, socks, deadpx}
    BadProxies = {deadpx}
    Pacs = {wpad}
    InitialProxies <- OneProxy
    Ifaces = {wifi, lan}
    Workers = {w1}
    Ops <- NoClicks
    Faults = {}
    Profile <- TwoProfiles
    MonitorOn = TRUE
    Patient = FALSE
    RollbackFixed = TRUE
    InterfaceFixed = FALSE
INVARIANT TypeOK
PROPERTY ProfileReached
