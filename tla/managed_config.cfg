CONSTANTS
    home = home
    HOME = HOME
    mac = mac
    broken = broken
    good = good
    better = better
    bad = bad
    plug = plug
    Plugins = {plug}
    DnsNames = {"A", "B", "Cloudflare"}
    Servers = {good, better, bad}
    BadServers = {bad}
    DefaultDns <- MCDefaultDns
    Values = {home, HOME, mac, broken}
    Unparsable = {broken}
    Folded <- MCFolded
    Junk = Junk
    Nothing = Nothing
    Files <- MCFiles
    Registries <- MCRegistries
    Contexts <- MCContexts
    Edits <- MCEdits
    MaxOutside = 1
SPECIFICATION Spec
INVARIANTS TypeOK LoadIsStable FirstUsableRule PausedIsShown
PROPERTIES PolicyAtStart SaveChangesOneThing
