---------------------------- MODULE ManagedConfig ----------------------------
(***************************************************************************)
(* What config.json means: its normal form (core.normalize_config), the    *)
(* machine policy merged over it at start (enterprise_policy), the edits   *)
(* the window makes to its own copy, and the rules that are read from a    *)
(* copy: the profile of a network, the pace of the monitor.                *)
(*                                                                         *)
(* ConfigSync has the races between the copies; here a save and a reload   *)
(* are single steps, and a configuration has its fields.  The endpoint     *)
(* lists (proxy, PAC, SOCKS5, IPv4 and IPv6 update URLs) and texts are     *)
(* left out.  The update URL is in the credential store, where the window  *)
(* keeps it: no file holds one.                                            *)
(***************************************************************************)
EXTENDS Integers, Sequences, FiniteSetsExt, Functions

CONSTANTS
    Plugins,        \* plugin ids
    DnsNames,       \* names of DNS profiles
    Servers,        \* lists of DNS servers; validate_dns_servers refuses
    BadServers,     \*   these
    DefaultDns,     \* DEFAULT_CONFIG["dns_profiles"]
    Values,         \* names and addresses by which a network is recognised
    Unparsable,     \* those that are no BSSID
    Folded,         \* Folded[v]: v without its case, or in BSSID notation
    Junk,           \* a value that is missing or of the wrong type
    Nothing,        \* no configuration in memory; no rule matches
    Files,          \* what config.json may hold at first, and what another
                    \* program may leave in it
    Registries,     \* what the policy key in HKLM may hold
    Contexts,       \* networks the machine may be on
    Edits,          \* settings the user may choose: <<setting, value>>
    MaxOutside      \* bound: how often file or policy change from outside

VARIABLES
    file,       \* config.json
    registry,   \* values of the policy key, a function of those that are set
    merged,     \* config and managed_policy in main(), until the window has them
    window,     \* LucidNetGUI.config
    monitor,    \* MonitorService.config
    widgets,    \* the settings tab: a value for each of Shown
    enabled,    \* the ids PluginManager loads
    url,        \* get_ddns_update_url finds an update URL
    outside     \* how often file or policy changed from outside

vars == <<file, registry, merged, window, monitor, widgets, enabled, url, outside>>

Switches == {"rollback", "metered", "battery", "tray", "auto_ddns"}
Shown == Switches \cup {"interval"}
Settings == Shown \cup {"proxy_locked"}
Keys == {"ssid", "bssid", "interface", "gateway"}
NoName == "unnamed"     \* the name of a rule is empty
PolicyNames == {"DisablePlugins", "MinimumCheckIntervalSeconds",
                "ForceRollbackOnConnectivityLoss", "DisableProxyChanges"}

Rules == [name : STRING, enabled : BOOLEAN \cup {Junk}, auto_apply : BOOLEAN \cup {Junk},
          when : UNION {[D -> Values] : D \in SUBSET Keys}, dns : STRING]

\* What normalize_config is given: any value may be missing or of a wrong type.
RawConfig(c) ==
    /\ c = [settings |-> c.settings, plugins |-> c.plugins, dns |-> c.dns, rules |-> c.rules]
    /\ c.settings = [k \in Settings |-> c.settings[k]]
    /\ c.settings.interval = Junk \/ c.settings.interval \in Int
    /\ \A k \in Settings \ {"interval"} : c.settings[k] \in BOOLEAN \cup {Junk}
    /\ c.plugins = Junk \/ c.plugins \subseteq Plugins
    /\ c.dns \in UNION {[D -> Servers] : D \in SUBSET DnsNames}
    /\ c.rules \in Seq(Rules \cup {Junk})

ASSUME ManagedAssumption ==
    /\ \A c \in Files : RawConfig(c)
    /\ \A values \in Registries :
        /\ DOMAIN values \subseteq PolicyNames
        /\ "MinimumCheckIntervalSeconds" \in DOMAIN values =>
                \/ values["MinimumCheckIntervalSeconds"] = Junk
                \/ values["MinimumCheckIntervalSeconds"] \in Int
    /\ \A e \in Edits :
        \/ e[1] = "interval" /\ e[2] \in Int
        \/ e[1] \in Switches /\ e[2] \in BOOLEAN
    /\ Junk \notin Int \cup Rules
    /\ DefaultDns \in UNION {[D -> Servers \ BadServers] : D \in (SUBSET DnsNames) \ {{}}}
    /\ \A v \in Values : Folded[v] \in Values /\ Folded[Folded[v]] = Folded[v]
    /\ \A v \in Values \ Unparsable : Folded[v] \notin Unparsable
    /\ MaxOutside \in Nat

-----------------------------------------------------------------------------
(* normalize_config                                                        *)

ParseBool(raw, default) == IF raw \in BOOLEAN THEN raw ELSE default

Larger(a, b) == IF a > b THEN a ELSE b
Smaller(a, b) == IF a < b THEN a ELSE b
Longest == 86400
Clamp(seconds) == Larger(15, Smaller(Longest, seconds))

\* Policy flags stay as they are, whatever they are.
NormalSettings(s) ==
    [k \in Settings |->
        CASE k \in Switches -> ParseBool(s[k], k # "auto_ddns")
          [] k = "interval" -> IF s[k] = Junk THEN 60 ELSE Clamp(s[k])
          [] OTHER -> s[k]]

\* Mutant of NormalDns: a file without a valid profile gets none.
DnsWithoutDefault(dns) ==
    Restrict(dns, {n \in DOMAIN dns : dns[n] \notin BadServers})

NormalDns(dns) ==
    LET valid == {n \in DOMAIN dns : dns[n] \notin BadServers}
    IN  IF valid = {} THEN DefaultDns ELSE Restrict(dns, valid)

\* The conditions that count: _normalize_bssid empties what is no BSSID.
Conditions(when) ==
    [k \in {j \in DOMAIN when : j # "bssid" \/ when[j] \notin Unparsable} |->
        IF k = "bssid" THEN Folded[when[k]] ELSE when[k]]

NormalRule(r) ==
    [r EXCEPT !.enabled = ParseBool(@, TRUE),
              !.auto_apply = ParseBool(@, FALSE),
              !.when = Conditions(@)]

\* Mutant of Usable: a rule needs a condition before, not after, its BSSID is
\* read.
UsableUnread(r) == r # Junk /\ r.name # NoName /\ DOMAIN r.when # {}

Usable(r) == r # Junk /\ r.name # NoName /\ DOMAIN Conditions(r.when) # {}

\* normal[n] is the list of the loop after n rules: those kept keep their order.
NormalRules(rules) ==
    LET normal[n \in 0..Len(rules)] ==
            IF n = 0 THEN << >>
            ELSE IF Usable(rules[n]) THEN Append(normal[n - 1], NormalRule(rules[n]))
            ELSE normal[n - 1]
    IN  normal[Len(rules)]

Normalize(c) ==
    [settings |-> NormalSettings(c.settings),
     plugins  |-> IF c.plugins = Junk THEN {} ELSE c.plugins,
     dns      |-> NormalDns(c.dns),
     rules    |-> NormalRules(c.rules)]

-----------------------------------------------------------------------------
(* Machine policy                                                          *)

NormalPolicies(values) ==
    [n \in {m \in DOMAIN values : m # "MinimumCheckIntervalSeconds" \/ values[m] # Junk} |->
        IF n = "MinimumCheckIntervalSeconds" THEN Clamp(values[n])
        ELSE ParseBool(values[n], FALSE)]

\* Mutant of ApplyPolicy: the minimum is taken for the interval.
MinimumIsAssigned(c, values) ==
    LET p == NormalPolicies(values)
        Forced(n, old) == IF n \in DOMAIN p THEN p[n] ELSE old
    IN  [Normalize(c) EXCEPT
            !.plugins = IF ~Forced("DisablePlugins", FALSE) THEN @ ELSE {},
            !.settings.interval = Forced("MinimumCheckIntervalSeconds", @),
            !.settings.rollback = Forced("ForceRollbackOnConnectivityLoss", @),
            !.settings.proxy_locked = Forced("DisableProxyChanges", @)]

\* apply_policy_overrides.  DisablePlugins at 0 is no disable_list: it falls
\* through to the end of the loop, which stores FALSE for the list.
ApplyPolicy(c, values) ==
    LET p == NormalPolicies(values)
        Forced(n, old) == IF n \in DOMAIN p THEN p[n] ELSE old
    IN  [Normalize(c) EXCEPT
            !.plugins = IF "DisablePlugins" \notin DOMAIN p THEN @
                        ELSE IF p["DisablePlugins"] THEN {} ELSE Junk,
            !.settings.interval = Larger(@, Forced("MinimumCheckIntervalSeconds", @)),
            !.settings.rollback = Forced("ForceRollbackOnConnectivityLoss", @),
            !.settings.proxy_locked = Forced("DisableProxyChanges", @)]

Target(n) ==
    CASE n = "DisablePlugins" -> "plugins"
      [] n = "MinimumCheckIntervalSeconds" -> "interval"
      [] n = "ForceRollbackOnConnectivityLoss" -> "rollback"
      [] n = "DisableProxyChanges" -> "proxy_locked"

\* managed, which apply_policy_overrides returns beside the configuration: a
\* minimum that is not above the interval is not in it.
ManagedBy(c, values) ==
    LET p == NormalPolicies(values)
    IN  {Target(n) : n \in {m \in DOMAIN p :
            m = "MinimumCheckIntervalSeconds" => Normalize(c).settings.interval < p[m]}}

-----------------------------------------------------------------------------
(* What is read from a configuration                                       *)

\* Case counts in a gateway only.
Same(k, expected, actual) ==
    IF k = "gateway" THEN expected = actual ELSE Folded[expected] = Folded[actual]

Holds(when, context) ==
    \A k \in DOMAIN when : k \in DOMAIN context /\ Same(k, when[k], context[k])

\* Mutant of Match: the last rule that matches wins.
MatchLast(c, context) ==
    LET rules == Normalize(c).rules
        hits == {i \in DOMAIN rules :
                    rules[i].enabled /\ Holds(rules[i].when, Conditions(context))}
    IN  IF hits = {} THEN Nothing ELSE rules[Max(hits)]

\* match_network_profile.
Match(c, context) ==
    LET rules == Normalize(c).rules
        hits == {i \in DOMAIN rules :
                    rules[i].enabled /\ Holds(rules[i].when, Conditions(context))}
    IN  IF hits = {} THEN Nothing ELSE rules[Min(hits)]

\* What get_metered_connection_status and get_power_status may say.
Observations == [metered : BOOLEAN, on_battery : BOOLEAN, battery_saver : BOOLEAN]

\* Mutant of SavesPower: the switch for metered networks is asked.
SavesPowerByMetered(s, seen) == s.metered /\ (seen.on_battery \/ seen.battery_saver)

SavesPower(s, seen) == s.battery /\ (seen.on_battery \/ seen.battery_saver)
SavesData(s, seen) == s.metered /\ seen.metered

\* Each poll observes three times.  _collect_state: the window shows reduced
\* mode.
Reduced(s, seen) == SavesData(s, seen) \/ SavesPower(s, seen)

\* _maybe_update_ddns: the automatic update waits.
Paused(s, seen) == SavesData(s, seen) \/ (seen.battery_saver /\ s.battery)

\* _interval: how long the monitor sleeps.
Sleep(s, seen) == IF Reduced(s, seen) THEN Larger(s.interval, 300) ELSE s.interval

-----------------------------------------------------------------------------
(* The copies                                                              *)

Running == window # Nothing

ShownOf(c) == [k \in Shown |-> c.settings[k]]

\* The ids of a list that may be missing.
Listed(plugins) == IF plugins = Junk THEN {} ELSE plugins

Init ==
    /\ file \in Files
    /\ registry \in Registries
    /\ merged = Nothing
    /\ window = Nothing
    /\ monitor = Nothing
    /\ widgets = Nothing
    /\ enabled = {}
    /\ url \in BOOLEAN
    /\ outside = 0

\* _ensure_config and _apply_machine_policy: policy is merged into the copy
\* that is loaded.
Merge ==
    /\ ~Running /\ merged = Nothing
    /\ merged' = [config  |-> ApplyPolicy(Normalize(file), registry),
                  managed |-> ManagedBy(Normalize(file), registry)]
    /\ UNCHANGED <<file, registry, window, monitor, widgets, enabled, url, outside>>

\* log_event("info", ...) gives the logger a level that is no number: when any
\* policy is in force TypeError ends main.
Uncaught ==
    /\ merged # Nothing
    /\ merged.managed # {}
    /\ merged' = Nothing
    /\ UNCHANGED <<file, registry, window, monitor, widgets, enabled, url, outside>>

\* The window and the plugin manager get that copy; the monitor normalizes it
\* again.
Start ==
    /\ merged # Nothing
    /\ merged.managed = {}
    /\ merged' = Nothing
    /\ window' = merged.config
    /\ monitor' = Normalize(window')
    /\ widgets' = ShownOf(window')
    /\ enabled' = Listed(window'.plugins)
    /\ UNCHANGED <<file, registry, url, outside>>

Quit ==
    /\ Running
    /\ window' = Nothing
    /\ monitor' = Nothing
    /\ widgets' = Nothing
    /\ enabled' = {}
    /\ UNCHANGED <<file, registry, merged, url, outside>>

\* The monitor loads the file; the first poll always does.
Reload ==
    /\ Running
    /\ monitor' = Normalize(file)
    /\ UNCHANGED <<file, registry, merged, window, widgets, enabled, url, outside>>

\* The window takes over the monitor's copy; the tab stays as it is.
Sync ==
    /\ Running
    /\ window' = monitor
    /\ UNCHANGED <<file, registry, merged, monitor, widgets, enabled, url, outside>>

\* save_config and update_config with the window's edited copy.
Store(c) ==
    /\ file' = Normalize(c)
    /\ monitor' = Normalize(c)
    /\ UNCHANGED <<registry, merged, enabled, outside>>

\* The tab after the user set one widget and pressed Save: without a URL the
\* automatic update is turned off.
Toggled(w, k, v) ==
    LET set == [w EXCEPT ![k] = v] IN [set EXCEPT !.auto_ddns = @ /\ url]

\* save_settings: all widgets are written.
SaveSettings(k, v) ==
    /\ Running
    /\ widgets' = Toggled(widgets, k, v)
    /\ window' = [window EXCEPT !.settings =
                    [s \in Settings |->
                        CASE s = "interval" -> Clamp(widgets'[s])
                          [] s \in Switches -> widgets'[s]
                          [] OTHER -> @[s]]]
    /\ UNCHANGED url
    /\ Store(window')

\* save_ddns_url with a URL that could be stored.
SaveUrl ==
    /\ Running
    /\ url' = TRUE
    /\ UNCHANGED <<window, widgets>>
    /\ Store(window)

\* save_ddns_url with an empty one.  A credential that cannot be deleted stays.
ClearUrl ==
    /\ Running
    /\ url' \in {url, FALSE}
    /\ window' = [window EXCEPT !.settings.auto_ddns = FALSE]
    /\ widgets' = [widgets EXCEPT !.auto_ddns = FALSE]
    /\ Store(window')

\* The handlers of the DNS profiles end with _sync_profile_menus.
StoreDns(dns) ==
    /\ Store([window EXCEPT !.dns = dns])
    /\ window' = monitor'
    /\ UNCHANGED <<widgets, url>>

WithProfile(dns, n, servers) ==
    [m \in DOMAIN dns \cup {n} |-> IF m = n THEN servers ELSE dns[m]]

SaveDns(n, servers) ==
    /\ Running
    /\ servers \notin BadServers
    /\ StoreDns(WithProfile(window.dns, n, servers))

\* Mutant of DeleteDns: the last profile can be deleted.
DeleteAnyDns(n) ==
    /\ Running
    /\ n \in DOMAIN window.dns
    /\ StoreDns(Restrict(window.dns, DOMAIN window.dns \ {n}))

DeleteDns(n) ==
    /\ Running
    /\ n \in DOMAIN window.dns
    /\ DOMAIN window.dns # {n}
    /\ StoreDns(Restrict(window.dns, DOMAIN window.dns \ {n}))

Outside ==
    /\ outside < MaxOutside
    /\ outside' = outside + 1
    /\ UNCHANGED <<merged, window, monitor, widgets, enabled, url>>

EditFile == file' \in Files /\ UNCHANGED registry /\ Outside
SetPolicy == registry' \in Registries /\ UNCHANGED file /\ Outside

Next ==
    \/ Merge \/ Uncaught \/ Start \/ Quit \/ Reload \/ Sync
    \/ \E e \in Edits : SaveSettings(e[1], e[2])
    \/ SaveUrl \/ ClearUrl
    \/ \E n \in DnsNames, servers \in Servers : SaveDns(n, servers)
    \/ \E n \in DnsNames : DeleteDns(n)
    \/ EditFile \/ SetPolicy

Spec == Init /\ [][Next]_vars

-----------------------------------------------------------------------------
(* Properties                                                              *)

SafeConfigs(c) ==
    /\ c.settings.interval \in 15..Longest
    /\ \A k \in Switches : c.settings[k] \in BOOLEAN
    /\ c.plugins \in (SUBSET Plugins) \cup {Junk}
    /\ DOMAIN c.dns \subseteq DnsNames /\ DOMAIN c.dns # {}
    /\ \A n \in DOMAIN c.dns : c.dns[n] \in Servers \ BadServers
    /\ \A i \in DOMAIN c.rules :
            /\ c.rules[i].name # NoName /\ DOMAIN c.rules[i].when # {}
            /\ {c.rules[i].enabled, c.rules[i].auto_apply} \subseteq BOOLEAN

\* Types; whatever the file holds, a copy in memory can be used as it is.
TypeOK ==
    /\ merged # Nothing => window = Nothing /\ SafeConfigs(merged.config)
    /\ \/ {window, monitor, widgets} = {Nothing}
       \/ /\ SafeConfigs(window) /\ SafeConfigs(monitor)
          /\ DOMAIN widgets = Shown
          /\ \A k \in Switches : widgets[k] \in BOOLEAN
    /\ enabled \subseteq Plugins
    /\ registry \in Registries
    /\ url \in BOOLEAN
    /\ outside \in 0..MaxOutside

\* core.py:273: a configuration that was normalized is not changed by doing it
\* again, as every save, load and rule does: saving and loading is the identity
\* on what is in memory.
LoadIsStable ==
    \A c \in {file, window} \ {Nothing} : Normalize(Normalize(c)) = Normalize(c)

\* The rule of the file fits the network, by definition.
Fits(r, context) ==
    LET known == Conditions(context)
        counts == DOMAIN r.when \ (IF "bssid" \in DOMAIN r.when /\ r.when["bssid"] \in Unparsable
                                   THEN {"bssid"} ELSE {})
    IN  /\ r.name # NoName /\ r.enabled # FALSE
        /\ counts # {}
        /\ \A k \in counts : k \in DOMAIN known /\ Same(k, r.when[k], known[k])

\* core.py:437: the profile of a network is that of the first rule in the file
\* that is named, not disabled, and whose conditions all hold, whatever stands
\* before, between and after; a rule without a condition that counts is never
\* the profile of every network.
FirstUsableRule ==
    \A context \in Contexts :
        LET fits == {i \in DOMAIN file.rules :
                        file.rules[i] # Junk /\ Fits(file.rules[i], context)}
        IN  Match(file, context) =
                IF fits = {} THEN Nothing ELSE NormalRule(file.rules[Min(fits)])

\* What made the update wait holds in the other observation too.
AsTight(seen, other) ==
    /\ seen.metered => other.metered
    /\ seen.battery_saver => other.battery_saver

\* monitor_service.py:158-161, 199-200, 299-300: in a poll that finds the update
\* of the name must wait, the window shows reduced mode unless the reason began
\* after the state was collected, and the monitor slows down unless the reason
\* ended before it went to sleep; it never polls faster than it was told.
PausedIsShown ==
    Running =>
        LET s == Normalize(monitor).settings IN
        \A asked, other \in Observations :
            /\ Paused(s, asked) /\ AsTight(asked, other) =>
                    Reduced(s, other) /\ Sleep(s, other) >= 300
            /\ Sleep(s, other) >= monitor.settings.interval
            /\ ~(other.metered \/ other.on_battery \/ other.battery_saver) =>
                    Sleep(s, other) = monitor.settings.interval

\* The configuration that main goes on with, and what it calls managed.
PolicyStep ==
    merged = Nothing /\ merged' # Nothing =>
        LET p == NormalPolicies(registry)
            user == Normalize(file)
            new == merged'.config
            Asks(n, value) == n \in DOMAIN p /\ p[n] = value
            Unset(n, k) == n \notin DOMAIN p => new.settings[k] = user.settings[k]
            minimum == "MinimumCheckIntervalSeconds"
        IN  /\ Asks("DisablePlugins", TRUE) => Listed(new.plugins) = {}
            /\ ~Asks("DisablePlugins", TRUE) => Listed(new.plugins) = user.plugins
            /\ new.settings.interval >= user.settings.interval
            /\ minimum \in DOMAIN p =>
                /\ new.settings.interval >= p[minimum]
                /\ new.settings.interval \in {p[minimum], user.settings.interval}
            /\ \A on \in BOOLEAN :
                /\ Asks("ForceRollbackOnConnectivityLoss", on) => new.settings.rollback = on
                /\ Asks("DisableProxyChanges", on) => new.settings.proxy_locked = on
            /\ Unset(minimum, "interval")
            /\ Unset("ForceRollbackOnConnectivityLoss", "rollback")
            /\ Unset("DisableProxyChanges", "proxy_locked")
            /\ \A k \in {"metered", "battery", "tray", "auto_ddns"} :
                    new.settings[k] = user.settings[k]
            /\ new.dns = user.dns /\ new.rules = user.rules
            /\ merged'.managed = {} => new = user

\* enterprise_policy.py:69: apply_policy_overrides puts each policy that is set
\* in the configuration main goes on with, leaves the user's interval where it
\* is longer than the minimum, and changes nothing no policy speaks of, the
\* plugins too unless a policy disables them; and it changes nothing at all
\* when it says that nothing is managed.
PolicyAtStart == [][PolicyStep]_vars

\* docs/ENTERPRISE_DEPLOYMENT.md:13: policy is "applied during startup before
\* the GUI, monitor, plugins, and event history are initialized": a start that
\* merged it goes on with the merged configuration.
PolicyIsApplied ==
    [][merged # Nothing /\ merged' = Nothing => window' = merged.config]_vars

\* Where two normal configurations differ.
Differences(a, b) ==
    {k \in Settings : a.settings[k] # b.settings[k]}
        \cup {n \in DOMAIN a.dns \cup DOMAIN b.dns :
                \/ n \notin DOMAIN a.dns \/ n \notin DOMAIN b.dns
                \/ a.dns[n] # b.dns[n]}
        \cup (IF a.plugins = b.plugins THEN {} ELSE {"plugins"})
        \cup (IF a.rules = b.rules THEN {} ELSE {"rules"})

\* A save in the window, from a copy and a tab that are those of the file.
OneChangeStep ==
    file' # file /\ outside' = outside
        /\ window = Normalize(file) /\ widgets = ShownOf(window) =>
            LET new == Normalize(file')
                off == IF url THEN {} ELSE {"auto_ddns"}
            IN  /\ Cardinality(Differences(new, window) \ off) <= 1
                /\ new.settings.auto_ddns => url \/ window.settings.auto_ddns

\* gui.py:1280-1358, 1753-1781: a save from a copy, and a tab, that are those of
\* the file changes one thing in the file at most, but that without an update
\* URL the automatic update is turned off besides; no default comes back and
\* no rule is lost with it.
SaveChangesOneThing == [][OneChangeStep]_vars
=============================================================================
