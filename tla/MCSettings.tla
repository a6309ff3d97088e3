------------------------------ MODULE MCSettings ------------------------------
(* Instances of SettingsChange for TLC. *)
EXTENDS SettingsRefinement

CONSTANTS wifi, lan, dhcp, good, bad, px, socks, deadpx, wpad

Click1(k, i, v) == [kind |-> k, iface |-> i, value |-> v]

DnsClicks == {Click1("set_dns", NoIface, s) : s \in {good, bad, Invalid}}
                \cup {Click1("clear_dns", NoIface, Automatic)}

ProxyClicks == {Click1("set_proxy", NoIface, s) : s \in {px, deadpx}}
                \cup {Click1("disable_proxy", NoIface, Absent)}

AdvancedClicks == {Click1("set_pac", NoIface, wpad), Click1("set_socks5", NoIface, deadpx),
                   Click1("set_proxy", NoIface, Invalid)}

RestoreClick == {Click1("restore", NoIface, Absent)}

AllClicks == DnsClicks \cup ProxyClicks \cup AdvancedClicks \cup RestoreClick

\* One good and one bad button of each group.
FewClicks == {Click1("set_dns", NoIface, bad), Click1("set_proxy", NoIface, px)}

\* Buttons that write in one step and in several, and Restore.
FaultyClicks == {Click1("set_dns", NoIface, bad), Click1("set_pac", NoIface, wpad),
                 Click1("disable_proxy", NoIface, Absent)} \cup RestoreClick

NoClicks == {}

NoProfile == [c \in Contexts |-> NoPlan]

\* Joining wifi applies a DNS and a proxy step.
WifiProfile == [c \in Contexts |->
                  IF c = wifi THEN [dns |-> bad, proxy |-> px] ELSE NoPlan]

\* Joining either network applies settings that work.
TwoProfiles == [c \in Contexts |->
                  IF c = wifi THEN [dns |-> good, proxy |-> px]
                  ELSE IF c = lan THEN [dns |-> NoStep, proxy |-> socks] ELSE NoPlan]

Untouched == [EmptyRegistry EXCEPT !.enable = 0]

OneProxy == {Untouched}

\* Every registry content a working machine may start from.
WorkingProxies == {reg \in Registry : reg.enable = 1 => reg.server \notin BadProxies}
=============================================================================
