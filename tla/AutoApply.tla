------------------------------ MODULE AutoApply ------------------------------
(***************************************************************************)
(* The monitor thread's automatic profile application                      *)
(* (MonitorService._maybe_apply_network_profile and                        *)
(* core.apply_network_profile_plan).  On a poll the monitor looks at the   *)
(* adapter it is connected through; when an auto-apply profile matches and *)
(* is not the one it applied last, it captures DNS and proxy, runs the     *)
(* steps of the plan, probes the connection and rolls back on failure.     *)
(***************************************************************************)
EXTENDS NetSettings

CONSTANTS
    Profile,    \* Profile[c]: the plan matching context c, or NoPlan
    NoPlan,     \* no profile matches, or the match has auto_apply off
    NoStep,     \* the plan has no step of this type
    NoKey       \* _last_auto_profile_key is None

Contexts == Ifaces \cup {NoIface}

Plans == [dns : DnsServers \cup {NoServers, NoStep}, proxy : Proxies \cup {NoStep}]

ASSUME ProfileAssumption ==
    /\ Profile \in [Contexts -> Plans \cup {NoPlan}]
    /\ NoPlan \notin Plans
    /\ NoStep \notin DnsServers \cup {NoServers} \cup Proxies
    /\ NoKey \notin Contexts

VARIABLES
    mpc,        \* where the monitor is in its poll
    mctx,       \* the context the plan was made for
    mdns,       \* restore_snapshot["dns"]: server list read
    mdnsIface,  \* and the adapter it was read from
    mproxy,     \* restore_snapshot["proxy"]
    mok,        \* every step so far succeeded
    mrollback,  \* rollback_on_connectivity_loss in the config of this poll
    lastKey,    \* _last_auto_profile_key
    mresult     \* reason of the last attempt

monitorVars == <<mpc, mctx, mdns, mdnsIface, mproxy, mok, mrollback, lastKey, mresult>>

MonitorSteps == {"sleep", "snap_dns", "snap_proxy", "dns_step", "proxy_step",
                 "probe", "roll_dns", "roll_proxy"}

MonitorTypeOK ==
    /\ mpc \in MonitorSteps
    /\ mctx \in Contexts
    /\ mdns \in Servers
    /\ mdnsIface \in Contexts
    /\ mproxy \in Registry
    /\ mok \in BOOLEAN
    /\ mrollback \in BOOLEAN
    /\ lastKey \in Contexts \cup {NoKey}
    /\ mresult \in {"none", "applied", "apply_failed", "rolled_back"}

MonitorInit ==
    /\ mpc = "sleep"
    /\ mctx = NoIface
    /\ mdns = NoServers
    /\ mdnsIface = NoIface
    /\ mproxy = EmptyRegistry
    /\ mok = TRUE
    /\ mrollback = TRUE
    /\ lastKey = NoKey
    /\ mresult = "none"

\* _maybe_apply_network_profile: the portal status is as old as the poll, so
\* any poll may find it set and leave (a stuttering step, not written here).
Poll(enabled) ==
    /\ mpc = "sleep"
    /\ Profile[active] # NoPlan
    /\ lastKey # active
    /\ mpc' = "snap_dns"
    /\ mctx' = active
    /\ mok' = TRUE
    /\ mrollback' = enabled
    /\ UNCHANGED <<mdns, mdnsIface, mproxy, lastKey, mresult, settingsVars>>

CapturePlanDns ==
    /\ mpc = "snap_dns"
    /\ mpc' = "snap_proxy"
    /\ mdnsIface' = Resolve(mctx)
    /\ \E s \in DnsReads(mctx) : mdns' = s
    /\ UNCHANGED <<mctx, mproxy, mok, mrollback, lastKey, mresult, settingsVars>>

CapturePlanProxy ==
    /\ mpc = "snap_proxy"
    /\ mpc' = "dns_step"
    /\ \E reg \in ProxyReads : mproxy' = reg
    /\ UNCHANGED <<mctx, mdns, mdnsIface, mok, mrollback, lastKey, mresult, settingsVars>>

\* A profile whose DNS profile has no servers fails this step.
DnsStep ==
    /\ mpc = "dns_step"
    /\ mpc' = "proxy_step"
    /\ IF Profile[mctx].dns = NoStep
       THEN UNCHANGED <<mok, dns>>
       ELSE \E ok \in BOOLEAN : SetDns(mctx, Profile[mctx].dns, ok) /\ mok' = ok
    /\ UNCHANGED <<mctx, mdns, mdnsIface, mproxy, mrollback, lastKey, mresult, proxy, active>>

\* The proxy step runs whether or not the DNS step succeeded; one failed step
\* ends the attempt with what was changed left in place.
ProxyStep ==
    /\ mpc = "proxy_step"
    /\ IF Profile[mctx].proxy = NoStep
       THEN UNCHANGED <<mok, proxy>>
       ELSE \E ok \in BOOLEAN :
                EnableProxy(Profile[mctx].proxy, ok) /\ mok' = (mok /\ ok)
    /\ mpc' = IF mok' THEN "probe" ELSE "sleep"
    /\ mresult' = IF mok' THEN mresult ELSE "apply_failed"
    /\ UNCHANGED <<mctx, mdns, mdnsIface, mproxy, mrollback, lastKey, dns, active>>

ProbePlan ==
    /\ mpc = "probe"
    /\ \E online \in CheckResults :
        IF mrollback /\ ~online
        THEN mpc' = "roll_dns" /\ UNCHANGED <<lastKey, mresult>>
        ELSE mpc' = "sleep" /\ lastKey' = mctx /\ mresult' = "applied"
    /\ UNCHANGED <<mctx, mdns, mdnsIface, mproxy, mok, mrollback, settingsVars>>

RollPlanDns ==
    /\ mpc = "roll_dns"
    /\ mpc' = "roll_proxy"
    /\ \E ok \in BOOLEAN :
        RestoreDns(IF mdnsIface = NoIface THEN mctx ELSE mdnsIface, mdns, ok)
    /\ UNCHANGED <<mctx, mdns, mdnsIface, mproxy, mok, mrollback, lastKey, mresult, proxy, active>>

\* Mutant of ForgetKey: an attempt counts as done even when it was rolled back.
RememberKey == lastKey' = mctx

\* A rolled back profile is tried again on the next poll.
ForgetKey == lastKey' = NoKey

RollPlanProxy ==
    /\ mpc = "roll_proxy"
    /\ mpc' = "sleep"
    /\ \E ok \in BOOLEAN : RestoreProxy(mproxy, ok)
    /\ ForgetKey
    /\ mresult' = "rolled_back"
    /\ UNCHANGED <<mctx, mdns, mdnsIface, mproxy, mok, mrollback, dns, active>>

MonitorStep ==
    \/ CapturePlanDns
    \/ CapturePlanProxy
    \/ DnsStep
    \/ ProxyStep
    \/ ProbePlan
    \/ RollPlanDns
    \/ RollPlanProxy
=============================================================================
