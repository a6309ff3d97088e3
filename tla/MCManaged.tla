------------------------------ MODULE MCManaged ------------------------------
\* The instance of ManagedConfig: one plugin, two DNS profiles beside the
\* default one, rules with every defect, policies in every combination that
\* matters.
EXTENDS ManagedConfig, TLC

CONSTANTS home, HOME, mac, broken, good, better, bad, plug

MCFolded == [v \in {home, HOME, mac, broken} |-> IF v = HOME THEN home ELSE v]
MCDefaultDns == "Cloudflare" :> good

Rule(name, on, when, dns) ==
    [name |-> name, enabled |-> on, when |-> when, dns |-> dns, auto_apply |-> Junk]

AllRules ==
    LET ssid == "ssid" :> HOME
        both == [k \in {"bssid", "gateway"} |-> IF k = "bssid" THEN broken ELSE HOME]
    IN  { << Rule("off", FALSE, ssid, "A"), Junk, Rule("first", Junk, ssid, "A"),
             Rule("second", TRUE, "bssid" :> mac, "B") >>,
          << Rule(NoName, TRUE, ssid, "A"), Rule("all", TRUE, "bssid" :> broken, "A"),
             Rule("either", TRUE, both, "C") >>,
          << >> }

File(seconds, switch, plugins, dns, rules) ==
    [settings |-> [k \in Settings |-> CASE k = "interval" -> seconds
                                        [] k \in {"rollback", "metered"} -> switch
                                        [] k = "battery" -> TRUE
                                        [] k = "auto_ddns" -> seconds = 600
                                        [] OTHER -> Junk],
     plugins |-> plugins, dns |-> dns, rules |-> rules]

MCFiles ==
    {File(s, FALSE, {plug}, [n \in {"A", "B"} |-> IF n = "A" THEN good ELSE bad], r) :
        s \in {0, 600}, r \in AllRules}
    \cup {File(Junk, Junk, Junk, "B" :> bad, << >>)}

MCRegistries ==
    { << >>,
      "MinimumCheckIntervalSeconds" :> 300,
      "DisableProxyChanges" :> Junk,
      [n \in {"DisablePlugins", "MinimumCheckIntervalSeconds",
              "ForceRollbackOnConnectivityLoss"} |->
            IF n = "MinimumCheckIntervalSeconds" THEN Junk ELSE TRUE] }

MCContexts ==
    {"ssid" :> home, "gateway" :> HOME, "gateway" :> home, "bssid" :> broken,
     [k \in {"ssid", "bssid"} |-> IF k = "ssid" THEN home ELSE mac], << >>}

MCEdits == {<<"interval", 0>>, <<"interval", 90>>, <<"rollback", TRUE>>,
            <<"auto_ddns", TRUE>>}
=============================================================================
