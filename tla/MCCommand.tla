------------------------------ MODULE MCCommand ------------------------------
\* The instance of CommandLine: two adapters, one profile of each kind, every
\* kind of domain, path and peer, and the capabilities of each maturity.
EXTENDS CommandLine, TLC

CONSTANTS eth, wifi, good, other, px, wpad, v4, v4far, v6, alias, lie

MCProfiles == "work" :> good
MCDefaultProfiles == "Cloudflare" :> other

MCInitialProxies ==
    {[EmptyRegistry EXCEPT !.enable = 0, !.override = "custom"],
     [EmptyRegistry EXCEPT !.enable = 1, !.server = px, !.pac = wpad]}

\* Without an IPv4 address, with one, with one more elsewhere, and with another
\* one elsewhere.
MCDomains ==
    {[a |-> ip[1], far |-> ip[2], aaaa |-> aaaa, cname |-> cname] :
        ip \in {<<{}, {}>>, <<{v4}, {v4}>>, <<{v4}, {v4, v4far}>>, <<{v4}, {v4far}>>},
        aaaa \in {{}, {v6}}, cname \in {{}, {alias}}}
    \ {[a |-> {}, far |-> {}, aaaa |-> {}, cname |-> {alias}]}

MCPaths ==
    {[local |-> l, trusted |-> t, forged |-> {lie}] :
        l \in {"honest", "forged", "none"}, t \in {"honest", "none"}}

Adapter(name, kind, up, gateway) ==
    [name |-> name, kind |-> kind, up |-> up, gateway |-> gateway]

\* A cable without a gateway, Wi-Fi, and two others, each there or not.
MCAdapters ==
    SUBSET {Adapter(1, "ethernet", TRUE, FALSE), Adapter(2, "wifi", TRUE, TRUE),
            Adapter(3, "other", TRUE, TRUE), Adapter(4, "ethernet", FALSE, TRUE)}

MCUrlSets == {{}, {"legacy"}, {"ipv4"}, {"legacy", "ipv4", "ipv6"}}

MCBundles == {{}, {"as_listed"}, {"as_listed", "missing"}, {"changed", "outside"}}

Period(n) == [bytes |-> n, reboot |-> FALSE, readable |-> TRUE]

\* No traffic recorded yet; steady, bursting, falling and uneven traffic; the
\* same with Windows started again, and with counters that could not be read.
MCHistories ==
    LET steady == [k \in 1..4 |-> Period(1)]
        Plain(f) == [k \in DOMAIN f |-> Period(f[k])]
    IN  {Plain(f) : f \in {<< >>, <<1, 1, 1>>, <<1, 1, 1, 1>>, <<1, 1, 1, 3>>, <<1, 1, 1, 1, 4>>,
                           <<4, 4, 1, 1>>, <<4, 3, 2, 0, 0>>, <<1, 4, 1, 3>>, <<0, 0, 0, 0>>}}
        \cup {[steady EXCEPT ![2].reboot = TRUE], [steady EXCEPT ![4].reboot = TRUE],
              [steady EXCEPT ![1].readable = FALSE], [steady EXCEPT ![4].readable = FALSE]}

MCApprovals ==
    {[consent |-> g.consent, lab |-> g.lab, reviews |-> r] :
        g \in [consent : BOOLEAN, lab : BOOLEAN] \ {[consent |-> FALSE, lab |-> TRUE]},
        r \in {{}, {"security"}, DriverReviews \cup {"security"}}}
=============================================================================
