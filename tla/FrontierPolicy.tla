---------------------------- MODULE FrontierPolicy ----------------------------
(***************************************************************************)
(* frontier_policy.py: the capabilities that are research, and the gate    *)
(* that says whether an operation on one of them is allowed.               *)
(***************************************************************************)

\* BYPASS_OPERATION_TERMS.
BypassTerms ==
    {"bypass", "circumvent", "domain_front", "domain_fronting", "evade", "evasion",
     "identity_rotate", "policy_bypass", "traffic_camouflage"}

CoreReviews == {"legal", "ethical", "safety", "feasibility"}
ExternalReviews == CoreReviews \cup {"provider_policy", "abuse_risk"}
DriverReviews == CoreReviews \cup {"driver_signing", "rollback", "performance"}

\* Every capability may be inspected and planned.
Capability(id, maturity, more, reviews) ==
    [id |-> id, maturity |-> maturity,
     operations |-> {"inspect", "plan"} \cup more, reviews |-> reviews]

\* CAPABILITIES, the first ten.
LocalCapabilities ==
    LET Driver(id) == Capability(id, "frontier", {"prototype"}, DriverReviews)
        Research(id, more, reviews) == Capability(id, "research", more, reviews)
    IN  { Research("etw_per_process_bandwidth", {"diagnose"}, {"privacy", "performance"}),
          Capability("plugin_sandboxing", "implementation",
                     {"prototype", "implement"}, {"security"}),
          Research("plugin_marketplace", {"prototype"}, {"security", "signing", "abuse_risk"}),
          Research("windows_service_architecture", {"prototype"},
                   {"security", "installer", "operations"}),
          Research("doh_dot_controls", {"diagnose"}, {"os_support", "privacy"}),
          Research("pcap_export", {}, {"legal", "privacy", "signing"}),
          Capability("forensics_sidecar", "prototype", {"prototype"}, {"signing", "privacy"}),
          Driver("wfp_enforcement"), Driver("windivert_enforcement"), Driver("per_app_routing") }

\* CAPABILITIES, the other ten.
NetworkCapabilities ==
    LET Frontier(id, more, reviews) == Capability(id, "frontier", more, reviews)
        Research(id, more, reviews) ==
            Capability(id, "research", more \cup {"prototype"}, reviews)
    IN  { Frontier("multi_wan_load_balancing", {"diagnose"},
                   {"feasibility", "rollback", "performance"}),
          Research("ai_anomaly_detection", {"diagnose"}, {"privacy", "explainability"}),
          Frontier("overlay_orchestration", {"diagnose"}, {"vendor_policy", "consent"}),
          Frontier("domain_fronting_research", {}, ExternalReviews),
          Frontier("traffic_camouflage_research", {}, ExternalReviews),
          Frontier("advanced_anti_censorship", {"diagnose"}, ExternalReviews),
          Frontier("post_quantum_plugin_signing", {"prototype"},
                   {"standards", "cryptography", "compatibility"}),
          Research("siem_opentelemetry_export", {},
                   {"privacy", "operations", "credential_storage"}),
          Research("transport_route_diagnostics", {"diagnose"},
                   {"privacy", "traffic_volume", "sidecar"}),
          Research("wasm_plugin_runtime", {},
                   {"security", "packaging", "developer_experience"}) }

Catalog == LocalCapabilities \cup NetworkCapabilities

Building == {"prototype", "implement"}
Unfinished == {"research", "frontier"}

\* Mutant of ReviewsMissing: a review that was not asked for counts against.
ReviewsDiffer(c, given) == c.reviews # given.reviews

ReviewsMissing(c, given) == ~(c.reviews \subseteq given.reviews)

\* What stands in the way of an operation, given consent, lab mode and reviews.
Blockers(c, operation, given) ==
    {b \in {"scope", "consent", "lab_mode", "reviews", "implementation"} :
        CASE b = "scope" -> operation \notin c.operations
          [] b = "consent" -> operation \in Building \cup {"diagnose"} /\ ~given.consent
          [] b = "lab_mode" ->
                operation \in Building /\ c.maturity \in Unfinished /\ ~given.lab
          [] b = "reviews" -> operation \in Building /\ ReviewsMissing(c, given)
          [] OTHER -> operation = "implement" /\ c.maturity \in Unfinished}

\* evaluate_capability.
Allowed(id, operation, given) ==
    \E c \in Catalog :
        /\ c.id = id
        /\ operation \notin BypassTerms
        /\ Blockers(c, operation, given) = {}

\* decision: what a refusal is called.
Decision(id, operation, given) ==
    CASE Allowed(id, operation, given) -> "allowed"
      [] \A c \in Catalog : c.id # id -> "blocked"
      [] operation \in BypassTerms -> "blocked_operational_bypass"
      [] \E c \in Catalog : c.id = id /\ c.maturity \in Unfinished -> "research_only"
      [] OTHER -> "review_required"
=============================================================================
