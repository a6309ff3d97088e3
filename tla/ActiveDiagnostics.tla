-------------------------- MODULE ActiveDiagnostics --------------------------
(***************************************************************************)
(* What the diagnostics conclude from what they observe                    *)
(* (deep_diagnostics.py), and the two plans made from local facts          *)
(* (forensics_plan.py): a failover recommendation and a packet capture.    *)
(*                                                                         *)
(* An observation is taken from a world: the records a domain really has,  *)
(* the path its name is looked up on, the peer that answers a connection.  *)
(* The owner of a domain may have it answered differently in other places: *)
(* domain.far are the IPv4 addresses the trusted resolver is given,        *)
(* domain.a those the local one is.                                        *)
(***************************************************************************)
EXTENDS Integers, FiniteSets

Verdict(status, confidence) == [status |-> status, confidence |-> confidence]

-----------------------------------------------------------------------------
(* DNS                                                                     *)

\* _resolve_system: addresses of both families; a failure is no answer.
SystemAnswers(domain, path) ==
    CASE path.local = "honest" -> domain.a \cup domain.aaaa
      [] path.local = "forged" -> path.forged
      [] OTHER -> {}

\* resolve_cloudflare_doh: the data of every record in the answer to a query
\* for A, so the aliases on the way too, and never an AAAA.
TrustedAnswers(domain, path) ==
    IF path.trusted = "honest" THEN domain.far \cup domain.cname ELSE {}

\* Mutant of CompareDns: a resolver without an answer is one that differs.
CompareEmptyToo(local, trusted) ==
    CASE local = trusted -> Verdict("normal", "medium")
      [] local \cap trusted = {} -> Verdict("mismatch", "medium")
      [] OTHER -> Verdict("partial_mismatch", "low")

\* Mutant of CompareDns: answers that are not the same are a mismatch.
CompareAll(local, trusted) ==
    CASE local = {} /\ trusted = {} -> Verdict("inconclusive", "low")
      [] local = {} /\ trusted # {} -> Verdict("filtered", "medium")
      [] local # {} /\ local = trusted -> Verdict("normal", "medium")
      [] OTHER -> Verdict("mismatch", "medium")

\* classify_dns_integrity.
CompareDns(local, trusted) ==
    CASE local = {} /\ trusted = {} -> Verdict("inconclusive", "low")
      [] local = {} /\ trusted # {} -> Verdict("filtered", "medium")
      [] local # {} /\ local = trusted -> Verdict("normal", "medium")
      [] trusted # {} /\ local # {} /\ local \cap trusted = {} ->
            Verdict("mismatch", "medium")
      [] OTHER -> Verdict("partial_mismatch", "low")

\* classify_transparent_dns_proxy.
ComparePath(requested, trusted) ==
    CASE requested = {} /\ trusted = {} -> Verdict("inconclusive", "low")
      [] requested # {} /\ requested = trusted -> Verdict("no_proxy_evidence", "medium")
      [] requested # {} /\ trusted # {} /\ requested \cap trusted = {} ->
            Verdict("possible_interception", "medium")
      [] OTHER -> Verdict("mixed_evidence", "low")

\* run_dns_integrity_diagnostic, run_transparent_dns_proxy_diagnostic: the
\* command line names a resolver for the second and asks the system's.
DnsIntegrity(domain, path) ==
    CompareDns(SystemAnswers(domain, path), TrustedAnswers(domain, path))

TransparentDns(domain, path) ==
    ComparePath(SystemAnswers(domain, path), TrustedAnswers(domain, path))

-----------------------------------------------------------------------------
(* TLS and captive portals                                                 *)

\* What a connection may come to: a certificate of this issuer, or an error
\* whose message holds these words.
Certificates == {"genuine", "inspector"}
ErrorWords == [alert            |-> {"tlsv1_alert", "handshake"},
               untrusted        |-> {"certificate"},
               stalled          |-> {"handshake", "timed_out"},
               timeout          |-> {"timed_out"},
               reset            |-> {"reset"},
               no_such_host     |-> {}]
Peers == Certificates \cup DOMAIN ErrorWords

\* run_tls_inspection_diagnostic; every error is unknown.
TlsInspection(peer, hints) ==
    CASE peer \notin Certificates -> Verdict("unknown", "low")
      [] hints # {} /\ peer \in Certificates \ hints ->
            Verdict("possible_inspection", "medium")
      [] OTHER -> Verdict("normal", "low")

\* run_sni_filtering_diagnostic: the words of the handshake come first.
SniFiltering(peer) ==
    IF peer \in Certificates THEN Verdict("reachable", "low")
    ELSE IF ErrorWords[peer] \cap {"handshake", "sni", "unrecognized_name",
                                   "tlsv1_alert", "certificate"} # {}
         THEN Verdict("possible_sni_or_tls_filtering", "medium")
    ELSE IF ErrorWords[peer] \cap {"timed_out", "timeout", "reset", "refused"} # {}
         THEN Verdict("connectivity_failure", "low")
    ELSE Verdict("unknown", "low")

\* detect_captive_portal and run_captive_portal_diagnostic.
CaptivePortal(reply) ==
    CASE reply = "expected_text" -> Verdict("open", "medium")
      [] reply \in {"redirect", "other_text"} -> Verdict("captive", "medium")
      [] OTHER -> Verdict("unknown", "low")

-----------------------------------------------------------------------------
(* Plans                                                                   *)

Usable(adapters) == {a \in adapters : a.up /\ a.gateway}

\* _adapter_metric_hint.
Metric(a) ==
    CASE ~a.up -> 9999
      [] a.kind = "ethernet" -> 10
      [] a.kind = "wifi" -> 50
      [] OTHER -> 100

Before(a, b) == Metric(a) < Metric(b) \/ (Metric(a) = Metric(b) /\ a.name < b.name)

\* Mutant of Failover: the two best adapters are chosen among all that are up.
BestOfThoseUp(adapters) ==
    LET Rank(a) == Cardinality({b \in adapters : Before(b, a)})
    IN  {pair \in Usable(adapters) \X Usable(adapters) :
            Cardinality(Usable(adapters)) >= 2 /\ Rank(pair[1]) = 0 /\ Rank(pair[2]) = 1}

\* adapter_failover_recommendation: <<primary, backup>> in a set, which is
\* empty for single_path.
Failover(adapters) ==
    LET usable == Usable(adapters)
        Rank(a) == Cardinality({b \in usable : Before(b, a)})
    IN  {pair \in usable \X usable :
            Cardinality(usable) >= 2 /\ Rank(pair[1]) = 0 /\ Rank(pair[2]) = 1}

Within(low, high, n) == IF n < low THEN low ELSE IF n > high THEN high ELSE n

\* pcap_export_request: pcap_capture_plan, then sidecar_request.
CaptureRequest(seconds) ==
    LET duration == Within(5, 300, seconds)
    IN  [duration |-> duration, timeout |-> Within(1, 300, duration + 15),
         payloads |-> FALSE, acknowledge |-> TRUE]
=============================================================================
