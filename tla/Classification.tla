--------------------------- MODULE Classification ----------------------------
(***************************************************************************)
(* classification.Classify: the verdict on a domain from the DNS results   *)
(* of the local resolver and of the one over HTTPS and from the attempt    *)
(* the HTTP check ended with.  Seven columns and a confidence are computed *)
(* apart from each other; the properties are about their agreement.        *)
(***************************************************************************)
EXTENDS Integers, Sequences, DnsCheck, HttpCheck

CONSTANT ResolverResults   \* results a resolver's check can end with

ASSUME ClassificationAssumption == \A results \in ResolverResults : Complete(results)

\* The first conclusive address type decides, then the gravest error.
DnsErrorNames ==
  [DNS_NXDOMAIN |-> "NXDOMAIN", DNS_SERVFAIL |-> "SERVFAIL", DNS_REFUSED |-> "REFUSED",
   DNS_TIMEOUT |-> "TIMEOUT", DNS_NETWORK_ERROR |-> "NETWORK_ERROR"]
ByGravity == <<"DNS_NXDOMAIN", "DNS_SERVFAIL", "DNS_REFUSED", "DNS_TIMEOUT", "DNS_NETWORK_ERROR">>

ClassifyDNS(local, alternate) ==
  LET latest == LatestByType(local)
      codes == {latest[t].code : t \in DOMAIN latest}
      known == {i \in DOMAIN ByGravity : ByGravity[i] \in codes}
  IN IF Discrepancy(local, alternate) THEN "DISCREPANCY"
     ELSE IF \E t \in AddressTypes \cap DOMAIN latest : latest[t].code = "none" /\ latest[t].rcode = "NOERROR" THEN "OK"
     ELSE IF known # {} THEN DnsErrorNames[ByGravity[CHOOSE i \in known : \A j \in known : i <= j]]
     ELSE "UNKNOWN"

RedirectErrors == {"HTTP_REDIRECT_LOOP", "HTTP_REDIRECT_LIMIT", "HTTP_MALFORMED_LOCATION", "HTTP_HTTPS_DOWNGRADE"}

ClassifyHTTP(a) ==
  IF a.status \in 200 .. 399 THEN IF a.hops # <<>> THEN "REDIRECT" ELSE "OK"
  ELSE IF a.status \in 400 .. 499 THEN "CLIENT_ERROR"
  ELSE IF a.status >= 500 THEN "SERVER_ERROR"
  ELSE IF a.code \in {"HTTP_TIMEOUT", "TCP_TIMEOUT"} THEN "TIMEOUT"
  ELSE IF a.code \in RedirectErrors THEN "REDIRECT"
  ELSE IF a.code \in {"TCP_REFUSED", "TCP_NETWORK_ERROR", "DNS_NETWORK_ERROR", "TLS_EXPIRED", "TLS_UNKNOWN_AUTHORITY"} THEN "CONNECTION_ERROR"
  ELSE "UNKNOWN"

ClassifyRedirect(a) ==
  CASE a.code = "HTTP_REDIRECT_LOOP" -> "LOOP"
    [] a.code \in {"HTTP_REDIRECT_LIMIT", "HTTP_MALFORMED_LOCATION"} -> "INVALID"
    [] a.code = "HTTP_HTTPS_DOWNGRADE" -> "HTTPS_DOWNGRADE"
    [] OTHER -> IF a.hops = <<>> THEN "NONE" ELSE IF \E i \in DOMAIN a.hops : a.hops[i] THEN "PERMANENT" ELSE "TEMPORARY"

ClassifyTLS(a, plain) ==
  CASE a.tls # "none" -> a.tls
    [] a.tls = "none" /\ a.code = "TLS_EXPIRED" -> "EXPIRED"
    [] a.tls = "none" /\ a.code = "TLS_UNKNOWN_AUTHORITY" -> "INVALID"
    [] OTHER -> IF plain THEN "NOT_APPLICABLE" ELSE "UNKNOWN"

ValidContent == {"VALID_HTML", "VALID_NON_HTML"}
AvailabilityByCode(a) == IF a.code = "none" THEN "ACTIVE" ELSE "UNAVAILABLE"

ClassifyAvailability(a) ==
  IF a.status \in 200 .. 299 THEN IF a.content \in ValidContent THEN "ACTIVE" ELSE "DEGRADED"
  ELSE IF a.status \in 400 .. 499 THEN "DEGRADED"
  ELSE IF a.status >= 500 THEN "UNAVAILABLE"
  ELSE IF a.code \in {"RUN_CANCELLED", "none"} THEN "UNKNOWN"
  ELSE IF a.code \in {"CONTENT_EMPTY", "CONTENT_TOO_SMALL", "CONTENT_NOT_MEANINGFUL", "CONTENT_TOO_LARGE", "CONTENT_UNSUPPORTED"}
  THEN "DEGRADED" ELSE "UNAVAILABLE"

HasConclusiveDNS(results) == \E r \in results : r.code = "none" /\ r.rcode = "NOERROR"
RepeatedFailure(results, code) == code # "none" /\ Cardinality({r \in results : r.code = code}) >= 2

BaseScoreGenerous(availability) ==
  CASE availability = "ACTIVE" -> 65 [] availability = "DEGRADED" -> 60 [] availability = "UNAVAILABLE" -> 35 [] OTHER -> 20
BaseScore(availability) ==
  CASE availability = "ACTIVE" -> 65 [] availability = "DEGRADED" -> 50 [] availability = "UNAVAILABLE" -> 35 [] OTHER -> 20

Score(availability, dns, code, local, alternate) ==
  BaseScore(availability) + (IF dns = "OK" THEN 10 ELSE 0) + (IF HasConclusiveDNS(alternate) THEN 10 ELSE 0)
    + (IF RepeatedFailure(local, code) THEN 5 ELSE 0) - (IF dns = "DISCREPANCY" THEN 10 ELSE 0)

ConfidenceLevel(score) == IF score >= 80 THEN "HIGH" ELSE IF score >= 50 THEN "MEDIUM" ELSE "LOW"

Classify(local, alternate, a, plain) ==
  LET dns == ClassifyDNS(local, alternate)
      availability == ClassifyAvailability(a)
      score == Score(availability, dns, a.code, local, alternate)
  IN [availability |-> availability, dns |-> dns, http |-> ClassifyHTTP(a), redirect |-> ClassifyRedirect(a),
      tls |-> ClassifyTLS(a, plain), content |-> a.content, code |-> a.code, score |-> score,
      level |-> ConfidenceLevel(score), local |-> local, alternate |-> alternate]

\* What Engine.Execute can decide when the check of the system's own path is done.
Verdicts ==
  IF fetch.phase = "done" /\ fetch.pinned = {}
  THEN {Classify(local, alternate, tried, fetch.fallback) : local, alternate \in ResolverResults} ELSE {}

-----------------------------------------------------------------------------
(***************************************************************************)
(* The columns agree: an ACTIVE domain answered, with no error, at the end *)
(* of a sound redirect chain; one that is UNAVAILABLE or DEGRADED shows    *)
(* why, by an error code or by its content; and UNKNOWN availability never *)
(* comes with an HTTP error status.                                        *)
(***************************************************************************)
ColumnsAgree ==
  \A verdict \in Verdicts :
    /\ verdict.availability = "ACTIVE" =>
         /\ verdict.code = "none" /\ verdict.http \in {"OK", "REDIRECT"} /\ verdict.content \in ValidContent
         /\ verdict.redirect \in {"NONE", "PERMANENT", "TEMPORARY"} /\ verdict.tls \notin {"INVALID", "UNKNOWN"}
    /\ verdict.availability = "UNAVAILABLE" => verdict.code # "none"
    /\ verdict.availability = "DEGRADED" => verdict.code # "none" \/ verdict.content \notin ValidContent
    /\ verdict.availability = "UNKNOWN" => verdict.http \in {"UNKNOWN", "OK", "REDIRECT"}

(***************************************************************************)
(* HIGH confidence is kept for the case where everything agrees: the       *)
(* domain is ACTIVE, its DNS is fine and the resolver over HTTPS confirms  *)
(* it; the score stays within 0 to 99, so that its clamp never acts.       *)
(***************************************************************************)
HighConfidenceIsEarned ==
  \A verdict \in Verdicts :
    /\ verdict.score \in 0 .. 99
    /\ verdict.level = "HIGH" =>
         /\ verdict.availability = "ACTIVE" /\ verdict.dns = "OK"
         /\ \E t \in AddressTypes, l \in verdict.local, a \in verdict.alternate :
              l.type = t /\ a.type = t /\ l.rcode = "NOERROR" /\ a.rcode = "NOERROR"
                /\ CanonicalValues(l.answers, t) = CanonicalValues(a.answers, t)
=============================================================================
