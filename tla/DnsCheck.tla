------------------------------ MODULE DnsCheck -------------------------------
(***************************************************************************)
(* The DNS check of one domain against one resolver                        *)
(* (dnscheck.Checker.QueryAll): a goroutine per record type, at most       *)
(* MaxConcurrency at work, each retrying its query; the local resolver     *)
(* asks again over TCP when UDP truncates the answer, the one over HTTPS   *)
(* does not.  Compare is the comparison of two such checks.                *)
(***************************************************************************)
EXTENDS Naturals, FiniteSets

CONSTANTS
  AddressTypes,     \* A, AAAA and CNAME, or some of them
  Records,          \* what an answer holds: a type, a value and its spelling
  DnsAttempts,
  MaxConcurrency

QueryTypes == AddressTypes \cup {"NS"}

ASSUME DnsCheckAssumption ==
  DnsAttempts \in Nat \ {0} /\ MaxConcurrency \in Nat \ {0} /\ "NS" \notin AddressTypes

VARIABLES
  lookup,     \* a goroutine per record type
  resolver,   \* LOCAL_SYSTEM or CLOUDFLARE_DOH
  ended,      \* "no", or how the run's context ended
  groups,     \* per type: the results so far, told apart by their attempt
  lastWord    \* ghost: per type, what the resolver's latest exchange came to

dnsVars == <<lookup, resolver, ended, groups, lastWord>>

LookupPhases == {"queued", "udp", "tcp", "pause", "done"}
Outcome(rcode, code, answers) == [rcode |-> rcode, code |-> code, answers |-> answers]
ResultOf(t, n, o) == [type |-> t, attempt |-> n, rcode |-> o.rcode, code |-> o.code, answers |-> o.answers]
NoWord == Outcome("none", "none", {})

\* classifyRCode: a response of the resolver.
Responses ==
  {Outcome("NOERROR", "none", answers) : answers \in SUBSET Records}
    \cup {Outcome("NXDOMAIN", "DNS_NXDOMAIN", {}), Outcome("SERVFAIL", "DNS_SERVFAIL", {}), Outcome("REFUSED", "DNS_REFUSED", {})}
\* classifyExchangeError and the errors of Exchange: no usable response.
Errors == {Outcome("none", c, {}) : c \in {"DNS_TIMEOUT", "DNS_NETWORK_ERROR", "DNS_MALFORMED_RESPONSE"}}
Retryable(o) == o.code \in {"DNS_SERVFAIL", "DNS_TIMEOUT", "DNS_NETWORK_ERROR"}

DnsTypeOK ==
  /\ lookup \in [QueryTypes -> [phase : LookupPhases, slot : BOOLEAN]]
  /\ resolver \in {"LOCAL_SYSTEM", "CLOUDFLARE_DOH"}
  /\ ended \in {"no", "RUN_CANCELLED", "RUN_DEADLINE_EXCEEDED"}
  /\ \A t \in QueryTypes : \A r \in groups[t] : r.type = t /\ r.attempt \in 1 .. DnsAttempts

DnsInit ==
  /\ lookup = [t \in QueryTypes |-> [phase |-> "queued", slot |-> FALSE]]
  /\ resolver \in {"LOCAL_SYSTEM", "CLOUDFLARE_DOH"}
  /\ ended = "no"
  /\ groups = [t \in QueryTypes |-> {}]
  /\ lastWord = [t \in QueryTypes |-> NoWord]

Working == {t \in QueryTypes : lookup[t].slot}

\* The goroutine takes a slot.
BeginQuery(t) ==
  /\ lookup[t].phase = "queued" /\ Cardinality(Working) < MaxConcurrency
  /\ lookup' = [lookup EXCEPT ![t] = [phase |-> "udp", slot |-> TRUE]]
  /\ UNCHANGED <<resolver, ended, groups, lastWord>>

GivenUp(t) ==
  /\ lookup[t].phase = "queued" /\ ended # "no"
  /\ lookup' = [lookup EXCEPT ![t].phase = "done"]
  /\ UNCHANGED <<resolver, ended, groups, lastWord>>
\* Or finds that the run is over while it waits for one, and queries without it.
QueryUnslotted(t) ==
  /\ lookup[t].phase = "queued" /\ ended # "no"
  /\ lookup' = [lookup EXCEPT ![t].phase = "udp"]
  /\ UNCHANGED <<resolver, ended, groups, lastWord>>

\* UDP truncated the answer: the same question over TCP.
Truncated(t) ==
  /\ lookup[t].phase = "udp" /\ resolver = "LOCAL_SYSTEM" /\ ended = "no"
  /\ lookup' = [lookup EXCEPT ![t].phase = "tcp"]
  /\ UNCHANGED <<resolver, ended, groups, lastWord>>

\* Query after an exchange: record what came of it; stop, or pause and try again.
EndExchange(t, o) ==
  LET n == Cardinality(groups[t]) + 1 IN
  /\ lookup[t].phase \in {"udp", "tcp"}
  /\ groups' = [groups EXCEPT ![t] = @ \cup {ResultOf(t, n, o)}]
  /\ lastWord' = [lastWord EXCEPT ![t] = o]
  /\ lookup' = [lookup EXCEPT ![t] = IF n < DnsAttempts /\ Retryable(o) THEN [@ EXCEPT !.phase = "pause"]
                                     ELSE [phase |-> "done", slot |-> FALSE]]
  /\ UNCHANGED <<resolver, ended>>

Exchanged(t) == ended = "no" /\ \E o \in Responses \cup Errors : EndExchange(t, o)
\* The resolver over HTTPS takes the deadline of the run for its own timeout.
Interrupted(t) ==
  /\ ended # "no"
  /\ EndExchange(t, Outcome("none", IF resolver = "CLOUDFLARE_DOH" /\ ended = "RUN_DEADLINE_EXCEEDED"
                                     THEN "DNS_TIMEOUT" ELSE ended, {}))

\* policy.Wait: the pause is over, or the run is.
EndOfPause(t) ==
  /\ lookup[t].phase = "pause"
  /\ \/ ended = "no" /\ lookup' = [lookup EXCEPT ![t].phase = "udp"]
     \/ ended # "no" /\ lookup' = [lookup EXCEPT ![t] = [phase |-> "done", slot |-> FALSE]]
  /\ UNCHANGED <<resolver, ended, groups, lastWord>>

RunEnds ==
  /\ ended = "no"
  /\ ended' \in {"RUN_CANCELLED", "RUN_DEADLINE_EXCEEDED"}
  /\ UNCHANGED <<lookup, resolver, groups, lastWord>>

DnsNext ==
  \/ \E t \in QueryTypes :
       \/ BeginQuery(t) \/ QueryUnslotted(t) \/ Truncated(t)
       \/ Exchanged(t) \/ Interrupted(t) \/ EndOfPause(t)
  \/ RunEnds

DnsSpec == DnsInit /\ [][DnsNext]_dnsVars

-----------------------------------------------------------------------------
TypesOf(results) == {r.type : r \in results}

LatestByType(results) ==
  [t \in TypesOf(results) |->
     CHOOSE r \in results : r.type = t /\ \A s \in results : s.type = t => s.attempt <= r.attempt]

\* An answer counts for its own type, a CNAME also for an address; spelling and repetition do not.
CanonicalValues(answers, t) ==
  {<<a.type, a.value>> : a \in {b \in answers : b.type = t \/ (t \in {"A", "AAAA"} /\ b.type = "CNAME")}}

Differ(left, right, t) ==
  \/ left.rcode # right.rcode \/ left.code # right.code
  \/ CanonicalValues(left.answers, t) # CanonicalValues(right.answers, t)

\* Compare: a difference in NS records is noted, and is not a discrepancy.
Discrepancy(local, alternate) ==
  LET l == LatestByType(local)
      a == LatestByType(alternate)
  IN \E t \in AddressTypes \cap DOMAIN l \cap DOMAIN a : Differ(l[t], a[t], t)

AllResults == UNION {groups[t] : t \in QueryTypes}

\* What QueryAll returns: results of numbered attempts, and at least one for every type.
Complete(results) ==
  /\ \A r \in results : r.type \in QueryTypes /\ r.attempt \in 1 .. DnsAttempts
  /\ TypesOf(results) = QueryTypes

-----------------------------------------------------------------------------
(***************************************************************************)
(* When all goroutines are done, every record type has a result, also when *)
(* the run ended first, and the result that counts is what the resolver    *)
(* said last: a failure that a retry repaired is forgotten, and no type is *)
(* silently left out of the comparison of the resolvers.                   *)
(***************************************************************************)
LastWordCounts ==
  (\A t \in QueryTypes : lookup[t].phase = "done") =>
    /\ Complete(AllResults)
    /\ \A t \in QueryTypes :
         LET r == LatestByType(AllResults)[t] IN Outcome(r.rcode, r.code, r.answers) = lastWord[t]
=============================================================================
