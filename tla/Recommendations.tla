--------------------------- MODULE Recommendations ---------------------------
(***************************************************************************)
(* Advice on renewing a domain (recommendation.Service): the rules of      *)
(* Evaluate over what is known of the domain, and the recommendations      *)
(* stored, each with the one it supersedes.  The inputs are read before    *)
(* the transaction that stores the result begins.                          *)
(***************************************************************************)
EXTENDS Naturals, FiniteSets

CONSTANTS
  Generators,          \* concurrent calls of Generate, for one domain
  MaxRecommendations   \* bound on recommendations

ASSUME RecommendationsAssumption == MaxRecommendations \in Nat

VARIABLES
  gen,       \* per call: where it is
  advice     \* recommendations, n in the order of commit

recommendationVars == <<gen, advice>>

\* recommendation.Input; of confidences and reasons nothing is kept.
Inputs ==
  [ checked : BOOLEAN,                                    \* LastCheckedAt
    availability : {"UNKNOWN", "ACTIVE", "DEGRADED", "UNAVAILABLE"},
    dns : {"UNKNOWN", "OK", "NXDOMAIN"},
    isp : {"UNKNOWN", "NOT_DETECTED", "SUSPECTED", "HIGH_CONFIDENCE_BLOCK"},
    tls : {"UNKNOWN", "VALID", "EXPIRING", "EXPIRED"},
    incidents : {0, 1},                                   \* OpenIncidents
    cost : BOOLEAN,                                       \* RenewalAmount and RenewalCurrency
    lifecycle : {"active", "inactive"},                   \* archived domains are not read
    priority : {"low", "medium", "high"},                 \* high stands for critical, too
    permanent : BOOLEAN,                                  \* Redirect
    missing : BOOLEAN,                                    \* SourceStatus
    name : {5, 6},                                        \* score of opportunity for the name
    expiringSoon : BOOLEAN ]

Decisions == {"REVIEW", "DROP", "PROFIT_OPPORTUNITY", "RENEW"}
NoAdvice == 0
IdleGen == [phase |-> "idle", action |-> "REVIEW", settled |-> FALSE, unused |-> FALSE, sees |-> NoAdvice]

-----------------------------------------------------------------------------
(* Evaluate                                                                *)

Unknown(i) == ~i.checked \/ "UNKNOWN" \in {i.availability, i.dns, i.isp}
ISPBlock(i) == i.isp \in {"HIGH_CONFIDENCE_BLOCK", "SUSPECTED"}
badDNS(value) == value \notin {"OK", "UNKNOWN"}
badTLS(value) == value \notin {"VALID", "NOT_APPLICABLE", "UNKNOWN", "EXPIRING"}
TechnicalRisk(i) == i.incidents > 0 \/ i.availability = "UNAVAILABLE" \/ badDNS(i.dns) \/ badTLS(i.tls)
Droppable(i) == i.lifecycle = "inactive" /\ i.priority = "low" /\ i.permanent /\ ~i.missing

\* opportunity: a checked domain scores one more than its name does.
HighOpportunity(i) == (IF i.checked /\ i.availability # "UNKNOWN" THEN i.name + 1 ELSE i.name) >= 6
Profitable(i) == HighOpportunity(i) /\ i.priority \in {"low", "medium"}
Renewable(i) ==
  i.priority = "high" \/ (i.lifecycle = "active" /\ i.availability = "ACTIVE" /\ i.expiringSoon)

CostComesLate(i) == i.lifecycle = "inactive" /\ i.priority = "low" /\ i.permanent
EvaluateCostLast(i) ==
  IF Unknown(i) \/ ISPBlock(i) \/ TechnicalRisk(i) THEN "REVIEW"
  ELSE IF CostComesLate(i) THEN "DROP" ELSE IF ~i.cost THEN "REVIEW" ELSE "RENEW"

\* The rules in their order; the first that applies decides.
Evaluate(i) ==
  IF Unknown(i) \/ ISPBlock(i) \/ TechnicalRisk(i) \/ ~i.cost THEN "REVIEW"
  ELSE IF Droppable(i) THEN "DROP"
  ELSE IF Profitable(i) THEN "PROFIT_OPPORTUNITY"
  ELSE IF Renewable(i) THEN "RENEW" ELSE "REVIEW"

-----------------------------------------------------------------------------
(* Generate                                                                *)

\* What the decision must rest on, told by the inputs and not by the rules.
Settled(i) ==
  /\ i.checked /\ i.availability \in {"ACTIVE", "DEGRADED"} /\ i.dns = "OK" /\ i.isp = "NOT_DETECTED"
  /\ i.tls # "EXPIRED" /\ i.incidents = 0 /\ i.cost
Unused(i) == i.lifecycle = "inactive" /\ i.priority = "low" /\ i.permanent /\ ~i.missing

RecommendationsTypeOK ==
  /\ gen \in [Generators -> [phase : {"idle", "loaded", "locked"}, action : Decisions, settled : BOOLEAN,
                             unused : BOOLEAN, sees : 0 .. MaxRecommendations]]
  /\ advice \subseteq [n : 1 .. MaxRecommendations, action : Decisions, settled : BOOLEAN,
                       unused : BOOLEAN, supersedes : 0 .. MaxRecommendations]

RecommendationsInit == gen = [g \in Generators |-> IdleGen] /\ advice = {}

\* What Evaluate makes of all inputs, with what is true of them.
Outcomes == {[action |-> Evaluate(i), settled |-> Settled(i), unused |-> Unused(i)] : i \in Inputs}

\* loadInputs; Evaluate only reads them, so it may as well run now.
LoadInputs(g, o) ==
  /\ gen[g].phase = "idle"
  /\ gen' = [gen EXCEPT ![g] = [phase |-> "loaded", action |-> o.action, settled |-> o.settled,
                                unused |-> o.unused, sees |-> NoAdvice]]
  /\ UNCHANGED advice

\* SELECT ... ORDER BY generated_at DESC LIMIT 1 FOR UPDATE: the row is chosen when the
\* statement begins, and is still the one returned after a wait for its lock.
Newest(g) == Cardinality(advice)
LockLatest(g) ==
  /\ gen[g].phase = "loaded"
  /\ gen' = [gen EXCEPT ![g].phase = "locked", ![g].sees = Newest(g)]
  /\ UNCHANGED advice

StoreAdvice(g) ==
  /\ gen[g].phase = "locked" /\ Cardinality(advice) < MaxRecommendations
  /\ advice' = advice \cup
       {[n |-> Cardinality(advice) + 1, action |-> gen[g].action, settled |-> gen[g].settled,
         unused |-> gen[g].unused, supersedes |-> gen[g].sees]}
  /\ gen' = [gen EXCEPT ![g] = IdleGen]

RecommendationsNext ==
  \E g \in Generators :
    \/ \E o \in Outcomes : LoadInputs(g, o)
    \/ LockLatest(g)
    \/ StoreAdvice(g)

RecommendationsSpec == RecommendationsInit /\ [][RecommendationsNext]_recommendationVars

-----------------------------------------------------------------------------
(***************************************************************************)
(* The engine decides only on evidence: whatever else holds of a domain,   *)
(* an advice other than REVIEW was given for a domain that was reached,    *)
(* resolved and not blocked, with no failed certificate, no open incident  *)
(* and a known cost, and DROP only for one not in use.                     *)
(***************************************************************************)
DecisionsNeedEvidence ==
  \A a \in advice : (a.action # "REVIEW" => a.settled) /\ (a.action = "DROP" => a.unused)
=============================================================================
