--------------------------- MODULE EffectiveState ---------------------------
(***************************************************************************)
(* The effective state of a monitored domain: the hysteresis of            *)
(* classification.Advance, the status history and the incident that        *)
(* monitor.CompleteRun keeps in the same transaction, and the ISP column   *)
(* that probe.SubmitResult writes.  Every action is one transaction, which *)
(* takes SELECT ... FOR UPDATE on the domain row before it reads or writes *)
(* any of this and so runs alone on its domain.                            *)
(*                                                                         *)
(* The dns, http, redirect, tls and content columns obey one rule          *)
(* (observedOrCurrent) and are the members of Signals; confidence scores,  *)
(* reason codes and timestamps are left out.                               *)
(***************************************************************************)
EXTENDS Naturals

CONSTANTS
  Domains,
  Signals,          \* the columns beside availability and isp
  Values,           \* what a signal can be observed to be
  IspStatuses,      \* what ispclass.Classify can return
  Codes,            \* error codes of failing observations
  OpenFailures,     \* INCIDENT_OPEN_FAILURES
  CloseSuccesses,   \* INCIDENT_CLOSE_SUCCESSES
  MaxStreak,        \* bound on both streaks
  Window            \* how many observations the ghost trail remembers

Unknown == "UNKNOWN"
NoCode == "no code"

(***************************************************************************)
(* config.Load rejects thresholds outside 1..100.                          *)
(***************************************************************************)
ASSUME ThresholdAssumption ==
  /\ OpenFailures \in 1 .. 100
  /\ CloseSuccesses \in 1 .. 100

ASSUME BoundAssumption ==
  /\ MaxStreak \in Nat
  /\ Window \in Nat
  /\ Window >= OpenFailures
  /\ Window >= CloseSuccesses

ASSUME NamesAssumption ==
  /\ NoCode \notin Codes
  /\ {"availability", "isp"} \cap Signals = {}

VARIABLES
  domain,    \* the current_* and consecutive_* columns of a domain
  incident,  \* its latest incident
  history,   \* its latest domain_status_history row, per dimension
  trail      \* ghost: the latest conclusive scheduled observations, newest first

vars == <<domain, incident, history, trail>>

Failing == {"DEGRADED", "UNAVAILABLE"}
Availabilities == {Unknown, "ACTIVE"} \cup Failing
Dimensions == {"availability", "isp"} \cup Signals
Triggers == {"scheduled", "manual"}
Statuses == Availabilities \cup IspStatuses \cup Values

(***************************************************************************)
(* A classification.Decision.  Classify leaves ISP "UNKNOWN", so that a    *)
(* local run never moves the isp dimension.  An empty page is DEGRADED     *)
(* without an error code when only its status is checked.                  *)
(***************************************************************************)
Decisions ==
  { o \in [ availability : Availabilities,
            errorCode    : Codes \cup {NoCode},
            signal       : [Signals -> Values \cup {Unknown}] ] :
      /\ o.availability = "ACTIVE" => o.errorCode = NoCode
      /\ o.availability = "UNAVAILABLE" => o.errorCode # NoCode }

DomainRows ==
  [ availability : Availabilities,
    isp          : IspStatuses \cup {Unknown},
    signal       : [Signals -> Values \cup {Unknown}],
    failures     : 0 .. MaxStreak,
    successes    : 0 .. MaxStreak,
    errorCode    : Codes \cup {NoCode} ]

Events == {"none", "opened", "failure_observed", "success_observed", "closed"}

Incidents ==
  [ open : BOOLEAN, failures : 0 .. MaxStreak, successes : 0 .. MaxStreak,
    errorCode : Codes \cup {NoCode}, event : Events ]

TypeOK ==
  /\ domain \in [Domains -> DomainRows]
  /\ incident \in [Domains -> Incidents]
  /\ history \in [Domains -> [Dimensions -> [previous : Statuses, current : Statuses]]]
  /\ trail \in [Domains -> [1 .. Window -> {"none", "failure", "success"}]]

Init ==
  /\ domain = [d \in Domains |->
       [availability |-> Unknown, isp |-> Unknown,
        signal |-> [s \in Signals |-> Unknown],
        failures |-> 0, successes |-> 0, errorCode |-> NoCode]]
  /\ incident = [d \in Domains |->
       [open |-> FALSE, failures |-> 0, successes |-> 0,
        errorCode |-> NoCode, event |-> "none"]]
  /\ history = [d \in Domains |->
       [k \in Dimensions |-> [previous |-> Unknown, current |-> Unknown]]]
  /\ trail = [d \in Domains |-> [i \in 1 .. Window |-> "none"]]

-----------------------------------------------------------------------------
ObservedOrCurrent(observed, current) ==
  IF observed = Unknown THEN current ELSE observed

\* A trigger other than a manual request qualifies for state and incidents.
Qualifying(trigger) == trigger # "manual"

RecoveringFromOutage(row, successes) ==
  row.availability = "UNAVAILABLE" /\ successes < CloseSuccesses
\* A domain that failed last stays DEGRADED until CloseSuccesses successes.
Recovering(row, successes) ==
  row.availability \in Failing /\ successes < CloseSuccesses

(***************************************************************************)
(* classification.Advance.  An early return leaves FailureStage and        *)
(* ErrorCode at their zero value, which CompleteRun then stores.           *)
(***************************************************************************)
Advance(row, observed, qualifying) ==
  IF ~qualifying \/ observed.availability = Unknown
  THEN [row EXCEPT !.errorCode = NoCode]
  ELSE LET success == observed.availability = "ACTIVE"
           successes == IF success THEN row.successes + 1 ELSE 0
           failures == IF success THEN 0 ELSE row.failures + 1
       IN  [ row EXCEPT
               !.successes = successes,
               !.failures = failures,
               !.errorCode = IF success THEN NoCode ELSE observed.errorCode,
               !.availability =
                 IF success
                 THEN IF Recovering(row, successes) THEN "DEGRADED" ELSE "ACTIVE"
                 ELSE IF failures >= OpenFailures THEN "UNAVAILABLE" ELSE "DEGRADED",
               !.signal = [s \in Signals |->
                 ObservedOrCurrent(observed.signal[s], row.signal[s])] ]

DimensionValue(row, k) ==
  CASE k = "availability" -> row.availability
    [] k = "isp" -> row.isp
    [] OTHER -> row.signal[k]

\* changedDimensions and persistHistory: one row for each dimension that moved.
PersistHistory(rows, before, after) ==
  [k \in Dimensions |->
     IF DimensionValue(before, k) = DimensionValue(after, k)
     THEN rows[k]
     ELSE [previous |-> DimensionValue(before, k),
           current |-> DimensionValue(after, k)]]

SumFailures(stored, streak) == stored + streak
\* SQL GREATEST(open_failure_count, streak).
GreatestFailures(stored, streak) == IF streak > stored THEN streak ELSE stored

Closes(state) == state.availability = "ACTIVE" /\ state.successes >= CloseSuccesses

(***************************************************************************)
(* applyIncident, on the domain's open (or acknowledged) incident if it    *)
(* has one.  "event" is the last incident_events row it writes.            *)
(***************************************************************************)
ApplyIncident(inc, observed, state) ==
  CASE observed.availability = "ACTIVE" /\ inc.open ->
         [inc EXCEPT !.successes = state.successes,
                     !.open = ~Closes(state),
                     !.event = IF Closes(state) THEN "closed" ELSE "success_observed"]
    [] observed.availability \in Failing /\ inc.open ->
         [inc EXCEPT !.failures = GreatestFailures(@, state.failures),
                     !.errorCode = observed.errorCode,
                     !.successes = 0,
                     !.event = "failure_observed"]
    [] /\ observed.availability \in Failing /\ ~inc.open
       /\ state.availability = "UNAVAILABLE" /\ state.failures >= OpenFailures ->
         [open |-> TRUE, failures |-> state.failures, successes |-> 0,
          errorCode |-> observed.errorCode, event |-> "opened"]
    [] OTHER -> inc

\* The ghost trail shifts by one for each observation of a scheduled run that is conclusive.
Remember(seen, trigger, observed) ==
  IF trigger = "manual" \/ observed.availability = Unknown
  THEN seen
  ELSE [i \in 1 .. Window |->
          IF i # 1 THEN seen[i - 1]
          ELSE IF observed.availability = "ACTIVE" THEN "success" ELSE "failure"]

-----------------------------------------------------------------------------
(***************************************************************************)
(* The part of CompleteRun that is about the domain: the decision of a run *)
(* with the given trigger is applied to the row, the history and the       *)
(* incident.  The guard is the bound on the streaks.                       *)
(***************************************************************************)
CompleteRun(d, trigger, observed) ==
  LET before == domain[d]
      after == Advance(before, observed, Qualifying(trigger))
  IN  /\ after.failures <= MaxStreak
      /\ after.successes <= MaxStreak
      /\ domain' = [domain EXCEPT ![d] = after]
      /\ history' = [history EXCEPT ![d] = PersistHistory(@, before, after)]
      /\ incident' = [incident EXCEPT ![d] =
                        IF Qualifying(trigger) THEN ApplyIncident(@, observed, after) ELSE @]
      /\ trail' = [trail EXCEPT ![d] = Remember(@, trigger, observed)]

\* The part of probe.SubmitResult that is about the domain.
SubmitResult(d, status) ==
  LET before == domain[d]
      after == [before EXCEPT !.isp = status]
  IN  /\ domain' = [domain EXCEPT ![d] = after]
      /\ history' = [history EXCEPT ![d] = PersistHistory(@, before, after)]
      /\ UNCHANGED <<incident, trail>>

Next ==
  \E d \in Domains :
    \/ \E trigger \in Triggers, observed \in Decisions : CompleteRun(d, trigger, observed)
    \/ \E status \in IspStatuses : SubmitResult(d, status)

Spec == Init /\ [][Next]_vars

-----------------------------------------------------------------------------
Last(d, n, outcome) == \A i \in 1 .. n : trail[d][i] = outcome

(***************************************************************************)
(* A domain is UNAVAILABLE exactly when the last OpenFailures conclusive   *)
(* scheduled observations all failed: neither a manual run, an UNKNOWN     *)
(* result nor an ISP result in between breaks or fakes a streak.           *)
(***************************************************************************)
UnavailableIffFailuresInARow ==
  \A d \in Domains :
    domain[d].availability = "UNAVAILABLE" <=> Last(d, OpenFailures, "failure")

(***************************************************************************)
(* The incident agrees with the state a user sees, although Advance and    *)
(* applyIncident decide separately: an UNAVAILABLE domain has an open      *)
(* incident and a domain with an open incident is never shown ACTIVE (or   *)
(* UNKNOWN).                                                               *)
(***************************************************************************)
IncidentMatchesState ==
  \A d \in Domains :
    /\ domain[d].availability = "UNAVAILABLE" => incident[d].open
    /\ incident[d].open => domain[d].availability \in Failing

(***************************************************************************)
(* The counters stored on an open incident are those of the domain row     *)
(* they were copied from: close_success_count is the current success       *)
(* streak and open_failure_count is at least the threshold and the streak. *)
(***************************************************************************)
IncidentCountsEvidence ==
  \A d \in Domains : incident[d].open =>
    /\ incident[d].successes = domain[d].successes
    /\ incident[d].successes < CloseSuccesses
    /\ incident[d].failures >= OpenFailures
    /\ incident[d].failures >= domain[d].failures

(***************************************************************************)
(* The status history is a faithful journal: the newest row of a dimension *)
(* ends in the value the domain row shows, whichever of CompleteRun and    *)
(* SubmitResult wrote last.                                                *)
(***************************************************************************)
HistoryEndsInState ==
  \A d \in Domains, k \in Dimensions :
    history[d][k].current = DimensionValue(domain[d], k)

(***************************************************************************)
(* ... and each new row starts where the row before it ended and records a *)
(* real change.                                                            *)
(***************************************************************************)
HistoryIsAChain ==
  [][ \A d \in Domains, k \in Dimensions :
        history'[d][k] # history[d][k] =>
          /\ history'[d][k].previous = history[d][k].current
          /\ history'[d][k].previous # history'[d][k].current ]_vars

(***************************************************************************)
(* An incident opens only on the observation that completes OpenFailures   *)
(* failures in a row and closes only on the one that completes             *)
(* CloseSuccesses successes in a row.                                      *)
(***************************************************************************)
IncidentMovesOnThresholds ==
  [][ \A d \in Domains :
        /\ ~incident[d].open /\ incident'[d].open
             => Last(d, OpenFailures, "failure")' /\ domain'[d].failures = OpenFailures
        /\ incident[d].open /\ ~incident'[d].open
             => Last(d, CloseSuccesses, "success")' /\ domain'[d].successes = CloseSuccesses ]_vars

(***************************************************************************)
(* docs/phase3-monitoring-engine.md:29, "Manual checks persist full        *)
(* evidence but do not mutate effective state or incident streaks": a      *)
(* manual run changes nothing of the domain row.  Advance's early return   *)
(* clears the failure stage and the error code, so this does not hold.     *)
(***************************************************************************)
ManualRunIsInert ==
  [][ \A d \in Domains, observed \in Decisions :
        CompleteRun(d, "manual", observed) => UNCHANGED <<domain, incident, history>> ]_vars
=============================================================================
