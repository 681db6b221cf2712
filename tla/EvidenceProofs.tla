--------------------------- MODULE EvidenceProofs ---------------------------
(***************************************************************************)
(* Proofs about evidence and the state it moves, for any sets of domains,  *)
(* signals, codes, record types and results and any thresholds: DnsCheck,  *)
(* IspEvidence, UptimeHistory and EffectiveState.                          *)
(***************************************************************************)
EXTENDS EffectiveState, DnsCheck, IspEvidence, UptimeHistory, FiniteSetTheorems, WellFoundedInduction, TLAPS

\* The module is large: every leaf may take longer than the default of the provers.
USE SMTT(15), ZenonT(15)

-----------------------------------------------------------------------------
(* The inductive invariant, stated on the values of one domain.            *)

\* The failure streak counts the failures at the head of the trail.
StreaksCountTrail(row, seen) ==
  /\ row.failures = 0 \/ row.successes = 0
  /\ \A i \in 1 .. Window : i <= row.failures => seen[i] = "failure"
  /\ \A i \in 1 .. Window : i <= row.successes => seen[i] = "success"
  /\ \A i \in 1 .. Window : i = row.failures + 1 => seen[i] # "failure"

\* What the hysteresis of Advance makes of the streaks.
AvailabilityFollowsStreaks(row) ==
  /\ row.availability = "UNAVAILABLE" <=> row.failures >= OpenFailures
  /\ row.failures > 0 => row.availability \in Failing
  /\ row.availability \in Failing => row.successes < CloseSuccesses

\* What applyIncident, which sees only the new row, keeps in step with it.
IncidentFollowsRow(row, inc) ==
  /\ row.availability = "UNAVAILABLE" => inc.open
  /\ inc.open => /\ row.availability \in Failing
                 /\ inc.successes = row.successes
                 /\ inc.failures >= OpenFailures
                 /\ inc.failures >= row.failures

HistoryFollowsRow(row, rows) ==
  \A k \in Dimensions : rows[k].current = DimensionValue(row, k)

IInv ==
  /\ TypeOK
  /\ \A d \in Domains :
       /\ StreaksCountTrail(domain[d], trail[d])
       /\ AvailabilityFollowsStreaks(domain[d])
       /\ IncidentFollowsRow(domain[d], incident[d])
       /\ HistoryFollowsRow(domain[d], history[d])

-----------------------------------------------------------------------------
(* Lemmas about the operators.                                             *)

(***************************************************************************)
(* Advance returns a domain row, as long as the streaks stay in bounds.    *)
(***************************************************************************)
LEMMA AdvanceType ==
  ASSUME NEW row \in DomainRows, NEW observed \in Decisions, NEW q \in BOOLEAN,
         Advance(row, observed, q).failures <= MaxStreak,
         Advance(row, observed, q).successes <= MaxStreak
  PROVE  Advance(row, observed, q) \in DomainRows
<1> DEFINE new == Advance(row, observed, q)
<1>1. CASE ~q \/ observed.availability = Unknown
  BY <1>1, Zenon DEF Advance, DomainRows
<1>2. CASE ~(~q \/ observed.availability = Unknown)
  <2>1. new.failures \in 0 .. MaxStreak /\ new.successes \in 0 .. MaxStreak
    BY <1>2, BoundAssumption DEF Advance, DomainRows
  <2>2. new.availability \in Availabilities
    BY <1>2, Zenon DEF Advance, DomainRows, Availabilities, Failing
  <2>3. new.errorCode \in Codes \cup {NoCode}
    BY <1>2, Zenon DEF Advance, DomainRows, Decisions
  <2>4. new.signal \in [Signals -> Values \cup {Unknown}]
    BY <1>2, Zenon DEF Advance, DomainRows, Decisions, ObservedOrCurrent
  <2>5. new.isp \in IspStatuses \cup {Unknown}
    BY <1>2, Zenon DEF Advance, DomainRows
  <2>6. new = [availability |-> new.availability, isp |-> new.isp, signal |-> new.signal,
               failures |-> new.failures, successes |-> new.successes,
               errorCode |-> new.errorCode]
    BY <1>2, Zenon DEF Advance, DomainRows
  <2> HIDE DEF new
  <2>7. new \in DomainRows
    BY <2>1, <2>2, <2>3, <2>4, <2>5, <2>6, Zenon DEF DomainRows
  <2> QED BY <2>7, Zenon DEF new
<1> QED BY <1>1, <1>2, Zenon

(***************************************************************************)
(* Advance keeps the streaks equal to the runs at the head of the trail,   *)
(* provided that a manual trigger is the one that does not qualify.        *)
(***************************************************************************)
LEMMA AdvanceStreaks ==
  ASSUME NEW row \in DomainRows, NEW observed \in Decisions, NEW trigger \in Triggers,
         NEW seen \in [1 .. Window -> {"none", "failure", "success"}],
         StreaksCountTrail(row, seen)
  PROVE  StreaksCountTrail(Advance(row, observed, Qualifying(trigger)),
                           Remember(seen, trigger, observed))
<1> DEFINE q == Qualifying(trigger)
           new == Advance(row, observed, q)
           now == Remember(seen, trigger, observed)
<1>0. row.failures \in Nat /\ row.successes \in Nat /\ Window \in Nat
  BY BoundAssumption DEF DomainRows
<1>1. CASE ~q \/ observed.availability = Unknown
  <2>1. new.failures = row.failures /\ new.successes = row.successes
    BY <1>1, Zenon DEF Advance, DomainRows
  <2>2. now = seen
    BY <1>1, Zenon DEF Remember, Qualifying
  <2> QED BY <2>1, <2>2, Zenon DEF StreaksCountTrail
<1>2. CASE q /\ observed.availability = "ACTIVE"
  <2>1. new.failures = 0 /\ new.successes = row.successes + 1
    BY <1>2, Zenon DEF Advance, DomainRows, Unknown
  <2>2. now = [i \in 1 .. Window |-> IF i # 1 THEN seen[i - 1] ELSE "success"]
    BY <1>2, Zenon DEF Remember, Qualifying, Unknown
  <2> HIDE DEF new, now, q
  <2>3. StreaksCountTrail(new, now)
    BY <1>0, <2>1, <2>2 DEF StreaksCountTrail
  <2> QED BY <2>3, Zenon DEF new, now, q
<1>3. CASE q /\ observed.availability \in Failing
  <2>1. new.failures = row.failures + 1 /\ new.successes = 0
    BY <1>3, Zenon DEF Advance, DomainRows, Unknown, Failing
  <2>2. now = [i \in 1 .. Window |-> IF i # 1 THEN seen[i - 1] ELSE "failure"]
    BY <1>3, Zenon DEF Remember, Qualifying, Unknown, Failing
  <2> HIDE DEF new, now, q
  <2>3. StreaksCountTrail(new, now)
    BY <1>0, <2>1, <2>2 DEF StreaksCountTrail
  <2> QED BY <2>3, Zenon DEF new, now, q
<1> QED BY <1>1, <1>2, <1>3, Zenon DEF Decisions, Availabilities

(***************************************************************************)
(* The hysteresis of Advance: availability stays a function of streaks.    *)
(***************************************************************************)
LEMMA AdvanceAvailability ==
  ASSUME NEW row \in DomainRows, NEW observed \in Decisions, NEW q \in BOOLEAN,
         AvailabilityFollowsStreaks(row)
  PROVE  AvailabilityFollowsStreaks(Advance(row, observed, q))
<1>0. row.failures \in Nat /\ row.successes \in Nat
  BY BoundAssumption DEF DomainRows
<1>1. CASE ~q \/ observed.availability = Unknown
  BY <1>1, Zenon DEF Advance, AvailabilityFollowsStreaks, DomainRows
<1>2. CASE ~(~q \/ observed.availability = Unknown)
  BY <1>0, <1>2, ThresholdAssumption
     DEF Advance, Recovering, AvailabilityFollowsStreaks, DomainRows, Failing
<1> QED BY <1>1, <1>2, Zenon

(***************************************************************************)
(* applyIncident, given the row Advance returned, keeps the incident in    *)
(* step with that row.                                                     *)
(***************************************************************************)
LEMMA ApplyIncidentFollows ==
  ASSUME NEW row \in DomainRows, NEW inc \in Incidents, NEW observed \in Decisions,
         AvailabilityFollowsStreaks(row), IncidentFollowsRow(row, inc)
  PROVE  IncidentFollowsRow(Advance(row, observed, TRUE),
                            ApplyIncident(inc, observed, Advance(row, observed, TRUE)))
<1> DEFINE new == Advance(row, observed, TRUE)
           now == ApplyIncident(inc, observed, new)
<1>0. /\ row.failures \in Nat /\ row.successes \in Nat
      /\ inc.failures \in Nat /\ inc.successes \in Nat
      /\ inc.open \in BOOLEAN
      /\ row.availability \in {"UNKNOWN", "ACTIVE", "DEGRADED", "UNAVAILABLE"}
  BY BoundAssumption DEF DomainRows, Incidents, Availabilities, Failing, Unknown
<1>1. CASE observed.availability = Unknown
  <2>1. new.availability = row.availability /\ new.failures = row.failures
        /\ new.successes = row.successes
    BY <1>1, Zenon DEF Advance, DomainRows
  <2>2. now = inc
    BY <1>1, Zenon DEF ApplyIncident, Unknown, Failing
  <2> QED BY <2>1, <2>2, Zenon DEF IncidentFollowsRow
<1>2. CASE observed.availability = "ACTIVE"
  <2>1. /\ new.failures = 0
        /\ new.successes = row.successes + 1
        /\ new.availability = IF Recovering(row, row.successes + 1) THEN "DEGRADED" ELSE "ACTIVE"
    BY <1>2, Zenon DEF Advance, DomainRows, Unknown
  <2>2. CASE inc.open
    <3> DEFINE closes == Closes(new)
    <3>1. now = [inc EXCEPT !.successes = new.successes, !.open = ~closes,
                   !.event = IF closes THEN "closed" ELSE "success_observed"]
      BY <1>2, <2>2, Zenon DEF ApplyIncident, Failing
    <3>2. closes <=> new.availability = "ACTIVE" /\ new.successes >= CloseSuccesses
      BY Zenon DEF Closes
    <3> HIDE DEF new, now, closes
    <3>3. now.successes = new.successes /\ now.failures = inc.failures
      BY <3>1, Zenon DEF Incidents
    <3>4. now.open <=> ~closes
      BY <3>1, Zenon DEF Incidents
    <3>5. IncidentFollowsRow(new, now)
      BY <1>0, <2>1, <2>2, <3>2, <3>3, <3>4, ThresholdAssumption
         DEF IncidentFollowsRow, Recovering, Failing
    <3> QED BY <3>5, Zenon DEF new, now
  <2>3. CASE ~inc.open
    <3>1. now = inc
      BY <1>2, <2>3, Zenon DEF ApplyIncident, Failing
    <3> QED BY <2>1, <2>3, <3>1, Zenon DEF IncidentFollowsRow
  <2> QED BY <2>2, <2>3, Zenon
<1>3. CASE observed.availability \in Failing
  <2>1. /\ new.failures = row.failures + 1
        /\ new.successes = 0
        /\ new.availability = IF row.failures + 1 >= OpenFailures THEN "UNAVAILABLE" ELSE "DEGRADED"
    BY <1>3, Zenon DEF Advance, DomainRows, Unknown, Failing
  <2>2. CASE inc.open
    <3>1. now = [inc EXCEPT !.failures = GreatestFailures(@, new.failures),
                   !.errorCode = observed.errorCode, !.successes = 0,
                   !.event = "failure_observed"]
      BY <1>3, <2>2, Zenon DEF ApplyIncident, Failing
    <3>2. /\ now.open
          /\ now.successes = 0
          /\ now.failures = GreatestFailures(inc.failures, new.failures)
      BY <2>2, <3>1, Zenon DEF Incidents
    <3> HIDE DEF new, now
    <3>3. IncidentFollowsRow(new, now)
      BY <1>0, <2>1, <2>2, <3>2, ThresholdAssumption
         DEF IncidentFollowsRow, GreatestFailures, Failing
    <3> QED BY <3>3, Zenon DEF new, now
  <2>3. CASE ~inc.open /\ row.failures + 1 >= OpenFailures
    <3>1. now = [open |-> TRUE, failures |-> new.failures, successes |-> 0,
                 errorCode |-> observed.errorCode, event |-> "opened"]
      BY <1>3, <2>1, <2>3, Zenon DEF ApplyIncident, Failing
    <3> HIDE DEF new, now
    <3>2. now.open /\ now.failures = new.failures /\ now.successes = 0
      BY <3>1, Zenon
    <3>3. IncidentFollowsRow(new, now)
      BY <1>0, <2>1, <2>3, <3>2, ThresholdAssumption DEF IncidentFollowsRow, Failing
    <3> QED BY <3>3, Zenon DEF new, now
  <2>4. CASE ~inc.open /\ ~(row.failures + 1 >= OpenFailures)
    <3>1. now = inc
      BY <1>3, <2>1, <2>4, Zenon DEF ApplyIncident, Failing
    <3> QED BY <2>1, <2>4, <3>1, Zenon DEF IncidentFollowsRow
  <2> QED BY <2>2, <2>3, <2>4, Zenon
<1> QED BY <1>1, <1>2, <1>3, Zenon DEF Decisions, Availabilities

(***************************************************************************)
(* applyIncident returns an incident record.                               *)
(***************************************************************************)
LEMMA ApplyIncidentType ==
  ASSUME NEW inc \in Incidents, NEW observed \in Decisions, NEW state \in DomainRows
  PROVE  ApplyIncident(inc, observed, state) \in Incidents
<1> DEFINE now == ApplyIncident(inc, observed, state)
<1>0. /\ state.failures \in 0 .. MaxStreak /\ state.successes \in 0 .. MaxStreak
      /\ inc.failures \in 0 .. MaxStreak /\ 0 \in 0 .. MaxStreak
      /\ observed.errorCode \in Codes \cup {NoCode}
  BY BoundAssumption DEF DomainRows, Incidents, Decisions
<1>1. CASE observed.availability = "ACTIVE" /\ inc.open
  <2> DEFINE closes == Closes(state)
             event == IF closes THEN "closed" ELSE "success_observed"
  <2>1. now = [inc EXCEPT !.successes = state.successes, !.open = ~closes, !.event = event]
    BY <1>1, Zenon DEF ApplyIncident, Failing
  <2>2. event \in Events
    BY Zenon DEF Events
  <2>3. (~closes) \in BOOLEAN
    BY Zenon
  <2> HIDE DEF now, closes, event
  <2>4. now \in Incidents
    BY <1>0, <2>1, <2>2, <2>3, Zenon DEF Incidents
  <2> QED BY <2>4, Zenon DEF now
<1>2. CASE observed.availability \in Failing /\ inc.open
  <2>1. now = [inc EXCEPT !.failures = GreatestFailures(@, state.failures),
                 !.errorCode = observed.errorCode, !.successes = 0,
                 !.event = "failure_observed"]
    BY <1>2, Zenon DEF ApplyIncident, Failing
  <2> HIDE DEF now
  <2>2. GreatestFailures(inc.failures, state.failures) \in 0 .. MaxStreak
    BY <1>0, Zenon DEF GreatestFailures
  <2>3. now \in Incidents
    BY <1>0, <2>1, <2>2, Zenon DEF Incidents, Events
  <2> QED BY <2>3, Zenon DEF now
<1>3. CASE /\ observed.availability \in Failing /\ ~inc.open
           /\ state.availability = "UNAVAILABLE" /\ state.failures >= OpenFailures
  <2>1. now = [open |-> TRUE, failures |-> state.failures, successes |-> 0,
               errorCode |-> observed.errorCode, event |-> "opened"]
    BY <1>3, Zenon DEF ApplyIncident, Failing
  <2> HIDE DEF now
  <2>2. now \in Incidents
    BY <1>0, <2>1, Zenon DEF Incidents, Events
  <2> QED BY <2>2, Zenon DEF now
<1>4. CASE /\ ~(observed.availability = "ACTIVE" /\ inc.open)
           /\ ~(observed.availability \in Failing /\ inc.open)
           /\ ~(/\ observed.availability \in Failing /\ ~inc.open
                /\ state.availability = "UNAVAILABLE" /\ state.failures >= OpenFailures)
  <2>1. now = inc
    BY <1>4, Zenon DEF ApplyIncident
  <2> QED BY <2>1, Zenon
<1> QED BY <1>1, <1>2, <1>3, <1>4, Zenon

(***************************************************************************)
(* Every dimension of a domain row is one of the statuses.                 *)
(***************************************************************************)
LEMMA DimensionValueType ==
  ASSUME NEW row \in DomainRows, NEW k \in Dimensions
  PROVE  DimensionValue(row, k) \in Statuses
<1>1. CASE k = "availability"
  BY <1>1, Zenon DEF DimensionValue, DomainRows, Statuses
<1>2. CASE k = "isp"
  BY <1>2, Zenon DEF DimensionValue, DomainRows, Statuses, Availabilities
<1>3. CASE k \in Signals
  <2>1. DimensionValue(row, k) = row.signal[k]
    BY <1>3, NamesAssumption, Zenon DEF DimensionValue
  <2> QED BY <1>3, <2>1, Zenon DEF DomainRows, Statuses, Availabilities
<1> QED BY <1>1, <1>2, <1>3, Zenon DEF Dimensions

(***************************************************************************)
(* persistHistory keeps the newest rows ending in the domain row's values  *)
(* and appends only real changes that start where the last row ended.      *)
(***************************************************************************)
LEMMA PersistHistoryFollows ==
  ASSUME NEW row \in DomainRows, NEW new \in DomainRows,
         NEW rows \in [Dimensions -> [previous : Statuses, current : Statuses]],
         HistoryFollowsRow(row, rows)
  PROVE  /\ PersistHistory(rows, row, new) \in
               [Dimensions -> [previous : Statuses, current : Statuses]]
         /\ HistoryFollowsRow(new, PersistHistory(rows, row, new))
         /\ \A k \in Dimensions :
              PersistHistory(rows, row, new)[k] # rows[k] =>
                /\ PersistHistory(rows, row, new)[k].previous = rows[k].current
                /\ PersistHistory(rows, row, new)[k].previous
                     # PersistHistory(rows, row, new)[k].current
<1>1. \A k \in Dimensions :
        DimensionValue(row, k) \in Statuses /\ DimensionValue(new, k) \in Statuses
  BY DimensionValueType, Zenon
<1> QED BY <1>1, Zenon DEF PersistHistory, HistoryFollowsRow

-----------------------------------------------------------------------------
(* The invariant is inductive.                                             *)

(***************************************************************************)
(* A freshly created domain satisfies the invariant.                       *)
(***************************************************************************)
LEMMA InitIInv == Init => IInv
<1> SUFFICES ASSUME Init PROVE IInv
  BY Zenon
<1> USE BoundAssumption, ThresholdAssumption DEF Init
<1>1. domain \in [Domains -> DomainRows]
  BY DEF DomainRows, Availabilities
<1>2. incident \in [Domains -> Incidents]
  BY DEF Incidents, Events
<1>3. history \in [Domains -> [Dimensions -> [previous : Statuses, current : Statuses]]]
  BY Zenon DEF Statuses, Availabilities
<1>4. trail \in [Domains -> [1 .. Window -> {"none", "failure", "success"}]]
  BY Zenon
<1>5. ASSUME NEW d \in Domains
      PROVE  /\ StreaksCountTrail(domain[d], trail[d])
             /\ AvailabilityFollowsStreaks(domain[d])
             /\ IncidentFollowsRow(domain[d], incident[d])
  BY DEF StreaksCountTrail, AvailabilityFollowsStreaks, IncidentFollowsRow, Failing, Unknown
<1>6. ASSUME NEW d \in Domains, NEW k \in Dimensions
      PROVE  history[d][k].current = DimensionValue(domain[d], k)
  <2>1. CASE k \in {"availability", "isp"}
    BY <2>1, Zenon DEF DimensionValue
  <2>2. CASE k \in Signals
    BY <2>2, NamesAssumption, Zenon DEF DimensionValue
  <2> QED BY <2>1, <2>2, Zenon DEF Dimensions
<1> QED BY <1>1, <1>2, <1>3, <1>4, <1>5, <1>6, Zenon DEF IInv, TypeOK, HistoryFollowsRow

(***************************************************************************)
(* CompleteRun preserves the invariant.                                    *)
(***************************************************************************)
LEMMA CompleteRunIInv ==
  ASSUME IInv, NEW d \in Domains, NEW trigger \in Triggers, NEW observed \in Decisions,
         CompleteRun(d, trigger, observed)
  PROVE  IInv'
<1> DEFINE q == Qualifying(trigger)
           new == Advance(domain[d], observed, q)
           inc == IF q THEN ApplyIncident(incident[d], observed, new) ELSE incident[d]
           rows == PersistHistory(history[d], domain[d], new)
           seen == Remember(trail[d], trigger, observed)
<1>1. /\ domain' = [domain EXCEPT ![d] = new]
      /\ incident' = [incident EXCEPT ![d] = inc]
      /\ history' = [history EXCEPT ![d] = rows]
      /\ trail' = [trail EXCEPT ![d] = seen]
      /\ new.failures <= MaxStreak /\ new.successes <= MaxStreak
  BY Zenon DEF CompleteRun
<1>2. /\ domain[d] \in DomainRows /\ incident[d] \in Incidents
      /\ history[d] \in [Dimensions -> [previous : Statuses, current : Statuses]]
      /\ trail[d] \in [1 .. Window -> {"none", "failure", "success"}]
      /\ StreaksCountTrail(domain[d], trail[d])
      /\ AvailabilityFollowsStreaks(domain[d])
      /\ IncidentFollowsRow(domain[d], incident[d])
      /\ HistoryFollowsRow(domain[d], history[d])
  BY Zenon DEF IInv, TypeOK
<1>3. q \in BOOLEAN
  BY Zenon DEF Qualifying
<1>4. new \in DomainRows
  BY <1>1, <1>2, <1>3, AdvanceType, Zenon
<1>5. inc \in Incidents
  BY <1>2, <1>4, ApplyIncidentType, Zenon
<1>6. rows \in [Dimensions -> [previous : Statuses, current : Statuses]]
      /\ HistoryFollowsRow(new, rows)
  BY <1>2, <1>4, PersistHistoryFollows, Zenon
<1>7. seen \in [1 .. Window -> {"none", "failure", "success"}]
  BY <1>2, BoundAssumption DEF Remember
<1>8. StreaksCountTrail(new, seen)
  BY <1>2, AdvanceStreaks, Zenon
<1>9. AvailabilityFollowsStreaks(new)
  BY <1>2, <1>3, AdvanceAvailability, Zenon
<1>10. IncidentFollowsRow(new, inc)
  <2>1. CASE q
    <3>1. q = TRUE
      BY <1>3, <2>1, Zenon
    <3> HIDE DEF q
    <3> QED BY <1>2, <3>1, ApplyIncidentFollows, Zenon
  <2>2. CASE ~q
    <3>1. /\ new.availability = domain[d].availability
          /\ new.failures = domain[d].failures /\ new.successes = domain[d].successes
      BY <1>2, <2>2, Zenon DEF Advance, DomainRows
    <3>2. inc = incident[d]
      BY <2>2, Zenon
    <3> HIDE DEF new, inc
    <3> QED BY <1>2, <3>1, <3>2, Zenon DEF IncidentFollowsRow
  <2> QED BY <2>1, <2>2, Zenon
<1> HIDE DEF q, new, inc, rows, seen
<1>11. TypeOK'
  BY <1>1, <1>4, <1>5, <1>6, <1>7, Zenon DEF IInv, TypeOK
<1>12. ASSUME NEW e \in Domains
       PROVE  /\ StreaksCountTrail(domain'[e], trail'[e])
              /\ AvailabilityFollowsStreaks(domain'[e])
              /\ IncidentFollowsRow(domain'[e], incident'[e])
              /\ HistoryFollowsRow(domain'[e], history'[e])
  <2>1. CASE e = d
    <3>1. domain'[e] = new /\ incident'[e] = inc /\ history'[e] = rows /\ trail'[e] = seen
      BY <1>1, <2>1, Zenon DEF IInv, TypeOK
    <3> QED BY <1>6, <1>8, <1>9, <1>10, <3>1
  <2>2. CASE e # d
    <3>1. /\ domain'[e] = domain[e] /\ incident'[e] = incident[e]
          /\ history'[e] = history[e] /\ trail'[e] = trail[e]
      BY <1>1, <2>2, Zenon DEF IInv, TypeOK
    <3> QED BY <3>1, Zenon DEF IInv
  <2> QED BY <2>1, <2>2, Zenon
<1> QED BY <1>11, <1>12, Zenon DEF IInv

(***************************************************************************)
(* SubmitResult preserves the invariant.                                   *)
(***************************************************************************)
LEMMA SubmitResultIInv ==
  ASSUME IInv, NEW d \in Domains, NEW status \in IspStatuses, SubmitResult(d, status)
  PROVE  IInv'
<1> DEFINE new == [domain[d] EXCEPT !.isp = status]
           rows == PersistHistory(history[d], domain[d], new)
<1>1. /\ domain' = [domain EXCEPT ![d] = new]
      /\ history' = [history EXCEPT ![d] = rows]
      /\ incident' = incident /\ trail' = trail
  BY Zenon DEF SubmitResult
<1>2. /\ domain[d] \in DomainRows
      /\ history[d] \in [Dimensions -> [previous : Statuses, current : Statuses]]
      /\ HistoryFollowsRow(domain[d], history[d])
  BY Zenon DEF IInv, TypeOK
<1>3. /\ new \in DomainRows
      /\ new.availability = domain[d].availability
      /\ new.failures = domain[d].failures /\ new.successes = domain[d].successes
  BY <1>2, Zenon DEF DomainRows
<1>4. rows \in [Dimensions -> [previous : Statuses, current : Statuses]]
      /\ HistoryFollowsRow(new, rows)
  BY <1>2, <1>3, PersistHistoryFollows, Zenon
<1> HIDE DEF new, rows
<1>5. TypeOK'
  BY <1>1, <1>3, <1>4, Zenon DEF IInv, TypeOK
<1>6. ASSUME NEW e \in Domains
      PROVE  /\ StreaksCountTrail(domain'[e], trail'[e])
             /\ AvailabilityFollowsStreaks(domain'[e])
             /\ IncidentFollowsRow(domain'[e], incident'[e])
             /\ HistoryFollowsRow(domain'[e], history'[e])
  <2>1. /\ domain'[e].availability = domain[e].availability
        /\ domain'[e].failures = domain[e].failures
        /\ domain'[e].successes = domain[e].successes
    BY <1>1, <1>3, Zenon DEF IInv, TypeOK
  <2>2. HistoryFollowsRow(domain'[e], history'[e])
    <3>1. CASE e = d
      BY <1>1, <1>4, <3>1, Zenon DEF IInv, TypeOK
    <3>2. CASE e # d
      <4>1. domain'[e] = domain[e] /\ history'[e] = history[e]
        BY <1>1, <3>2, Zenon DEF IInv, TypeOK
      <4> QED BY <4>1, Zenon DEF IInv
    <3> QED BY <3>1, <3>2, Zenon
  <2> QED BY <1>1, <2>1, <2>2
          DEF IInv, StreaksCountTrail, AvailabilityFollowsStreaks, IncidentFollowsRow
<1> QED BY <1>5, <1>6, Zenon DEF IInv

(***************************************************************************)
(* Every step of the specification preserves the invariant.                *)
(***************************************************************************)
LEMMA NextIInv == IInv /\ [Next]_vars => IInv'
<1> SUFFICES ASSUME IInv, [Next]_vars PROVE IInv'
  BY Zenon
<1>1. CASE Next
  BY <1>1, CompleteRunIInv, SubmitResultIInv, Zenon DEF Next
<1>2. CASE UNCHANGED vars
  BY <1>2 DEF vars, IInv, TypeOK, StreaksCountTrail, AvailabilityFollowsStreaks,
              IncidentFollowsRow, HistoryFollowsRow
<1> QED BY <1>1, <1>2, Zenon

(***************************************************************************)
(* The inductive invariant holds in every reachable state.                 *)
(***************************************************************************)
THEOREM Invariance == Spec => []IInv
BY InitIInv, NextIInv, PTL DEF Spec

-----------------------------------------------------------------------------
(* What the invariant gives.                                               *)

(***************************************************************************)
(* The columns of domains, incidents and the history keep their types.     *)
(***************************************************************************)
THEOREM TypeCorrect == Spec => []TypeOK
<1>1. IInv => TypeOK
  BY Zenon DEF IInv
<1> QED BY <1>1, Invariance, PTL

(***************************************************************************)
(* Hysteresis: UNAVAILABLE means exactly OpenFailures failed scheduled     *)
(* observations in a row, for every pair of thresholds.                    *)
(***************************************************************************)
THEOREM HysteresisCorrect == Spec => []UnavailableIffFailuresInARow
<1>1. IInv => UnavailableIffFailuresInARow
  <2> SUFFICES ASSUME IInv, NEW d \in Domains
               PROVE  domain[d].availability = "UNAVAILABLE" <=> Last(d, OpenFailures, "failure")
    BY Zenon DEF UnavailableIffFailuresInARow
  <2>1. /\ StreaksCountTrail(domain[d], trail[d]) /\ AvailabilityFollowsStreaks(domain[d])
        /\ domain[d].failures \in Nat
    BY BoundAssumption DEF IInv, TypeOK, DomainRows
  <2>2. OpenFailures \in Nat /\ Window \in Nat /\ Window >= OpenFailures /\ OpenFailures >= 1
    BY BoundAssumption, ThresholdAssumption
  <2>3. CASE domain[d].failures >= OpenFailures
    BY <2>1, <2>2, <2>3 DEF StreaksCountTrail, AvailabilityFollowsStreaks, Last
  <2>4. CASE domain[d].failures < OpenFailures
    <3>1. domain[d].failures + 1 \in 1 .. OpenFailures /\ domain[d].failures + 1 \in 1 .. Window
      BY <2>1, <2>2, <2>4
    <3>2. trail[d][domain[d].failures + 1] # "failure"
      BY <2>1, <3>1, Zenon DEF StreaksCountTrail
    <3> QED BY <2>1, <2>2, <2>4, <3>1, <3>2 DEF AvailabilityFollowsStreaks, Last
  <2> QED BY <2>1, <2>2, <2>3, <2>4
<1> QED BY <1>1, Invariance, PTL

(***************************************************************************)
(* The incident never contradicts the availability a user sees.            *)
(***************************************************************************)
THEOREM IncidentCorrect == Spec => []IncidentMatchesState
<1>1. IInv => IncidentMatchesState
  BY Zenon DEF IInv, IncidentMatchesState, IncidentFollowsRow
<1> QED BY <1>1, Invariance, PTL

(***************************************************************************)
(* The counters of an open incident are those of its domain.               *)
(***************************************************************************)
THEOREM IncidentCountersCorrect == Spec => []IncidentCountsEvidence
<1>1. IInv => IncidentCountsEvidence
  BY Zenon DEF IInv, IncidentCountsEvidence, IncidentFollowsRow, AvailabilityFollowsStreaks
<1> QED BY <1>1, Invariance, PTL

(***************************************************************************)
(* The newest history row of every dimension shows the current value.      *)
(***************************************************************************)
THEOREM HistoryCorrect == Spec => []HistoryEndsInState
<1>1. IInv => HistoryEndsInState
  BY Zenon DEF IInv, HistoryEndsInState, HistoryFollowsRow
<1> QED BY <1>1, Invariance, PTL

(***************************************************************************)
(* History rows chain: each starts where the previous one ended.           *)
(***************************************************************************)
THEOREM HistoryChains == Spec => HistoryIsAChain
<1> DEFINE Chains == \A d \in Domains, k \in Dimensions :
             history'[d][k] # history[d][k] =>
               /\ history'[d][k].previous = history[d][k].current
               /\ history'[d][k].previous # history'[d][k].current
<1>1. ASSUME IInv, [Next]_vars
      PROVE  [Chains]_vars
  <2>1. ASSUME NEW d \in Domains, NEW new \in DomainRows,
               history' = [history EXCEPT ![d] = PersistHistory(@, domain[d], new)]
        PROVE  Chains
    <3>1. /\ domain[d] \in DomainRows
          /\ history[d] \in [Dimensions -> [previous : Statuses, current : Statuses]]
          /\ HistoryFollowsRow(domain[d], history[d])
      BY <1>1, Zenon DEF IInv, TypeOK
    <3> DEFINE rows == PersistHistory(history[d], domain[d], new)
    <3>2. \A k \in Dimensions : rows[k] # history[d][k] =>
            rows[k].previous = history[d][k].current /\ rows[k].previous # rows[k].current
      BY <3>1, PersistHistoryFollows
    <3>3. \A e \in Domains : history'[e] = IF e = d THEN rows ELSE history[e]
      BY <1>1, <2>1, Zenon DEF IInv, TypeOK
    <3> HIDE DEF rows
    <3> QED BY <3>2, <3>3, Zenon
  <2>2. ASSUME NEW d \in Domains, NEW trigger \in Triggers, NEW observed \in Decisions,
               CompleteRun(d, trigger, observed)
        PROVE  Chains
    <3> DEFINE new == Advance(domain[d], observed, Qualifying(trigger))
    <3>1. /\ new.failures <= MaxStreak /\ new.successes <= MaxStreak
          /\ history' = [history EXCEPT ![d] = PersistHistory(@, domain[d], new)]
      BY <2>2, Zenon DEF CompleteRun
    <3>2. new \in DomainRows
      BY <1>1, <3>1, AdvanceType, Zenon DEF IInv, TypeOK, Qualifying
    <3> HIDE DEF new, Chains
    <3> QED BY <2>1, <3>1, <3>2, Zenon
  <2>3. ASSUME NEW d \in Domains, NEW status \in IspStatuses, SubmitResult(d, status)
        PROVE  Chains
    <3> DEFINE new == [domain[d] EXCEPT !.isp = status]
    <3>1. new \in DomainRows
      BY <1>1, ZenonT(40) DEF IInv, TypeOK, DomainRows
    <3>2. history' = [history EXCEPT ![d] = PersistHistory(@, domain[d], new)]
      BY <2>3, Zenon DEF SubmitResult
    <3> HIDE DEF new, Chains
    <3> QED BY <2>1, <3>1, <3>2, Zenon
  <2> HIDE DEF Chains
  <2> QED BY <1>1, <2>2, <2>3, Zenon DEF Next
<1> QED BY <1>1, Invariance, PTL DEF HistoryIsAChain, Spec

(***************************************************************************)
(* applyIncident opens an incident on failure number OpenFailures, not     *)
(* later, and closes it on success number CloseSuccesses, not later.       *)
(***************************************************************************)
LEMMA ApplyIncidentMoves ==
  ASSUME NEW row \in DomainRows, NEW inc \in Incidents, NEW observed \in Decisions,
         AvailabilityFollowsStreaks(row), IncidentFollowsRow(row, inc)
  PROVE  LET new == Advance(row, observed, TRUE)
             now == ApplyIncident(inc, observed, new)
         IN  /\ ~inc.open /\ now.open => new.failures = OpenFailures
             /\ inc.open /\ ~now.open => new.successes = CloseSuccesses
<1> DEFINE new == Advance(row, observed, TRUE)
           now == ApplyIncident(inc, observed, new)
<1>0. /\ row.failures \in Nat /\ row.successes \in Nat /\ inc.open \in BOOLEAN
      /\ OpenFailures \in Nat /\ CloseSuccesses \in Nat
  BY BoundAssumption, ThresholdAssumption DEF DomainRows, Incidents
<1>1. CASE ~inc.open
  <2>1. now.open => /\ observed.availability \in Failing
                    /\ new.failures >= OpenFailures
    BY <1>1, Zenon DEF ApplyIncident, Failing
  <2>2. observed.availability \in Failing => new.failures = row.failures + 1
    BY Zenon DEF Advance, DomainRows, Unknown, Failing
  <2>3. row.failures < OpenFailures
    BY <1>0, <1>1 DEF IncidentFollowsRow, AvailabilityFollowsStreaks
  <2> HIDE DEF new, now
  <2>4. now.open => new.failures = OpenFailures
    BY <1>0, <2>1, <2>2, <2>3
  <2> QED BY <1>1, <2>4, Zenon DEF new, now
<1>2. CASE inc.open
  <2>1. ~now.open => observed.availability = "ACTIVE" /\ Closes(new)
    <3>1. CASE observed.availability = "ACTIVE"
      <4> DEFINE closes == Closes(new)
      <4>1. now = [inc EXCEPT !.successes = new.successes, !.open = ~closes,
                     !.event = IF closes THEN "closed" ELSE "success_observed"]
        BY <1>2, <3>1, Zenon DEF ApplyIncident, Failing
      <4> HIDE DEF now, closes
      <4>2. now.open <=> ~closes
        BY <4>1, Zenon DEF Incidents
      <4> QED BY <3>1, <4>2, Zenon DEF closes
    <3>2. CASE observed.availability \in Failing
      <4>1. now.open
        BY <1>2, <3>2, Zenon DEF ApplyIncident, Failing, Incidents
      <4> QED BY <4>1, Zenon
    <3>3. CASE observed.availability = Unknown
      <4>1. now = inc
        BY <3>3, Zenon DEF ApplyIncident, Unknown, Failing
      <4> QED BY <1>2, <4>1, Zenon
    <3> QED BY <3>1, <3>2, <3>3, Zenon DEF Decisions, Availabilities
  <2>2. observed.availability = "ACTIVE" => new.successes = row.successes + 1
    BY Zenon DEF Advance, DomainRows, Unknown
  <2>3. row.successes < CloseSuccesses
    BY <1>0, <1>2, Zenon DEF IncidentFollowsRow, AvailabilityFollowsStreaks
  <2> HIDE DEF new, now
  <2>4. ~now.open => new.successes = CloseSuccesses
    BY <1>0, <2>1, <2>2, <2>3 DEF Closes
  <2> QED BY <1>2, <2>4, Zenon DEF new, now
<1> QED BY <1>1, <1>2, Zenon

(***************************************************************************)
(* Incidents open and close exactly on the configured thresholds.          *)
(***************************************************************************)
THEOREM IncidentThresholds == Spec => IncidentMovesOnThresholds
<1> DEFINE Opens(d) == ~incident[d].open /\ incident'[d].open
           ClosesNow(d) == incident[d].open /\ ~incident'[d].open
<1>1. ASSUME IInv, IInv', Next, NEW d \in Domains
      PROVE  /\ Opens(d) => domain'[d].failures = OpenFailures
             /\ ClosesNow(d) => domain'[d].successes = CloseSuccesses
  <2>1. CASE incident'[d] = incident[d]
    BY <2>1, Zenon
  <2>2. CASE incident'[d] # incident[d]
    <3>1. PICK trigger \in Triggers, observed \in Decisions : CompleteRun(d, trigger, observed)
      <4>1. ASSUME NEW e \in Domains, e # d, NEW trigger \in Triggers, NEW observed \in Decisions,
                   CompleteRun(e, trigger, observed)
            PROVE  FALSE
        BY <1>1, <2>2, <4>1, Zenon DEF CompleteRun, IInv, TypeOK
      <4>2. ASSUME NEW e \in Domains, NEW status \in IspStatuses, SubmitResult(e, status)
            PROVE  FALSE
        BY <2>2, <4>2, Zenon DEF SubmitResult
      <4> QED BY <1>1, <4>1, <4>2, Zenon DEF Next
    <3> DEFINE new == Advance(domain[d], observed, TRUE)
    <3>2. Qualifying(trigger) = TRUE
      BY <1>1, <2>2, <3>1, Zenon DEF CompleteRun, Qualifying, IInv, TypeOK
    <3>3. domain'[d] = new /\ incident'[d] = ApplyIncident(incident[d], observed, new)
      BY <1>1, <3>1, <3>2, Zenon DEF CompleteRun, IInv, TypeOK
    <3>4. /\ domain[d] \in DomainRows /\ incident[d] \in Incidents
          /\ AvailabilityFollowsStreaks(domain[d])
          /\ IncidentFollowsRow(domain[d], incident[d])
      BY <1>1, Zenon DEF IInv, TypeOK
    <3> QED BY <3>3, <3>4, ApplyIncidentMoves, ZenonT(40)
  <2> QED BY <2>1, <2>2, Zenon
<1>2. ASSUME IInv', NEW d \in Domains
      PROVE  /\ domain'[d].failures = OpenFailures => Last(d, OpenFailures, "failure")'
             /\ domain'[d].successes = CloseSuccesses => Last(d, CloseSuccesses, "success")'
  <2>1. StreaksCountTrail(domain'[d], trail'[d])
    BY <1>2, Zenon DEF IInv
  <2> QED BY <2>1, BoundAssumption, ThresholdAssumption DEF StreaksCountTrail, Last
<1>3. ASSUME IInv, IInv', [Next]_vars
      PROVE  [\A d \in Domains :
                /\ ~incident[d].open /\ incident'[d].open
                     => Last(d, OpenFailures, "failure")' /\ domain'[d].failures = OpenFailures
                /\ incident[d].open /\ ~incident'[d].open
                     => Last(d, CloseSuccesses, "success")' /\ domain'[d].successes = CloseSuccesses]_vars
  BY <1>1, <1>2, <1>3, Zenon
<1> QED BY <1>3, Invariance, PTL DEF IncidentMovesOnThresholds, Spec

-----------------------------------------------------------------------------
(***************************************************************************)
(* DnsCheck: the results of a type are numbered attempts, the last of which *)
(* is the last word.                                                       *)
(***************************************************************************)
\* The results of one type: numbered attempts, the last of which is the resolver's last word.
GroupInv(t) ==
  /\ IsFiniteSet(groups[t]) /\ Cardinality(groups[t]) \in 0 .. DnsAttempts
  /\ \A r \in groups[t] : r.type = t /\ r.attempt \in 1 .. Cardinality(groups[t])
  /\ groups[t] # {} =>
       \E r \in groups[t] : /\ r.attempt = Cardinality(groups[t])
                            /\ Outcome(r.rcode, r.code, r.answers) = lastWord[t]
                            /\ \A s \in groups[t] : s.attempt = r.attempt => s = r
  /\ lookup[t].phase = "queued" => groups[t] = {}
  /\ lookup[t].phase \in {"udp", "tcp", "pause"} => Cardinality(groups[t]) < DnsAttempts
  /\ lookup[t].phase \in {"pause", "done"} => groups[t] # {}

\* The inductive invariant of all goroutines.
DnsInv ==
  /\ lookup \in [QueryTypes -> [phase : LookupPhases, slot : BOOLEAN]]
  /\ groups = [t \in QueryTypes |-> groups[t]] /\ lastWord = [t \in QueryTypes |-> lastWord[t]]
  /\ \A t \in QueryTypes : GroupInv(t)

\* A step that moves one goroutine to a phase its results allow.
LEMMA MoveKeeps ==
  ASSUME DnsInv, NEW t \in QueryTypes, NEW new \in [phase : LookupPhases, slot : BOOLEAN],
         lookup' = [lookup EXCEPT ![t] = new], UNCHANGED <<groups, lastWord>>,
         new.phase # "queued",
         new.phase \in {"udp", "tcp", "pause"} => Cardinality(groups[t]) < DnsAttempts,
         new.phase \in {"pause", "done"} => groups[t] # {}
  PROVE  DnsInv'
<1>1. lookup'[t] = new /\ \A s \in QueryTypes : s # t => lookup'[s] = lookup[s]
  BY Zenon DEF DnsInv
<1>2. lookup' \in [QueryTypes -> [phase : LookupPhases, slot : BOOLEAN]]
  BY Zenon DEF DnsInv
<1>3. ASSUME NEW s \in QueryTypes
      PROVE  GroupInv(s)'
  <2>1. GroupInv(s)
    BY Zenon DEF DnsInv
  <2>2. CASE s = t
    BY <1>1, <2>1, <2>2, Zenon DEF GroupInv
  <2>3. CASE s # t
    BY <1>1, <2>1, <2>3, Zenon DEF GroupInv
  <2> QED BY <2>2, <2>3, Zenon
<1> QED
  BY <1>2, <1>3, Zenon DEF DnsInv

\* The result of an exchange takes the next number and is the last word.
LEMMA ExchangeKeeps ==
  ASSUME DnsInv, NEW t \in QueryTypes, NEW rcode, NEW code, NEW answers, EndExchange(t, Outcome(rcode, code, answers))
  PROVE  DnsInv'
<1> DEFINE o == Outcome(rcode, code, answers)
           n == Cardinality(groups[t]) + 1
           r == ResultOf(t, n, o)
           more == n < DnsAttempts /\ Retryable(o)
<1>0. DnsAttempts \in Nat
  BY DnsCheckAssumption, Zenon
<1>1. /\ lookup[t].phase \in {"udp", "tcp"}
      /\ groups' = [groups EXCEPT ![t] = @ \cup {r}]
      /\ lastWord' = [lastWord EXCEPT ![t] = o]
      /\ lookup' = [lookup EXCEPT ![t] = IF more THEN [lookup[t] EXCEPT !.phase = "pause"] ELSE [phase |-> "done", slot |-> FALSE]]
  BY Zenon DEF EndExchange
<1>2. /\ groups'[t] = groups[t] \cup {r} /\ lastWord'[t] = o
      /\ \A s \in QueryTypes : s # t => groups'[s] = groups[s] /\ lastWord'[s] = lastWord[s] /\ lookup'[s] = lookup[s]
      /\ groups' = [s \in QueryTypes |-> groups'[s]] /\ lastWord' = [s \in QueryTypes |-> lastWord'[s]]
  BY <1>1, Zenon DEF DnsInv
<1>3. /\ lookup' \in [QueryTypes -> [phase : LookupPhases, slot : BOOLEAN]]
      /\ lookup'[t].phase = IF more THEN "pause" ELSE "done"
  <2>1. lookup[t] \in [phase : LookupPhases, slot : BOOLEAN]
    BY Zenon DEF DnsInv
  <2> DEFINE a == [lookup[t] EXCEPT !.phase = "pause"]
             b == [phase |-> "done", slot |-> FALSE]
  <2>2. /\ a \in [phase : LookupPhases, slot : BOOLEAN] /\ a.phase = "pause"
        /\ b \in [phase : LookupPhases, slot : BOOLEAN] /\ b.phase = "done"
    BY <2>1, Zenon DEF LookupPhases
  <2>3. lookup' = [lookup EXCEPT ![t] = IF more THEN a ELSE b]
    BY <1>1, Zenon
  <2> HIDE DEF a, b, more
  <2> QED
    BY <2>2, <2>3, Zenon DEF DnsInv
<1>4. r.type = t /\ r.attempt = n /\ Outcome(r.rcode, r.code, r.answers) = o
  BY Zenon DEF ResultOf, Outcome
<1>5. /\ IsFiniteSet(groups[t]) /\ Cardinality(groups[t]) \in Nat /\ Cardinality(groups[t]) < DnsAttempts
      /\ \A s \in groups[t] : s.type = t /\ s.attempt \in 1 .. Cardinality(groups[t])
  BY <1>0, <1>1 DEF DnsInv, GroupInv
<1>6. more => n < DnsAttempts
  BY Zenon
<1>7. n \in Nat /\ n >= 1 /\ n <= DnsAttempts
  BY <1>0, <1>5
<1>8. \A s \in groups[t] : s.attempt \in 1 .. n - 1
  BY <1>5
<1> HIDE DEF r, o, more
<1>9. r \notin groups[t]
  BY <1>4, <1>7, <1>8
<1>10. IsFiniteSet(groups'[t]) /\ Cardinality(groups'[t]) = n
  <2>1. IsFiniteSet(groups[t] \cup {r}) /\ Cardinality(groups[t] \cup {r}) = Cardinality(groups[t]) + 1
    BY <1>5, <1>9, FS_AddElement, Zenon
  <2> QED
    BY <1>2, <2>1, Zenon
<1> HIDE DEF n
<1>11. GroupInv(t)'
  <2>1. \A s \in groups'[t] : s.type = t /\ s.attempt \in 1 .. n
    BY <1>2, <1>4, <1>5, <1>7, <1>8
  <2>2. /\ r \in groups'[t] /\ r.attempt = n /\ Outcome(r.rcode, r.code, r.answers) = lastWord'[t]
        /\ \A s \in groups'[t] : s.attempt = r.attempt => s = r
    BY <1>2, <1>4, <1>7, <1>8
  <2>3. lookup'[t].phase \in {"pause", "done"} /\ (lookup'[t].phase = "pause" => n < DnsAttempts)
    BY <1>3, <1>6, Zenon
  <2>4. n \in 0 .. DnsAttempts
    BY <1>0, <1>7
  <2>5. lookup'[t].phase # "queued" /\ (lookup'[t].phase \in {"udp", "tcp", "pause"} => n < DnsAttempts)
    BY <2>3, Zenon
  <2> QED
    BY <1>10, <2>1, <2>2, <2>4, <2>5, Zenon DEF GroupInv
<1>12. \A s \in QueryTypes : s # t => GroupInv(s)'
  BY <1>2 DEF DnsInv, GroupInv
<1> QED
  BY <1>2, <1>3, <1>11, <1>12, Zenon DEF DnsInv

\* Every step of every goroutine keeps DnsInv, the end of the run included.
LEMMA DnsStep ==
  ASSUME DnsInv, [DnsNext]_dnsVars
  PROVE  DnsInv'
<1>0. DnsAttempts \in Nat \ {0} /\ \A t \in QueryTypes : lookup[t] \in [phase : LookupPhases, slot : BOOLEAN]
  BY DnsCheckAssumption, Zenon DEF DnsInv
<1>1. ASSUME NEW t \in QueryTypes, BeginQuery(t) \/ QueryUnslotted(t) \/ Truncated(t)
      PROVE  DnsInv'
  <2>1. PICK new \in [phase : LookupPhases, slot : BOOLEAN] :
          lookup' = [lookup EXCEPT ![t] = new] /\ new.phase \in {"udp", "tcp"}
    <3>1. CASE BeginQuery(t)
      <4> DEFINE new == [phase |-> "udp", slot |-> TRUE]
      <4>1. lookup' = [lookup EXCEPT ![t] = new] /\ new \in [phase : LookupPhases, slot : BOOLEAN] /\ new.phase = "udp"
        BY <3>1, Zenon DEF BeginQuery, LookupPhases
      <4> HIDE DEF new
      <4> QED BY <4>1, Zenon
    <3>2. CASE QueryUnslotted(t)
      <4> DEFINE new == [lookup[t] EXCEPT !.phase = "udp"]
      <4>1. lookup' = [lookup EXCEPT ![t] = new]
        BY <3>2, Zenon DEF QueryUnslotted
      <4>2. new \in [phase : LookupPhases, slot : BOOLEAN] /\ new.phase = "udp"
        BY <1>0, Zenon DEF LookupPhases
      <4> HIDE DEF new
      <4> QED BY <4>1, <4>2, Zenon
    <3>3. CASE Truncated(t)
      <4> DEFINE new == [lookup[t] EXCEPT !.phase = "tcp"]
      <4>1. lookup' = [lookup EXCEPT ![t] = new]
        BY <3>3, Zenon DEF Truncated
      <4>2. new \in [phase : LookupPhases, slot : BOOLEAN] /\ new.phase = "tcp"
        BY <1>0, Zenon DEF LookupPhases
      <4> HIDE DEF new
      <4> QED BY <4>1, <4>2, Zenon
    <3> QED BY <1>1, <3>1, <3>2, <3>3, Zenon
  <2>2. lookup[t].phase \in {"queued", "udp"} /\ UNCHANGED <<groups, lastWord>>
    BY <1>1, Zenon DEF BeginQuery, QueryUnslotted, Truncated
  <2>3. Cardinality(groups[t]) < DnsAttempts
    BY <1>0, <2>2, FS_EmptySet DEF DnsInv, GroupInv
  <2> QED
    BY <2>1, <2>2, <2>3, MoveKeeps, Zenon
<1>2. ASSUME NEW t \in QueryTypes, EndOfPause(t)
      PROVE  DnsInv'
  <2>1. lookup[t].phase = "pause" /\ UNCHANGED <<groups, lastWord>>
    BY <1>2, Zenon DEF EndOfPause
  <2>2. PICK new \in [phase : LookupPhases, slot : BOOLEAN] :
          lookup' = [lookup EXCEPT ![t] = new] /\ new.phase \in {"udp", "done"}
    <3>1. CASE lookup' = [lookup EXCEPT ![t].phase = "udp"]
      <4> DEFINE new == [lookup[t] EXCEPT !.phase = "udp"]
      <4>1. lookup' = [lookup EXCEPT ![t] = new]
        BY <3>1, Zenon
      <4>2. new \in [phase : LookupPhases, slot : BOOLEAN] /\ new.phase = "udp"
        BY <1>0, Zenon DEF LookupPhases
      <4> HIDE DEF new
      <4> QED BY <4>1, <4>2, Zenon
    <3>2. CASE lookup' = [lookup EXCEPT ![t] = [phase |-> "done", slot |-> FALSE]]
      <4> DEFINE new == [phase |-> "done", slot |-> FALSE]
      <4>1. lookup' = [lookup EXCEPT ![t] = new] /\ new \in [phase : LookupPhases, slot : BOOLEAN] /\ new.phase = "done"
        BY <3>2, Zenon DEF LookupPhases
      <4> HIDE DEF new
      <4> QED BY <4>1, Zenon
    <3> QED BY <1>2, <3>1, <3>2, Zenon DEF EndOfPause
  <2>3. Cardinality(groups[t]) < DnsAttempts /\ groups[t] # {}
    BY <2>1, Zenon DEF DnsInv, GroupInv
  <2> QED
    BY <2>1, <2>2, <2>3, MoveKeeps, Zenon
<1>3. ASSUME NEW t \in QueryTypes, Exchanged(t) \/ Interrupted(t)
      PROVE  DnsInv'
  <2>1. \E rcode, code, answers : EndExchange(t, Outcome(rcode, code, answers))
    BY <1>3, Zenon DEF Exchanged, Interrupted, Responses, Errors
  <2> QED
    BY <2>1, ExchangeKeeps, Zenon
<1>4. CASE RunEnds \/ UNCHANGED dnsVars
  <2>1. UNCHANGED <<lookup, groups, lastWord>>
    BY <1>4, Zenon DEF RunEnds, dnsVars
  <2> QED
    BY <2>1 DEF DnsInv, GroupInv
<1> QED
  BY <1>1, <1>2, <1>3, <1>4, Zenon DEF DnsNext

\* When QueryAll returns, every record type has a result, and the latest is what the resolver said last.
THEOREM LastWordCorrect == DnsSpec => []LastWordCounts
<1>1. DnsInit => DnsInv
  <2> SUFFICES ASSUME DnsInit PROVE DnsInv
    BY Zenon
  <2>1. ASSUME NEW t \in QueryTypes
        PROVE  GroupInv(t)
    <3>1. groups[t] = {} /\ lookup[t].phase = "queued"
      BY Zenon DEF DnsInit
    <3> QED
      BY <3>1, FS_EmptySet, DnsCheckAssumption DEF GroupInv
  <2> QED
    BY <2>1, Zenon DEF DnsInit, DnsInv, LookupPhases
<1>2. DnsInv /\ [DnsNext]_dnsVars => DnsInv'
  BY DnsStep, Zenon
<1>3. DnsInv => LastWordCounts
  <2> SUFFICES ASSUME DnsInv, \A t \in QueryTypes : lookup[t].phase = "done"
               PROVE  /\ Complete(AllResults)
                      /\ \A t \in QueryTypes :
                           LET r == LatestByType(AllResults)[t] IN Outcome(r.rcode, r.code, r.answers) = lastWord[t]
    BY Zenon DEF LastWordCounts
  <2>0. DnsAttempts \in Nat
    BY DnsCheckAssumption, Zenon
  <2>1. \A t \in QueryTypes : groups[t] # {} /\ \A r \in groups[t] : r.type = t
    BY Zenon DEF DnsInv, GroupInv
  <2>2. \A r \in AllResults : r.type \in QueryTypes /\ r \in groups[r.type]
    BY <2>1, Zenon DEF AllResults
  <2>3. \A t \in QueryTypes : \A r \in groups[t] : r \in AllResults
    BY Zenon DEF AllResults
  <2>4. TypesOf(AllResults) = QueryTypes
    BY <2>1, <2>2, <2>3 DEF TypesOf
  <2>5. \A t \in QueryTypes : \A r \in groups[t] : r.attempt \in 1 .. DnsAttempts
    BY <2>0 DEF DnsInv, GroupInv
  <2>6. Complete(AllResults)
    BY <2>2, <2>4, <2>5, Zenon DEF Complete
  <2>7. ASSUME NEW t \in QueryTypes
        PROVE  LET r == LatestByType(AllResults)[t] IN Outcome(r.rcode, r.code, r.answers) = lastWord[t]
    <3> DEFINE last(r) == r.type = t /\ \A s \in AllResults : s.type = t => s.attempt <= r.attempt
               latest == CHOOSE r \in AllResults : last(r)
    <3>1. LatestByType(AllResults)[t] = latest
      BY <2>4, Zenon DEF LatestByType
    <3>2. PICK r \in groups[t] : /\ r.attempt = Cardinality(groups[t])
                                 /\ Outcome(r.rcode, r.code, r.answers) = lastWord[t]
                                 /\ \A s \in groups[t] : s.attempt = r.attempt => s = r
      BY <2>1, Zenon DEF DnsInv, GroupInv
    <3>3. \A s \in AllResults : s.type = t => s \in groups[t] /\ s.attempt \in Nat /\ s.attempt <= r.attempt
      BY <2>2, <3>2 DEF DnsInv, GroupInv
    <3>4. r \in AllResults /\ last(r)
      BY <2>1, <2>3, <3>3, Zenon
    <3>5. latest \in AllResults /\ last(latest)
      BY <3>4, Zenon
    <3> HIDE DEF latest
    <3>6. latest \in groups[t] /\ latest.attempt <= r.attempt /\ r.attempt <= latest.attempt /\ latest.attempt \in Nat /\ r.attempt \in Nat
      BY <3>3, <3>4, <3>5, Zenon
    <3>7. latest = r
      BY <3>2, <3>6
    <3> QED
      BY <3>1, <3>2, <3>7, Zenon
  <2> QED
    BY <2>6, <2>7, Zenon
<1> QED
  BY <1>1, <1>2, <1>3, PTL DEF DnsSpec

-----------------------------------------------------------------------------
(***************************************************************************)
(* IspEvidence: a judgement looks at the evidence of that moment.          *)
(***************************************************************************)
\* The types of results.
LocalTypes == [run : Nat, at : Nat, found : LocalKinds]
RemoteTypes == [id : Nat, run : Nat, at : Nat, active : BOOLEAN, body : RemoteBodies]

\* Local results are numbered, and there are finitely many of both.
EvidenceInv ==
  /\ ispTime \in Nat
  /\ localResults \subseteq LocalTypes /\ IsFiniteSet(localResults)
  /\ remoteResults \subseteq RemoteTypes /\ IsFiniteSet(remoteResults)
  /\ \A r \in localResults : r.run <= Cardinality(localResults)
  /\ \A r, s \in localResults : r.run = s.run => r = s

\* A set that is too large to be empty or a singleton has two members.
LEMMA TwoMembers ==
  ASSUME NEW S, Cardinality(S) \in Nat, Cardinality(S) >= 2
  PROVE  \E x, y \in S : x # y
<1>1. S # {}
  BY FS_EmptySet
<1>2. PICK x \in S : TRUE
  BY <1>1, Zenon
<1>3. Cardinality({x}) = 1
  BY FS_Singleton, Zenon
<1>4. S # {x}
  BY <1>3
<1> QED
  BY <1>2, <1>4, Zenon

\* A pair has two members.
LEMMA PairSize ==
  ASSUME NEW x, NEW y, x # y
  PROVE  IsFiniteSet({x} \cup {y}) /\ Cardinality({x} \cup {y}) = 2
<1>1. IsFiniteSet({x}) /\ Cardinality({x}) = 1 /\ y \notin {x}
  BY FS_Singleton, Zenon
<1> QED
  BY <1>1, FS_AddElement

\* A set of three has a member besides any two.
LEMMA ThirdMember ==
  ASSUME NEW S, Cardinality(S) \in Nat, Cardinality(S) >= 3, NEW x \in S, NEW y \in S, x # y
  PROVE  \E z \in S : z # x /\ z # y
<1>1. Cardinality({x} \cup {y}) = 2
  BY PairSize, Zenon
<1>2. S # {x} \cup {y}
  BY <1>1
<1> QED
  BY <1>2, Zenon

\* Three things that differ are three.
LEMMA ThreeMembers ==
  ASSUME NEW x, NEW y, NEW z, x # y, x # z, y # z
  PROVE  Cardinality({x, y, z}) = 3
<1>1. IsFiniteSet({x} \cup {y}) /\ Cardinality({x} \cup {y}) = 2 /\ z \notin {x} \cup {y}
  BY PairSize, Zenon
<1>2. Cardinality(({x} \cup {y}) \cup {z}) = 3
  BY <1>1, FS_AddElement
<1>3. {x, y, z} = ({x} \cup {y}) \cup {z}
  BY Zenon
<1> QED
  BY <1>2, <1>3, Zenon

\* A verdict of HIGH_CONFIDENCE_BLOCK met every condition of Classify.
LEMMA BlockNeeds ==
  ASSUME NEW found, NEW active, NEW healthy, NEW locals, NEW remotes, NEW now,
         ClassifyISP(found, active, healthy, locals, remotes, now) = "HIGH_CONFIDENCE_BLOCK"
  PROVE  /\ ~(Cardinality(QualifyingFailures(locals, now)) < 3)
         /\ ~(Cardinality(BucketsOf(QualifyingFailures(locals, now))) < 2)
         /\ HashStable(remotes, now) /\ DohStable(locals, now)
<1> DEFINE failures == QualifyingFailures(locals, now)
           few == Cardinality(failures) < 3 \/ Cardinality(BucketsOf(failures)) < 2
<1>1. ~few /\ HashStable(remotes, now) /\ DohStable(locals, now)
  <2>1. few => "HIGH_CONFIDENCE_BLOCK" \in {"NOT_DETECTED", "UNKNOWN", "SUSPECTED"}
    BY ZenonT(40) DEF ClassifyISP
  <2>2. ~HashStable(remotes, now) => "HIGH_CONFIDENCE_BLOCK" \in {"NOT_DETECTED", "UNKNOWN", "SUSPECTED"}
    BY ZenonT(40) DEF ClassifyISP
  <2>3. ~DohStable(locals, now) => "HIGH_CONFIDENCE_BLOCK" \in {"NOT_DETECTED", "UNKNOWN", "SUSPECTED"}
    BY ZenonT(40) DEF ClassifyISP
  <2> HIDE DEF few
  <2> QED
    BY <2>1, <2>2, <2>3, Zenon
<1> QED
  BY <1>1, Zenon

\* One value for all: what a stable hash and a stable answer mean.
LEMMA OneForAll ==
  ASSUME NEW S, IsFiniteSet(S), Cardinality(S) = 1, NEW x \in S, NEW y \in S
  PROVE  x = y
<1>1. PICK z : S = {z}
  BY FS_Singleton, Zenon
<1> QED
  BY <1>1, Zenon

\* RemoteResult judges HIGH_CONFIDENCE_BLOCK only on evidence that backs it.
LEMMA JudgementIsBacked ==
  ASSUME EvidenceInv, NEW l \in localResults, NEW active \in BOOLEAN, NEW healthy \in BOOLEAN, NEW body \in RemoteBodies,
         RemoteResult(l, active, body, healthy), isp' = "HIGH_CONFIDENCE_BLOCK", EvidenceInv'
  PROVE  Backed
<1> DEFINE recent == {r \in localResults : ispTime - r.at <= EvidenceFresh}
           failed == {r \in recent : ~r.found.manual /\ r.found.availability = "UNAVAILABLE"}
           succeeded == {r \in remoteResults' : ispTime - r.at <= EvidenceFresh /\ r.active}
<1>0. EvidenceFresh \in Nat /\ Bucket \in Nat \ {0} /\ ispTime \in Nat
  BY IspEvidenceAssumption, Zenon DEF EvidenceInv
<1>1. ClassifyISP(l.found, active, healthy, localResults, remoteResults', ispTime) = "HIGH_CONFIDENCE_BLOCK"
  BY Zenon DEF RemoteResult
<1>2. /\ ~(Cardinality(QualifyingFailures(localResults, ispTime)) < 3)
      /\ ~(Cardinality(BucketsOf(QualifyingFailures(localResults, ispTime))) < 2)
      /\ HashStable(remoteResults', ispTime) /\ DohStable(localResults, ispTime)
  BY <1>1, BlockNeeds, Zenon
<1>3. \A r \in localResults : r.at \in Nat /\ (r.at + EvidenceFresh >= ispTime <=> ispTime - r.at <= EvidenceFresh)
  BY <1>0 DEF EvidenceInv, LocalTypes
<1>4. \A r \in remoteResults' : r.at \in Nat /\ (r.at + EvidenceFresh >= ispTime <=> ispTime - r.at <= EvidenceFresh)
  BY <1>0 DEF EvidenceInv, RemoteTypes
<1>5. recent = FreshOf(localResults, ispTime) /\ failed = QualifyingFailures(localResults, ispTime)
  BY <1>3, Zenon DEF FreshOf, QualifyingFailures
<1>6. succeeded = Successes(remoteResults', ispTime)
  BY <1>4, Zenon DEF FreshOf, Successes
<1>7. IsFiniteSet(recent) /\ IsFiniteSet(failed) /\ IsFiniteSet(succeeded)
  <2>1. recent \subseteq localResults /\ failed \subseteq localResults /\ succeeded \subseteq remoteResults'
    BY Zenon
  <2> HIDE DEF recent, failed, succeeded
  <2> QED
    BY <2>1, FS_Subset, Zenon DEF EvidenceInv
<1>8. \A r \in failed : r \in localResults /\ r.at \in Nat
  BY <1>3, Zenon
<1>9. \A r \in recent : r \in localResults
  BY Zenon
<1> HIDE DEF recent, failed, succeeded
<1>10. \E a, b, c \in failed : Cardinality({a.run, b.run, c.run}) = 3 /\ a.at # b.at
  <2>1. Cardinality(failed) \in Nat /\ Cardinality(failed) >= 3
    BY <1>2, <1>5, <1>7, FS_CardinalityType
  <2>2. IsFiniteSet(BucketsOf(failed))
    <3> DEFINE F == [r \in failed |-> r.at \div Bucket]
    <3>1. F \in Surjection(failed, BucketsOf(failed))
      BY Zenon DEF Surjection, BucketsOf
    <3> QED
      BY <1>7, <3>1, FS_Surjection, Zenon
  <2>3. Cardinality(BucketsOf(failed)) \in Nat /\ Cardinality(BucketsOf(failed)) >= 2
    BY <1>2, <1>5, <2>2, FS_CardinalityType
  <2>4. PICK p, q \in BucketsOf(failed) : p # q
    BY <2>3, TwoMembers
  <2>5. PICK a \in failed : p = a.at \div Bucket
    BY Zenon DEF BucketsOf
  <2>6. PICK b \in failed : q = b.at \div Bucket
    BY Zenon DEF BucketsOf
  <2>7. a.at # b.at /\ a # b
    BY <2>4, <2>5, <2>6, Zenon
  <2>8. PICK c \in failed : c # a /\ c # b
    BY <2>1, <2>7, ThirdMember
  <2>9. a.run # b.run /\ a.run # c.run /\ b.run # c.run
    BY <1>8, <2>7, <2>8, Zenon DEF EvidenceInv
  <2>10. Cardinality({a.run, b.run, c.run}) = 3
    BY <2>9, ThreeMembers, Zenon
  <2> QED
    BY <2>7, <2>10, Zenon
<1>11. \E a, b \in succeeded : a # b
  <2>1. Cardinality(succeeded) \in Nat /\ Cardinality(succeeded) >= 2
    BY <1>2, <1>6, <1>7, FS_CardinalityType, Zenon DEF HashStable
  <2> QED
    BY <2>1, TwoMembers
<1>12. \A a, b \in succeeded : a.body = b.body
  <2>1. IsFiniteSet({r.body : r \in succeeded})
    <3> DEFINE T == {r.body : r \in succeeded}
               F == [r \in succeeded |-> r.body]
    <3>1. F \in Surjection(succeeded, T)
      BY Zenon DEF Surjection
    <3> HIDE DEF F
    <3> QED
      BY <1>7, <3>1, FS_Surjection, Zenon
  <2>2. Cardinality({r.body : r \in succeeded}) = 1
    BY <1>2, <1>6, Zenon DEF HashStable
  <2> DEFINE values == {r.body : r \in succeeded}
  <2> SUFFICES ASSUME NEW a \in succeeded, NEW b \in succeeded
               PROVE  a.body = b.body
    BY Zenon
  <2>3. a.body \in values /\ b.body \in values
    BY Zenon
  <2>4. IsFiniteSet(values) /\ Cardinality(values) = 1
    BY <2>1, <2>2, Zenon
  <2> HIDE DEF values
  <2> QED
    BY <2>3, <2>4, OneForAll, Zenon
<1>13. \A a, b \in recent : a.found.doh # "" /\ b.found.doh # "" => a.found.doh = b.found.doh
  <2> DEFINE answered == {r \in recent : r.found.doh # ""}
  <2>1. IsFiniteSet(answered)
    BY <1>7, FS_Subset, Zenon
  <2>2. IsFiniteSet({r.found.doh : r \in answered})
    <3> HIDE DEF answered
    <3> DEFINE T == {r.found.doh : r \in answered}
               F == [r \in answered |-> r.found.doh]
    <3>1. F \in Surjection(answered, T)
      BY Zenon DEF Surjection
    <3> HIDE DEF F
    <3> QED
      BY <2>1, <3>1, FS_Surjection, Zenon
  <2>3. Cardinality({r.found.doh : r \in answered}) = 1
    BY <1>2, <1>5, Zenon DEF DohStable, DohSets
  <2> SUFFICES ASSUME NEW a \in answered, NEW b \in answered
               PROVE  a.found.doh = b.found.doh
    BY Zenon
  <2> DEFINE values == {r.found.doh : r \in answered}
  <2> HIDE DEF answered
  <2>4. a.found.doh \in values /\ b.found.doh \in values
    BY Zenon
  <2>5. IsFiniteSet(values) /\ Cardinality(values) = 1
    BY <2>2, <2>3, Zenon
  <2> HIDE DEF values
  <2> QED
    BY <2>4, <2>5, OneForAll
<1> QED
  BY <1>10, <1>11, <1>12, <1>13, Zenon DEF recent, failed, succeeded, Backed

\* Results of either side and the clock keep EvidenceInv.
LEMMA EvidenceStep ==
  ASSUME EvidenceInv, [IspNext]_ispVars
  PROVE  EvidenceInv'
<1>1. ASSUME NEW kind \in LocalKinds, LocalResult(kind)
      PROVE  EvidenceInv'
  <2> DEFINE n == Cardinality(localResults)
             new == [run |-> n + 1, at |-> ispTime, found |-> kind]
  <2>1. localResults' = localResults \cup {new} /\ UNCHANGED <<ispTime, remoteResults>>
    BY <1>1, Zenon DEF LocalResult
  <2>2. n \in Nat
    BY FS_CardinalityType, Zenon DEF EvidenceInv
  <2>3. new \in LocalTypes /\ new.run = n + 1
    BY <2>2 DEF EvidenceInv, LocalTypes
  <2>4. \A r \in localResults : r.run <= n /\ r.run \in Nat
    BY Zenon DEF EvidenceInv, LocalTypes
  <2> HIDE DEF new, n
  <2>5. new \notin localResults
    BY <2>2, <2>3, <2>4
  <2>6. IsFiniteSet(localResults') /\ Cardinality(localResults') = n + 1
    BY <2>1, <2>5, FS_AddElement, Zenon DEF EvidenceInv, n
  <2>7. \A r \in localResults' : r.run <= n + 1
    BY <2>1, <2>2, <2>3, <2>4
  <2>8. \A r, s \in localResults' : r.run = s.run => r = s
    BY <2>1, <2>2, <2>3, <2>4 DEF EvidenceInv
  <2> QED
    BY <2>1, <2>3, <2>6, <2>7, <2>8 DEF EvidenceInv
<1>2. ASSUME NEW l \in localResults, NEW active \in BOOLEAN, NEW healthy \in BOOLEAN, NEW body \in RemoteBodies,
             RemoteResult(l, active, body, healthy)
      PROVE  EvidenceInv'
  <2> DEFINE new == [id |-> Cardinality(remoteResults) + 1, run |-> l.run, at |-> ispTime, active |-> active, body |-> body]
  <2>1. remoteResults' = remoteResults \cup {new} /\ UNCHANGED <<ispTime, localResults>>
    BY <1>2, Zenon DEF RemoteResult
  <2>2. Cardinality(remoteResults) \in Nat /\ l.run \in Nat /\ ispTime \in Nat
    BY FS_CardinalityType, Zenon DEF EvidenceInv, LocalTypes
  <2>3. new \in RemoteTypes
    BY <2>2 DEF RemoteTypes
  <2> HIDE DEF new
  <2>4. IsFiniteSet(remoteResults')
    BY <2>1, FS_AddElement, Zenon DEF EvidenceInv
  <2> QED
    BY <2>1, <2>3, <2>4, Zenon DEF EvidenceInv
<1>3. CASE IspTick
  BY <1>3 DEF IspTick, EvidenceInv
<1>4. CASE UNCHANGED ispVars
  BY <1>4, Zenon DEF ispVars, EvidenceInv
<1>5. ASSUME NEW active \in BOOLEAN,
             NEW body \in IF active THEN RemoteBodies ELSE {CHOOSE b \in RemoteBodies : TRUE}
      PROVE  body \in RemoteBodies
  BY IspEvidenceAssumption, Zenon
<1> QED
  BY <1>1, <1>2, <1>3, <1>4, <1>5, Zenon DEF IspNext

\* A domain becomes a HIGH_CONFIDENCE_BLOCK only on fresh evidence: three unrequested local failures not
\* all of one moment, two remote successes with one body and no other, and one answer over HTTPS throughout.
THEOREM BlockCorrect == IspSpec => BlockIsBacked
<1>1. IspInit => EvidenceInv
  BY FS_EmptySet DEF IspInit, EvidenceInv
<1>2. EvidenceInv /\ [IspNext]_ispVars => EvidenceInv'
  BY EvidenceStep, Zenon
<1> DEFINE Judged == isp' = "HIGH_CONFIDENCE_BLOCK" /\ isp # isp' => Backed
<1>3. EvidenceInv /\ [IspNext]_ispVars => [Judged]_ispVars
  <2> SUFFICES ASSUME EvidenceInv, IspNext, isp' = "HIGH_CONFIDENCE_BLOCK", isp # isp'
               PROVE  Backed
    BY Zenon
  <2>1. PICK l \in localResults, active \in BOOLEAN, healthy \in BOOLEAN :
          \E body \in RemoteBodies : RemoteResult(l, active, body, healthy)
    BY IspEvidenceAssumption, Zenon DEF IspNext, LocalResult, IspTick
  <2>2. EvidenceInv'
    BY EvidenceStep, Zenon
  <2> QED
    BY <2>1, <2>2, JudgementIsBacked, Zenon
<1> HIDE DEF Judged
<1>4. IspSpec => [][Judged]_ispVars
  BY <1>1, <1>2, <1>3, PTL DEF IspSpec
<1> QED
  BY <1>4, Zenon DEF Judged, BlockIsBacked

-----------------------------------------------------------------------------
(***************************************************************************)
(* UptimeHistory.  The aggregate is computed by a loop over rows; that it  *)
(* is exact is shown by induction on the rows the loop has seen, in the    *)
(* form of a least counterexample.                                         *)
(***************************************************************************)
\* Rows have their types, are finitely many and have different ids.
UptimeInv ==
  /\ UptimeTypeOK /\ IsFiniteSet(uptimeRows)
  /\ \A r, s \in uptimeRows : r.id = s.id => r = s

\* Every step keeps UptimeInv.
LEMMA UptimeStep ==
  ASSUME UptimeInv, [UptimeNext]_uptimeVars
  PROVE  UptimeInv'
<1> USE UptimeAssumption
<1>1. ASSUME NEW id \in UptimeIds, NEW value \in KnownStates, NEW lag \in 0 .. CheckLag, AvailabilityChanges(id, value, lag)
      PROVE  UptimeInv'
  <2> DEFINE new == [id |-> id, at |-> uptimeNow - lag, dimension |-> "availability", value |-> value]
  <2>1. new \in UptimeRows /\ new.id = id
    BY <1>1 DEF UptimeInv, UptimeTypeOK, UptimeRows, AvailabilityChanges
  <2>2. uptimeRows' = uptimeRows \cup {new} /\ uptimeState' = value /\ uptimeNow' = uptimeNow /\ FreeUptimeId(id)
    BY <1>1, Zenon DEF AvailabilityChanges
  <2> HIDE DEF new
  <2>3. UptimeTypeOK'
    BY <2>1, <2>2, Zenon DEF UptimeInv, UptimeTypeOK
  <2>4. IsFiniteSet(uptimeRows')
    BY <2>2, FS_AddElement, Zenon DEF UptimeInv
  <2>5. \A r, s \in uptimeRows' : r.id = s.id => r = s
    BY <2>1, <2>2, Zenon DEF UptimeInv, FreeUptimeId
  <2> QED
    BY <2>3, <2>4, <2>5, Zenon DEF UptimeInv
<1>2. ASSUME NEW id \in UptimeIds, IspChanges(id)
      PROVE  UptimeInv'
  <2> DEFINE new == [id |-> id, at |-> uptimeNow, dimension |-> "isp", value |-> "UNKNOWN"]
  <2>1. new \in UptimeRows /\ new.id = id
    BY Zenon DEF UptimeInv, UptimeTypeOK, UptimeRows
  <2>2. uptimeRows' = uptimeRows \cup {new} /\ uptimeState' = uptimeState /\ uptimeNow' = uptimeNow /\ FreeUptimeId(id)
    BY <1>2, Zenon DEF IspChanges
  <2> HIDE DEF new
  <2>3. UptimeTypeOK'
    BY <2>1, <2>2, Zenon DEF UptimeInv, UptimeTypeOK
  <2>4. IsFiniteSet(uptimeRows')
    BY <2>2, FS_AddElement, Zenon DEF UptimeInv
  <2>5. \A r, s \in uptimeRows' : r.id = s.id => r = s
    BY <2>1, <2>2, Zenon DEF UptimeInv, FreeUptimeId
  <2> QED
    BY <2>3, <2>4, <2>5, Zenon DEF UptimeInv
<1>3. ASSUME UptimeTick
      PROVE  UptimeInv'
  BY <1>3 DEF UptimeTick, UptimeInv, UptimeTypeOK
<1>4. ASSUME UNCHANGED uptimeVars
      PROVE  UptimeInv'
  BY <1>4, Zenon DEF uptimeVars, UptimeInv, UptimeTypeOK
<1> QED
  BY <1>1, <1>2, <1>3, <1>4, Zenon DEF UptimeNext

\* Every non-empty set of naturals has a least member.
LEMMA LeastNatural ==
  ASSUME NEW T, T \subseteq Nat, T # {}
  PROVE  \E x \in T : \A y \in T : x <= y
<1>1. PICK x \in T : \A y \in T : ~(<<y, x>> \in OpToRel(<, Nat))
  BY WFMin, NatLessThanWellFounded, Zenon
<1>2. \A y \in T : ~(y < x)
  BY <1>1, Zenon DEF OpToRel
<1> QED
  BY <1>2

\* What holds at 0 and is handed on up to n holds at n: the steps of a loop.
LEMMA UpTo ==
  ASSUME NEW n \in Nat, NEW Good, 0 \in Good, \A k \in 0 .. n : k < n /\ k \in Good => k + 1 \in Good
  PROVE  0 .. n \subseteq Good
<1> DEFINE Bad == (0 .. n) \ Good
<1> SUFFICES ASSUME Bad # {}
             PROVE  FALSE
  BY Zenon
<1>1. Bad \subseteq Nat
  OBVIOUS
<1>2. PICK x \in Bad : \A y \in Bad : x <= y
  <2> HIDE DEF Bad
  <2> QED
    BY <1>1, LeastNatural, Zenon
<1>3. x # 0 /\ x - 1 \in 0 .. n /\ x - 1 < n
  BY <1>2
<1>4. x - 1 \in Good
  BY <1>2, <1>3
<1> QED
  BY <1>2, <1>3, <1>4

\* ORDER BY effective_at, id orders the rows.
LEMMA RowsAreOrdered ==
  ASSUME UptimeInv
  PROVE  /\ \A r, s \in uptimeRows : Earlier(r, s) \/ Earlier(s, r) \/ r = s
         /\ \A r, s \in uptimeRows : ~(Earlier(r, s) /\ Earlier(s, r))
         /\ \A r, s, q \in uptimeRows : Earlier(r, s) /\ Earlier(s, q) => Earlier(r, q)
         /\ \A r, s \in uptimeRows : Earlier(r, s) => r.at <= s.at
         /\ \A r \in uptimeRows : r.at \in Nat
<1>1. \A r \in uptimeRows : r.at \in Nat /\ r.id \in Nat
  <2>1. uptimeRows \subseteq UptimeRows
    BY Zenon DEF UptimeInv, UptimeTypeOK
  <2>2. \A r \in UptimeRows : r.at \in 0 .. UptimeHorizon /\ r.id \in UptimeIds
    BY Zenon DEF UptimeRows
  <2> HIDE DEF UptimeRows
  <2>3. 0 .. UptimeHorizon \subseteq Nat /\ UptimeIds \subseteq Nat
    BY UptimeAssumption
  <2> QED
    BY <2>1, <2>2, <2>3, Zenon
<1>2. \A r, s \in uptimeRows : r.id = s.id => r = s
  BY Zenon DEF UptimeInv
<1>3. ASSUME NEW r \in uptimeRows, NEW s \in uptimeRows
      PROVE  /\ Earlier(r, s) \/ Earlier(s, r) \/ r = s
             /\ ~(Earlier(r, s) /\ Earlier(s, r))
             /\ Earlier(r, s) => r.at <= s.at
  <2> DEFINE a == r.at
             b == s.at
             i == r.id
             j == s.id
  <2>1. a \in Nat /\ b \in Nat /\ i \in Nat /\ j \in Nat /\ (i = j => r = s)
    BY <1>1, <1>2, Zenon
  <2>2. Earlier(r, s) <=> (a < b \/ (a = b /\ i < j))
    BY Zenon DEF Earlier
  <2>3. Earlier(s, r) <=> (b < a \/ (b = a /\ j < i))
    BY Zenon DEF Earlier
  <2> HIDE DEF a, b, i, j
  <2>4. a < b \/ b < a \/ (a = b /\ (i < j \/ j < i \/ i = j))
    BY <2>1
  <2>5. Earlier(r, s) => a <= b
    BY <2>1, <2>2
  <2>6. Earlier(r, s) \/ Earlier(s, r) \/ r = s
    BY <2>1, <2>2, <2>3, <2>4, Zenon
  <2>7. ~(Earlier(r, s) /\ Earlier(s, r))
    BY <2>1, <2>2, <2>3
  <2> QED
    BY <2>5, <2>6, <2>7, Zenon DEF a, b
<1>4. ASSUME NEW r \in uptimeRows, NEW s \in uptimeRows, NEW q \in uptimeRows, Earlier(r, s), Earlier(s, q)
      PROVE  Earlier(r, q)
  BY <1>1, <1>4 DEF Earlier
<1> QED
  BY <1>1, <1>3, <1>4, Zenon

\* The place of a row among others: the number of those before it.
Place(r, S) == Cardinality({s \in S : Earlier(s, r)})

\* Places are those of a numbering from 0 in the order of the rows.
LEMMA PlacesNumber ==
  ASSUME UptimeInv, NEW S, S \subseteq uptimeRows
  PROVE  /\ IsFiniteSet(S) /\ Cardinality(S) \in Nat
         /\ \A r \in S : Place(r, S) \in 0 .. Cardinality(S) - 1
         /\ \A r, q \in S : Place(r, S) < Place(q, S) => Earlier(r, q)
         /\ \A r, q \in S : Place(r, S) = Place(q, S) => r = q
         /\ \A k \in 0 .. Cardinality(S) - 1 : \E r \in S : Place(r, S) = k
<1> DEFINE n == Cardinality(S)
           before(r) == {s \in S : Earlier(s, r)}
<1>1. IsFiniteSet(S) /\ n \in Nat
  BY FS_Subset, FS_CardinalityType, Zenon DEF UptimeInv
<1>2. ASSUME NEW r \in S
      PROVE  IsFiniteSet(before(r)) /\ Place(r, S) \in 0 .. n - 1
  <2>1. before(r) \subseteq S /\ before(r) # S
    BY RowsAreOrdered, Zenon
  <2>2. IsFiniteSet(before(r)) /\ Cardinality(before(r)) <= n /\ Cardinality(before(r)) # n
    BY <1>1, <2>1, FS_Subset, Zenon
  <2>3. Cardinality(before(r)) \in Nat
    BY <2>2, FS_CardinalityType, Zenon
  <2> HIDE DEF before
  <2>4. Place(r, S) = Cardinality(before(r))
    BY Zenon DEF before, Place
  <2> QED
    BY <1>1, <2>2, <2>3, <2>4
<1>3. ASSUME NEW r \in S, NEW q \in S, Earlier(r, q)
      PROVE  Place(r, S) < Place(q, S)
  <2>1. before(r) \subseteq before(q)
    BY <1>3, RowsAreOrdered, Zenon
  <2>2. r \in before(q) /\ r \notin before(r)
    BY <1>3, RowsAreOrdered, Zenon
  <2>3. Cardinality(before(r)) <= Cardinality(before(q)) /\ Cardinality(before(r)) # Cardinality(before(q))
    <3> HIDE DEF before
    <3> QED
      BY <1>2, <2>1, <2>2, FS_Subset, Zenon
  <2>4. Place(r, S) = Cardinality(before(r)) /\ Place(q, S) = Cardinality(before(q))
    BY Zenon DEF Place
  <2> HIDE DEF before
  <2> QED
    BY <1>1, <1>2, <2>3, <2>4
<1>4. \A r, q \in S : Place(r, S) < Place(q, S) => Earlier(r, q)
  <2> SUFFICES ASSUME NEW r \in S, NEW q \in S, Place(r, S) < Place(q, S), ~Earlier(r, q)
               PROVE  FALSE
    BY Zenon
  <2>1. Place(r, S) \in 0 .. n - 1 /\ Place(q, S) \in 0 .. n - 1
    BY <1>2, Zenon
  <2>2. Earlier(q, r) \/ r = q
    BY RowsAreOrdered, Zenon
  <2>3. Place(q, S) < Place(r, S) \/ Place(q, S) = Place(r, S)
    BY <1>3, <2>2, Zenon
  <2> QED
    BY <1>1, <2>1, <2>3
<1>5. \A r, q \in S : Place(r, S) = Place(q, S) => r = q
  <2> SUFFICES ASSUME NEW r \in S, NEW q \in S, Place(r, S) = Place(q, S), r # q
               PROVE  FALSE
    BY Zenon
  <2>1. Earlier(r, q) \/ Earlier(q, r)
    BY RowsAreOrdered, Zenon
  <2>2. Place(r, S) \in 0 .. n - 1 /\ Place(q, S) \in 0 .. n - 1
    BY <1>2, Zenon
  <2>3. Place(r, S) < Place(q, S) \/ Place(q, S) < Place(r, S)
    BY <1>3, <2>1, Zenon
  <2> QED
    BY <1>1, <2>2, <2>3
<1>6. ASSUME NEW k \in 0 .. n - 1
      PROVE  \E r \in S : Place(r, S) = k
  <2> DEFINE place == [r \in S |-> Place(r, S)]
  <2>1. place \in Injection(S, 0 .. n - 1)
    <3>1. place \in [S -> 0 .. n - 1]
      BY <1>2, Zenon
    <3> QED
      BY <1>5, <3>1, Zenon DEF Injection, IsInjective
  <2>2. IsFiniteSet(0 .. n - 1) /\ Cardinality(0 .. n - 1) = n
    BY <1>1, FS_Interval
  <2> HIDE DEF n
  <2>3. place \in Surjection(S, 0 .. n - 1)
    <3> HIDE DEF place
    <3> QED
      BY <2>1, <2>2, FS_Injection, Zenon DEF n
  <2> QED
    BY <2>3, Zenon DEF Surjection
<1> QED
  BY <1>1, <1>2, <1>4, <1>5, <1>6, Zenon

\* The rows the query returns: in order, without gaps, and all of them if the limit allows.
LEMMA TimelineInOrder ==
  ASSUME UptimeInv, NEW since, NEW until
  PROVE  LET timeline == Timeline(since, until) IN
         /\ Len(timeline) \in Nat
         /\ \A k \in 1 .. Len(timeline) : timeline[k] \in InWindow(since, until)
         /\ \A i, k \in 1 .. Len(timeline) : i < k => Earlier(timeline[i], timeline[k])
         /\ Cardinality(InWindow(since, until)) <= HistoryLimit =>
              \A r \in InWindow(since, until) : \E k \in 1 .. Len(timeline) : timeline[k] = r
<1> DEFINE all == InWindow(since, until)
           n == Cardinality(all)
           length == IF n < HistoryLimit THEN n ELSE HistoryLimit
           timeline == [k \in 1 .. length |-> CHOOSE r \in all : Place(r, all) = k - 1]
<1>1. Timeline(since, until) = timeline
  BY Zenon DEF Timeline, Place
<1>2. all \subseteq uptimeRows
  BY Zenon DEF InWindow
<1> HIDE DEF all
<1>3. /\ n \in Nat
      /\ \A r \in all : Place(r, all) \in 0 .. n - 1
      /\ \A r, q \in all : Place(r, all) < Place(q, all) => Earlier(r, q)
      /\ \A r, q \in all : Place(r, all) = Place(q, all) => r = q
      /\ \A k \in 0 .. n - 1 : \E r \in all : Place(r, all) = k
  BY <1>2, PlacesNumber, Zenon
<1> HIDE DEF n
<1>4. length \in Nat /\ length <= n /\ (n <= HistoryLimit => length = n)
  BY <1>3, UptimeAssumption
<1> HIDE DEF length
<1>5. ASSUME NEW k \in 1 .. length
      PROVE  timeline[k] \in all /\ Place(timeline[k], all) = k - 1
  <2>1. k - 1 \in 0 .. n - 1
    BY <1>3, <1>4
  <2>2. \E r \in all : Place(r, all) = k - 1
    BY <1>3, <2>1, Zenon
  <2>3. timeline[k] = CHOOSE r \in all : Place(r, all) = k - 1
    BY Zenon
  <2> HIDE DEF timeline
  <2> QED
    BY <2>2, <2>3, Zenon
<1>6. Len(timeline) = length
  BY <1>4
<1> HIDE DEF timeline
<1>7. ASSUME NEW i \in 1 .. length, NEW k \in 1 .. length, i < k
      PROVE  Earlier(timeline[i], timeline[k])
  <2>1. i - 1 < k - 1
    BY <1>4, <1>7
  <2>2. Place(timeline[i], all) < Place(timeline[k], all)
    BY <1>5, <2>1, Zenon
  <2> QED
    BY <1>3, <1>5, <2>2, Zenon
<1>8. ASSUME n <= HistoryLimit, NEW r \in all
      PROVE  \E k \in 1 .. length : timeline[k] = r
  <2> DEFINE k == Place(r, all) + 1
  <2>1. Place(r, all) \in 0 .. n - 1
    BY <1>3, Zenon
  <2>2. k \in 1 .. length /\ k - 1 = Place(r, all)
    BY <1>3, <1>4, <1>8, <2>1
  <2> HIDE DEF k
  <2>3. timeline[k] \in all /\ Place(timeline[k], all) = Place(r, all)
    BY <1>5, <2>2, Zenon
  <2> QED
    BY <1>3, <2>2, <2>3, Zenon
<1> QED
  BY <1>1, <1>4, <1>5, <1>6, <1>7, <1>8, Zenon DEF all, n

\* The sums of the loop exist: the recursive function of HistoryAggregate is well-defined.
Loops(sum, n, since, timeline) ==
  sum = [k \in 0 .. n |-> IF k = 0 THEN EmptySum(since) ELSE AddEntry(sum[k - 1], timeline[k])]

LEMMA LoopEnds ==
  ASSUME NEW n \in Nat, NEW since, NEW timeline
  PROVE  \E sum : Loops(sum, n, since, timeline)
<1> DEFINE Good == {k \in Nat : \E sum : Loops(sum, k, since, timeline)}
<1>1. 0 \in Good
  <2> DEFINE first == [k \in 0 .. 0 |-> EmptySum(since)]
  <2>1. Loops(first, 0, since, timeline)
    BY DEF Loops
  <2> QED
    BY <2>1, Zenon
<1>2. ASSUME NEW k \in 0 .. n, k < n, k \in Good
      PROVE  k + 1 \in Good
  <2>1. PICK sum : Loops(sum, k, since, timeline)
    BY <1>2, Zenon
  <2> DEFINE next == [i \in 0 .. k + 1 |-> IF i = k + 1 THEN AddEntry(sum[k], timeline[k + 1]) ELSE sum[i]]
             again == [i \in 0 .. k + 1 |-> IF i = 0 THEN EmptySum(since) ELSE AddEntry(next[i - 1], timeline[i])]
  <2>2. ASSUME NEW i \in 0 .. k + 1
        PROVE  next[i] = again[i]
    <3>1. CASE i = k + 1
      <4>1. next[i] = AddEntry(sum[k], timeline[k + 1])
        BY <3>1, Zenon
      <4>2. i # 0 /\ i - 1 = k /\ k # k + 1 /\ k \in 0 .. k + 1
        BY <3>1
      <4>3. next[k] = sum[k]
        BY <4>2, Zenon
      <4>4. again[i] = AddEntry(next[k], timeline[k + 1])
        BY <3>1, <4>2, Zenon
      <4> QED
        BY <4>1, <4>3, <4>4, Zenon
    <3>2. CASE i # k + 1
      <4>1. i \in 0 .. k
        BY <3>2
      <4>2. next[i] = sum[i]
        BY <3>2, Zenon
      <4>3. sum[i] = IF i = 0 THEN EmptySum(since) ELSE AddEntry(sum[i - 1], timeline[i])
        BY <2>1, <4>1, Zenon DEF Loops
      <4>4. i # 0 => next[i - 1] = sum[i - 1]
        BY <4>1
      <4>5. again[i] = IF i = 0 THEN EmptySum(since) ELSE AddEntry(next[i - 1], timeline[i])
        BY Zenon
      <4> HIDE DEF next, again
      <4> QED
        BY <4>2, <4>3, <4>4, <4>5, Zenon
    <3> QED
      BY <3>1, <3>2, Zenon
  <2>3. next = again
    <3>1. next = [i \in 0 .. k + 1 |-> next[i]]
      BY Zenon
    <3>2. again = [i \in 0 .. k + 1 |-> again[i]]
      OBVIOUS
    <3> HIDE DEF next, again
    <3> QED
      BY <2>2, <3>1, <3>2, Zenon
  <2>4. Loops(next, k + 1, since, timeline)
    <3> HIDE DEF next
    <3> QED
      BY <2>3, Zenon DEF Loops
  <2>5. k + 1 \in Nat
    OBVIOUS
  <2> HIDE DEF next
  <2> QED
    BY <2>4, <2>5, Zenon
<1> HIDE DEF Good
<1>3. 0 .. n \subseteq Good
  BY <1>1, <1>2, UpTo, Zenon
<1> QED
  BY <1>3 DEF Good

\* The aggregate is what the loop leaves behind, with the time since the last change added.
LEMMA AggregateIsLoop ==
  ASSUME UptimeInv, NEW since, NEW until
  PROVE  LET timeline == Timeline(since, until) IN
         \E sum : /\ Loops(sum, Len(timeline), since, timeline)
                  /\ LET end == sum[Len(timeline)]
                     IN HistoryAggregate(since, until) = AccumulateState(end.seconds, end.state, end.cursor, until)
<1> DEFINE timeline == Timeline(since, until)
           sum == CHOOSE f : Loops(f, Len(timeline), since, timeline)
<1>1. Len(timeline) \in Nat
  BY TimelineInOrder, Zenon
<1>2. HistoryAggregate(since, until)
        = AccumulateState(sum[Len(timeline)].seconds, sum[Len(timeline)].state, sum[Len(timeline)].cursor, until)
  BY Zenon DEF HistoryAggregate, Loops
<1>3. Loops(sum, Len(timeline), since, timeline)
  <2> HIDE DEF timeline
  <2>1. \E f : Loops(f, Len(timeline), since, timeline)
    BY <1>1, LoopEnds, Zenon
  <2> QED
    BY <2>1, Zenon
<1> HIDE DEF sum
<1> QED
  BY <1>2, <1>3, Zenon

\* Seconds per state, and what a span adds to those of a state.
Tallies == [KnownStates -> Nat]
Added(s, state, span) == IF s = state THEN span ELSE 0

\* accumulateState adds the time between two instants to one state, or to none.
LEMMA AccumulateAdds ==
  ASSUME NEW seconds \in Tallies, NEW state, NEW from \in Nat, NEW to \in Nat, from <= to
  PROVE  /\ AccumulateState(seconds, state, from, to) \in Tallies
         /\ KnownSeconds(AccumulateState(seconds, state, from, to)) <= KnownSeconds(seconds) + (to - from)
         /\ \A s \in KnownStates : AccumulateState(seconds, state, from, to)[s] = seconds[s] + Added(s, state, to - from)
<1> DEFINE new == AccumulateState(seconds, state, from, to)
<1>1. \A s \in KnownStates : new[s] = seconds[s] + Added(s, state, to - from)
  BY DEF AccumulateState, Tallies, Added
<1>2. new \in Tallies
  BY DEF AccumulateState, Tallies, Added
<1> HIDE DEF new
<1>3. "ACTIVE" \in KnownStates /\ "DEGRADED" \in KnownStates /\ "UNAVAILABLE" \in KnownStates
  BY Zenon DEF KnownStates
<1>4. /\ seconds["ACTIVE"] \in Nat /\ seconds["DEGRADED"] \in Nat /\ seconds["UNAVAILABLE"] \in Nat
      /\ new["ACTIVE"] = seconds["ACTIVE"] + Added("ACTIVE", state, to - from)
      /\ new["DEGRADED"] = seconds["DEGRADED"] + Added("DEGRADED", state, to - from)
      /\ new["UNAVAILABLE"] = seconds["UNAVAILABLE"] + Added("UNAVAILABLE", state, to - from)
  BY <1>1, <1>3, Zenon DEF Tallies
<1>5. KnownSeconds(new) <= KnownSeconds(seconds) + (to - from)
  BY <1>4 DEF KnownSeconds, Added
<1> QED
  BY <1>1, <1>2, <1>5, Zenon DEF new

\* The known seconds are a number.
LEMMA KnownIsNat ==
  ASSUME NEW seconds \in Tallies
  PROVE  KnownSeconds(seconds) \in Nat
<1>1. "ACTIVE" \in KnownStates /\ "DEGRADED" \in KnownStates /\ "UNAVAILABLE" \in KnownStates
  BY Zenon DEF KnownStates
<1>2. seconds["ACTIVE"] \in Nat /\ seconds["DEGRADED"] \in Nat /\ seconds["UNAVAILABLE"] \in Nat
  BY <1>1, Zenon DEF Tallies
<1> QED
  BY <1>2 DEF KnownSeconds

\* The instants of a span that were spent in a state.
Spent(from, to, s) == {t \in from .. to - 1 : StateAt(t) = s}

\* If the state does not change between two instants, the time between is spent in it.
LEMMA SpentGrows ==
  ASSUME NEW from \in Nat, NEW mid \in Nat, NEW to \in Nat, from <= mid, mid <= to,
         NEW state, \A t \in mid .. to - 1 : StateAt(t) = state, NEW s
  PROVE  /\ Cardinality(Spent(from, mid, s)) \in Nat
         /\ Cardinality(Spent(from, to, s)) = Cardinality(Spent(from, mid, s)) + Added(s, state, to - mid)
<1> DEFINE old == Spent(from, mid, s)
           more == IF s = state THEN mid .. to - 1 ELSE {}
<1>1. Spent(from, to, s) = old \cup more
  BY DEF Spent
<1>2. old \cap more = {}
  BY DEF Spent
<1>3. IsFiniteSet(old)
  <2>1. old \subseteq from .. mid - 1
    BY Zenon DEF Spent
  <2> HIDE DEF old
  <2>2. IsFiniteSet(from .. mid - 1)
    BY FS_Interval
  <2> QED
    BY <2>1, <2>2, FS_Subset, Zenon
<1>4. IsFiniteSet(more) /\ Cardinality(more) = IF s = state THEN to - mid ELSE 0
  <2>1. IsFiniteSet(mid .. to - 1) /\ Cardinality(mid .. to - 1) = to - mid
    <3> DEFINE top == to - 1
    <3>1. mid \in Int /\ top \in Int
      OBVIOUS
    <3> HIDE DEF top
    <3>2. IsFiniteSet(mid .. top) /\ Cardinality(mid .. top) = IF mid > top THEN 0 ELSE top - mid + 1
      BY <3>1, FS_Interval, Zenon
    <3> QED
      BY <3>2 DEF top
  <2>2. IsFiniteSet({}) /\ Cardinality({}) = 0
    BY FS_EmptySet, Zenon
  <2> QED
    BY <2>1, <2>2, Zenon
<1>5. Cardinality(old) \in Nat
  BY <1>3, FS_CardinalityType, Zenon
<1> HIDE DEF old, more
<1>6. Cardinality(old \cup more) = Cardinality(old) + Cardinality(more)
  <2>1. Cardinality(old \cup more) = Cardinality(old) + Cardinality(more) - Cardinality(old \cap more)
    BY <1>3, <1>4, FS_Union, Zenon
  <2>2. Cardinality(old \cap more) = 0
    BY <1>2, FS_EmptySet, Zenon
  <2>3. Cardinality(more) \in Nat
    BY <1>4, FS_CardinalityType, Zenon
  <2> QED
    BY <1>5, <2>1, <2>2, <2>3
<1> QED
  BY <1>1, <1>4, <1>5, <1>6, Zenon DEF old, Added

\* The limit of the query lets all rows of the window through.
Unlimited(since, until) == Cardinality(InWindow(since, until)) <= HistoryLimit

\* Three instants in order, and a stretch of time without a change of state.
Ordered(since, from, to) == since \in Nat /\ from \in Nat /\ to \in Nat /\ since <= from /\ from <= to
Still(from, to, state) == \A t \in from .. to - 1 : StateAt(t) = state

\* The seconds are those spent in each state up to an instant.
Exact(seconds, to, since, until) ==
  /\ seconds \in Tallies
  /\ KnownSeconds(seconds) <= to - since
  /\ Unlimited(since, until) => \A s \in KnownStates : seconds[s] = Cardinality(Spent(since, to, s))

\* accumulateState keeps the seconds exact over a stretch of time without a change of state.
LEMMA AccumulateKeepsExact ==
  ASSUME NEW since, NEW until, NEW from, NEW to, NEW seconds, NEW state, Ordered(since, from, to),
         Exact(seconds, from, since, until), Unlimited(since, until) => Still(from, to, state)
  PROVE  Exact(AccumulateState(seconds, state, from, to), to, since, until)
<1> DEFINE new == AccumulateState(seconds, state, from, to)
<1>1. since \in Nat /\ from \in Nat /\ to \in Nat /\ since <= from /\ from <= to
  BY Zenon DEF Ordered
<1>2. seconds \in Tallies /\ KnownSeconds(seconds) <= from - since
  BY Zenon DEF Exact
<1>3. /\ new \in Tallies
      /\ KnownSeconds(new) <= KnownSeconds(seconds) + (to - from)
      /\ \A s \in KnownStates : new[s] = seconds[s] + Added(s, state, to - from)
  BY <1>1, <1>2, AccumulateAdds
<1> HIDE DEF new
<1>4. KnownSeconds(new) \in Nat /\ KnownSeconds(seconds) \in Nat
  BY <1>2, <1>3, KnownIsNat, Zenon
<1>5. KnownSeconds(new) <= to - since
  BY <1>1, <1>2, <1>3, <1>4
<1>6. ASSUME Unlimited(since, until), NEW s \in KnownStates
      PROVE  new[s] = Cardinality(Spent(since, to, s))
  <2>1. seconds[s] = Cardinality(Spent(since, from, s))
    BY <1>6, Zenon DEF Exact
  <2>2. \A t \in from .. to - 1 : StateAt(t) = state
    BY <1>6, Zenon DEF Still
  <2>3. Cardinality(Spent(since, to, s)) = Cardinality(Spent(since, from, s)) + Added(s, state, to - from)
    BY <1>1, <2>2, SpentGrows
  <2> QED
    BY <1>3, <2>1, <2>3, Zenon
<1>7. Exact(new, to, since, until)
  BY <1>3, <1>5, <1>6, Zenon DEF Exact
<1> QED
  BY <1>7, Zenon DEF new

\* The last of some rows and one that is later than all of them is that one.
LEMMA LastIsLatest ==
  ASSUME UptimeInv, NEW A, A \subseteq uptimeRows, NEW r \in uptimeRows, \A a \in A : Earlier(a, r)
  PROVE  LastValue(A \cup {r}) = r.value
<1> DEFINE last == CHOOSE x \in A \cup {r} : \A y \in A \cup {r} : y = x \/ Earlier(y, x)
<1>1. \A y \in A \cup {r} : y = r \/ Earlier(y, r)
  BY Zenon
<1>2. last \in A \cup {r} /\ \A y \in A \cup {r} : y = last \/ Earlier(y, last)
  BY <1>1, Zenon
<1> HIDE DEF last
<1>3. last = r
  BY <1>2, RowsAreOrdered, Zenon
<1>4. LastValue(A \cup {r}) = last.value
  BY Zenon DEF LastValue, last
<1> QED
  BY <1>3, <1>4, Zenon

\* The changes of availability the loop knows of after k rows of the timeline.
Known(k, since, timeline) ==
  {r \in uptimeRows : r.dimension = "availability" /\ r.at < since}
  \cup {r \in uptimeRows : r.dimension = "availability" /\ \E i \in 1 .. k : timeline[i] = r}

\* The invariant of the loop: the cursor lies between the changes it has seen and the rows that
\* follow, the state is that of the last change, and the seconds are those spent up to the cursor.
LoopInv(x, k, since, until) ==
  LET timeline == Timeline(since, until) IN
  /\ x.cursor \in Nat /\ since <= x.cursor /\ x.cursor <= until
  /\ \A i \in 1 .. k : timeline[i].dimension = "availability" => timeline[i].at <= x.cursor
  /\ \A i \in k + 1 .. Len(timeline) : x.cursor <= timeline[i].at
  /\ x.state = LastValue(Known(k, since, timeline))
  /\ Exact(x.seconds, x.cursor, since, until)

\* An instant no later than the row that follows the k-th, or than the end of the window.
Upcoming(to, k, since, until) ==
  LET timeline == Timeline(since, until) IN
  /\ k \in 0 .. Len(timeline) /\ to \in Nat /\ to <= until
  /\ k < Len(timeline) => to <= timeline[k + 1].at

\* Between the cursor and the next row nothing changes.
LEMMA NothingBetween ==
  ASSUME UptimeInv, NEW since \in Nat, NEW until \in Nat, NEW x, NEW k, LoopInv(x, k, since, until),
         Unlimited(since, until), NEW to, Upcoming(to, k, since, until)
  PROVE  Still(x.cursor, to, x.state)
<1> DEFINE timeline == Timeline(since, until)
           n == Len(timeline)
           cursor == x.cursor
<1>1. n \in Nat
  BY TimelineInOrder, Zenon
<1>2. \A i \in 1 .. n : timeline[i] \in InWindow(since, until)
  BY TimelineInOrder, Zenon
<1>3. \A i, j \in 1 .. n : i < j => Earlier(timeline[i], timeline[j])
  BY TimelineInOrder, Zenon
<1>4. \A r \in InWindow(since, until) : \E i \in 1 .. n : timeline[i] = r
  BY TimelineInOrder DEF Unlimited
<1>5. cursor \in Nat /\ since <= cursor
  BY Zenon DEF LoopInv
<1>6. \A i \in 1 .. k : timeline[i].dimension = "availability" => timeline[i].at <= cursor
  BY Zenon DEF LoopInv
<1>7. x.state = LastValue(Known(k, since, timeline))
  BY Zenon DEF LoopInv
<1>8. k \in 0 .. n /\ to \in Nat /\ to <= until
  BY Zenon DEF Upcoming
<1>9. k < n => to <= timeline[k + 1].at
  BY Zenon DEF Upcoming
<1> HIDE DEF timeline, n
<1> SUFFICES ASSUME NEW t \in cursor .. to - 1
             PROVE  StateAt(t) = x.state
  BY Zenon DEF Still
<1> HIDE DEF cursor
<1>10. t \in Nat /\ cursor <= t /\ t < to
  BY <1>5, <1>8
<1>11. \A r \in uptimeRows : r.at \in Nat
  BY RowsAreOrdered, Zenon
<1>12. ASSUME NEW r \in uptimeRows, r.dimension = "availability", r.at <= t
       PROVE  r.at < since \/ \E i \in 1 .. k : timeline[i] = r
  <2>1. r.at \in Nat
    BY <1>11, Zenon
  <2> SUFFICES ASSUME since <= r.at
               PROVE  \E i \in 1 .. k : timeline[i] = r
    BY <2>1
  <2>2. r.at <= until /\ r.at < to
    BY <1>8, <1>10, <1>12, <2>1
  <2>3. r \in InWindow(since, until)
    BY <2>2, Zenon DEF InWindow
  <2>4. PICK i \in 1 .. n : timeline[i] = r
    BY <1>4, <2>3, Zenon
  <2>5. ASSUME i > k
        PROVE  FALSE
    <3>1. k < n /\ k + 1 \in 1 .. n /\ (k + 1 = i \/ k + 1 < i)
      BY <1>1, <1>8, <2>5
    <3>2. timeline[k + 1] \in uptimeRows
      BY <1>2, <3>1, Zenon DEF InWindow
    <3>3. timeline[k + 1].at \in Nat /\ to <= timeline[k + 1].at
      BY <1>9, <1>11, <3>1, <3>2, Zenon
    <3>4. CASE k + 1 = i
      BY <1>8, <2>1, <2>2, <2>4, <3>3, <3>4
    <3>5. CASE k + 1 < i
      <4>1. Earlier(timeline[k + 1], r)
        BY <1>3, <2>4, <3>1, <3>5, Zenon
      <4>2. timeline[k + 1].at <= r.at
        BY <3>2, <4>1, RowsAreOrdered, Zenon
      <4> QED
        BY <1>8, <2>1, <2>2, <3>3, <4>2
    <3> QED
      BY <3>1, <3>4, <3>5, Zenon
  <2>6. i \in 1 .. k
    BY <1>8, <2>5
  <2> QED
    BY <2>4, <2>6, Zenon
<1>13. ASSUME NEW r \in uptimeRows, r.dimension = "availability", r.at < since \/ \E i \in 1 .. k : timeline[i] = r
       PROVE  r.at <= t
  <2>1. r.at \in Nat
    BY <1>11, Zenon
  <2>2. r.at < since \/ r.at <= cursor
    BY <1>6, <1>13, Zenon
  <2> QED
    BY <1>5, <1>10, <2>1, <2>2
<1>14. {r \in uptimeRows : r.dimension = "availability" /\ r.at <= t} = Known(k, since, timeline)
  BY <1>12, <1>13, Zenon DEF Known
<1> QED
  BY <1>7, <1>14, Zenon DEF StateAt

\* A turn of the loop keeps its invariant.
LEMMA LoopStep ==
  ASSUME UptimeInv, NEW since \in Nat, NEW until \in Nat, NEW x, NEW k \in Nat, k < Len(Timeline(since, until)),
         LoopInv(x, k, since, until)
  PROVE  LoopInv(AddEntry(x, Timeline(since, until)[k + 1]), k + 1, since, until)
<1> DEFINE timeline == Timeline(since, until)
           n == Len(timeline)
           r == timeline[k + 1]
           new == AddEntry(x, r)
           from == x.cursor
           to == r.at
           seconds == AccumulateState(x.seconds, x.state, from, to)
<1>1. n \in Nat
  BY TimelineInOrder, Zenon
<1>2. \A i \in 1 .. n : timeline[i] \in InWindow(since, until)
  BY TimelineInOrder, Zenon
<1>3. \A i, j \in 1 .. n : i < j => Earlier(timeline[i], timeline[j])
  BY TimelineInOrder, Zenon
<1>4. from \in Nat /\ since <= from /\ from <= until
  BY Zenon DEF LoopInv
<1>5. \A i \in 1 .. k : timeline[i].dimension = "availability" => timeline[i].at <= from
  BY Zenon DEF LoopInv
<1>6. \A i \in k + 1 .. n : from <= timeline[i].at
  BY Zenon DEF LoopInv
<1>7. x.state = LastValue(Known(k, since, timeline)) /\ Exact(x.seconds, from, since, until)
  BY Zenon DEF LoopInv
<1>8. k < n
  BY Zenon
<1>9. r.dimension # "availability" => new = x
  BY Zenon DEF AddEntry
<1>10. r.dimension = "availability" => new.seconds = seconds /\ new.state = r.value /\ new.cursor = to
  BY Zenon DEF AddEntry
<1> SUFFICES LoopInv(new, k + 1, since, until)
  BY Zenon
<1> HIDE DEF n, r, new, from, to, seconds
<1>11. 1 .. k + 1 = 1 .. k \cup {k + 1} /\ k + 1 \in 1 .. n /\ k + 1 \in k + 1 .. n
  BY <1>1, <1>8
<1>12. r \in uptimeRows /\ since <= to /\ to <= until /\ from <= to
  BY <1>2, <1>6, <1>11, Zenon DEF InWindow, r, to
<1>13. to \in Nat
  BY <1>12, RowsAreOrdered, Zenon DEF to
<1>14. CASE r.dimension # "availability"
  <2>1. Known(k + 1, since, timeline) = Known(k, since, timeline)
    BY <1>11, <1>14, Zenon DEF Known, r
  <2>2. \A i \in 1 .. k + 1 : timeline[i].dimension = "availability" => timeline[i].at <= from
    BY <1>5, <1>11, <1>14, Zenon DEF r
  <2>3. \A i \in (k + 1) + 1 .. n : from <= timeline[i].at
    <3>1. (k + 1) + 1 .. n \subseteq k + 1 .. n
      BY <1>1
    <3> QED
      BY <1>6, <3>1, Zenon
  <2>4. LoopInv(x, k + 1, since, until)
    <3> HIDE DEF timeline
    <3> QED
      BY <1>4, <1>7, <2>1, <2>2, <2>3, Zenon DEF LoopInv, timeline, n, from
  <2> QED
    BY <1>9, <1>14, <2>4, Zenon
<1>15. CASE r.dimension = "availability"
  <2>1. Upcoming(to, k, since, until)
    <3>1. k \in 0 .. n
      BY <1>1, <1>8
    <3> QED
      BY <1>12, <1>13, <3>1 DEF Upcoming, n, r, to
  <2>2. Ordered(since, from, to)
    BY <1>4, <1>12, <1>13, Zenon DEF Ordered
  <2>3. Unlimited(since, until) => Still(from, to, x.state)
    BY <2>1, NothingBetween, Zenon DEF from
  <2>4. Exact(seconds, to, since, until)
    BY <1>7, <2>2, <2>3, AccumulateKeepsExact, Zenon DEF seconds
  <2>5. \A i \in 1 .. k + 1 : timeline[i].dimension = "availability" => timeline[i].at <= to
    <3>1. ASSUME NEW i \in 1 .. k, timeline[i].dimension = "availability"
          PROVE  timeline[i].at <= to
      <4>1. i \in 1 .. n
        BY <1>1, <1>8
      <4>2. timeline[i].at <= from
        BY <1>5, <3>1, Zenon
      <4>3. timeline[i].at \in Nat
        BY <1>2, <4>1, RowsAreOrdered, Zenon DEF InWindow
      <4> QED
        BY <1>4, <1>12, <1>13, <4>2, <4>3
    <3>2. timeline[k + 1].at <= to
      BY <1>13 DEF r, to
    <3> QED
      BY <1>11, <3>1, <3>2, Zenon
  <2>6. ASSUME NEW i \in (k + 1) + 1 .. n
        PROVE  to <= timeline[i].at
    <3>1. i \in 1 .. n /\ k + 1 < i
      BY <1>1
    <3>2. Earlier(r, timeline[i])
      BY <1>3, <1>11, <3>1, Zenon DEF r
    <3>3. timeline[i] \in uptimeRows
      BY <1>2, <3>1, Zenon DEF InWindow
    <3> QED
      BY <1>12, <3>2, <3>3, RowsAreOrdered, Zenon DEF to
  <2>7. r.value = LastValue(Known(k + 1, since, timeline))
    <3> DEFINE A == Known(k, since, timeline)
    <3>1. Known(k + 1, since, timeline) = A \cup {r}
      BY <1>11, <1>12, <1>15 DEF Known, r
    <3>2. A \subseteq uptimeRows
      BY Zenon DEF Known
    <3>3. ASSUME NEW a \in A
          PROVE  Earlier(a, r)
      <4>1. CASE a.at < since
        <5>1. a.at \in Nat
          BY <3>2, RowsAreOrdered, Zenon
        <5>2. a.at < to
          BY <1>12, <1>13, <4>1, <5>1
        <5> QED
          BY <5>2, Zenon DEF Earlier, to
      <4>2. CASE \E i \in 1 .. k : timeline[i] = a
        <5>1. PICK i \in 1 .. k : timeline[i] = a
          BY <4>2, Zenon
        <5>2. i \in 1 .. n /\ i < k + 1
          BY <1>1, <1>8
        <5> QED
          BY <1>3, <1>11, <5>1, <5>2, Zenon DEF r
      <4> QED
        BY <4>1, <4>2, Zenon DEF Known
    <3> HIDE DEF A
    <3> QED
      BY <1>12, <3>1, <3>2, <3>3, LastIsLatest, Zenon
  <2> HIDE DEF timeline
  <2>8. /\ new.cursor \in Nat /\ since <= new.cursor /\ new.cursor <= until
        /\ Exact(new.seconds, new.cursor, since, until)
    BY <1>10, <1>12, <1>13, <1>15, <2>4, Zenon
  <2>9. new.cursor = to /\ new.state = r.value
    BY <1>10, <1>15, Zenon
  <2> QED
    BY <2>5, <2>6, <2>7, <2>8, <2>9, ZenonT(40) DEF LoopInv, timeline, n
<1> QED
  BY <1>14, <1>15, Zenon

\* The seconds of a window are exact, and within it.
LEMMA WindowIsExact ==
  ASSUME UptimeInv, NEW since \in Nat, NEW until \in Nat, since < until
  PROVE  Exact(HistoryAggregate(since, until), until, since, until)
<1> DEFINE timeline == Timeline(since, until)
           n == Len(timeline)
<1>1. n \in Nat /\ \A i \in 1 .. n : timeline[i] \in InWindow(since, until)
  BY TimelineInOrder, Zenon
<1>2. PICK sum : /\ Loops(sum, n, since, timeline)
                 /\ HistoryAggregate(since, until) = AccumulateState(sum[n].seconds, sum[n].state, sum[n].cursor, until)
  BY AggregateIsLoop, Zenon
<1>3. LoopInv(EmptySum(since), 0, since, until)
  <2> DEFINE x == EmptySum(since)
  <2>1. x.seconds = [s \in KnownStates |-> 0] /\ x.state = InitialState(since) /\ x.cursor = since
    BY Zenon DEF EmptySum
  <2> HIDE DEF x
  <2>2. x.seconds \in Tallies /\ KnownSeconds(x.seconds) = 0
    BY <2>1 DEF KnownSeconds, KnownStates, Tallies
  <2>3. Known(0, since, timeline) = {r \in uptimeRows : r.dimension = "availability" /\ r.at < since}
    BY DEF Known
  <2>4. x.state = LastValue(Known(0, since, timeline))
    BY <2>1, <2>3, Zenon DEF InitialState
  <2>5. \A i \in 0 + 1 .. n : x.cursor <= timeline[i].at
    BY <1>1, <2>1 DEF InWindow
  <2>6. \A s \in KnownStates : x.seconds[s] = Cardinality(Spent(since, x.cursor, s))
    <3>1. \A s \in KnownStates : Spent(since, since, s) = {}
      BY DEF Spent
    <3> QED
      BY <2>1, <3>1, FS_EmptySet, Zenon
  <2>7. \A i \in 1 .. 0 : timeline[i].dimension = "availability" => timeline[i].at <= x.cursor
    OBVIOUS
  <2>8. Exact(x.seconds, x.cursor, since, until)
    <3>1. KnownSeconds(x.seconds) <= x.cursor - since
      BY <2>1, <2>2
    <3> QED
      BY <2>2, <2>6, <3>1, ZenonT(40) DEF Exact
  <2>9. x.cursor \in Nat /\ since <= x.cursor /\ x.cursor <= until
    BY <2>1
  <2> HIDE DEF timeline
  <2> QED
    BY <2>4, <2>5, <2>7, <2>8, <2>9, Zenon DEF LoopInv, timeline, x, n
<1> DEFINE Good == {k \in 0 .. n : LoopInv(sum[k], k, since, until)}
<1>4. 0 \in Good
  <2>1. sum[0] = EmptySum(since)
    BY <1>1, <1>2 DEF Loops
  <2> QED
    BY <1>1, <1>3, <2>1
<1>5. ASSUME NEW k \in 0 .. n, k < n, k \in Good
      PROVE  k + 1 \in Good
  <2>1. sum[k + 1] = AddEntry(sum[k], timeline[k + 1])
    <3> HIDE DEF timeline, n
    <3>1. k + 1 \in 0 .. n /\ k + 1 # 0 /\ (k + 1) - 1 = k
      BY <1>1, <1>5
    <3> QED
      BY <1>2, <3>1, Zenon DEF Loops
  <2>2. LoopInv(sum[k], k, since, until) /\ k \in Nat /\ k < Len(Timeline(since, until))
    BY <1>5
  <2>3. LoopInv(AddEntry(sum[k], Timeline(since, until)[k + 1]), k + 1, since, until)
    BY <2>2, LoopStep, Zenon
  <2>4. k + 1 \in 0 .. n
    BY <1>1, <1>5
  <2> QED
    BY <2>1, <2>3, <2>4, Zenon
<1> HIDE DEF Good
<1>6. n \in Good
  <2> HIDE DEF n
  <2>1. 0 .. n \subseteq Good
    BY <1>1, <1>4, <1>5, UpTo, Zenon
  <2> QED
    BY <1>1, <2>1
<1> DEFINE x == sum[n]
<1>7. LoopInv(x, n, since, until)
  BY <1>6, Zenon DEF Good
<1>8. Upcoming(until, n, since, until)
  BY <1>1 DEF Upcoming
<1> HIDE DEF x, n, timeline
<1>9. Unlimited(since, until) => Still(x.cursor, until, x.state)
  BY <1>7, <1>8, NothingBetween, Zenon
<1>10. Ordered(since, x.cursor, until) /\ Exact(x.seconds, x.cursor, since, until)
  BY <1>7, Zenon DEF LoopInv, Ordered
<1>11. Exact(AccumulateState(x.seconds, x.state, x.cursor, until), until, since, until)
  BY <1>9, <1>10, AccumulateKeepsExact, Zenon
<1> QED
  BY <1>2, <1>11, Zenon DEF x

(***************************************************************************)
(* UptimeIsExact holds, for any number of rows and any order of arrival.   *)
(***************************************************************************)
THEOREM UptimeCorrect == UptimeSpec => []UptimeIsExact
<1>1. UptimeInit => UptimeInv
  BY FS_EmptySet, UptimeAssumption DEF UptimeInit, UptimeInv, UptimeTypeOK
<1>2. UptimeInv /\ [UptimeNext]_uptimeVars => UptimeInv'
  BY UptimeStep, Zenon
<1>3. UptimeInv => UptimeIsExact
  <2> SUFFICES ASSUME UptimeInv, NEW since \in 0 .. uptimeNow, NEW until \in since + 1 .. UptimeHorizon
               PROVE  LET seconds == HistoryAggregate(since, until)
                      IN /\ KnownSeconds(seconds) <= until - since
                         /\ Cardinality(InWindow(since, until)) <= HistoryLimit =>
                              \A s \in KnownStates : seconds[s] = Cardinality({t \in since .. until - 1 : StateAt(t) = s})
    BY Zenon DEF UptimeIsExact
  <2>1. since \in Nat /\ until \in Nat /\ since < until
    BY UptimeAssumption DEF UptimeInv, UptimeTypeOK
  <2> QED
    BY <2>1, WindowIsExact, Zenon DEF Exact, Spent, Unlimited
<1> QED
  BY <1>1, <1>2, <1>3, PTL DEF UptimeSpec
=============================================================================
