---------------------------- MODULE UptimeHistory ----------------------------
(***************************************************************************)
(* The uptime of one domain over a window of time (monitor.GetHistory,     *)
(* calculateHistoryAggregate), computed from domain_status_history.  The   *)
(* rows are written by CompleteRun with the time of the worker that made   *)
(* the check, and by SubmitResult; they arrive neither in the order of     *)
(* their times nor of their ids, which are random.                         *)
(***************************************************************************)
EXTENDS Naturals, Sequences, FiniteSets

CONSTANTS
  UptimeIds,      \* uuids of history rows
  HistoryLimit,   \* rows a query returns
  CheckLag,       \* how far back the time of a check may be when its row is written
  UptimeHorizon

ASSUME UptimeAssumption ==
  UptimeIds \subseteq Nat /\ HistoryLimit \in Nat /\ CheckLag \in Nat /\ UptimeHorizon \in Nat

VARIABLES uptimeNow, uptimeRows, uptimeState

uptimeVars == <<uptimeNow, uptimeRows, uptimeState>>

KnownStates == {"ACTIVE", "DEGRADED", "UNAVAILABLE"}
UptimeRows ==
  [id : UptimeIds, at : 0 .. UptimeHorizon, dimension : {"availability", "isp"}, value : KnownStates \cup {"UNKNOWN"}]

UptimeTypeOK ==
  uptimeNow \in 0 .. UptimeHorizon /\ uptimeRows \subseteq UptimeRows /\ uptimeState \in KnownStates \cup {"UNKNOWN"}

UptimeInit == uptimeNow = 0 /\ uptimeRows = {} /\ uptimeState = "UNKNOWN"

-----------------------------------------------------------------------------
FreeUptimeId(id) == \A r \in uptimeRows : r.id # id

\* persistHistory: a change of availability, at the time of the check.
AvailabilityChanges(id, value, lag) ==
  /\ FreeUptimeId(id) /\ value # uptimeState /\ lag <= uptimeNow
  /\ uptimeRows' = uptimeRows \cup {[id |-> id, at |-> uptimeNow - lag, dimension |-> "availability", value |-> value]}
  /\ uptimeState' = value
  /\ UNCHANGED uptimeNow

\* A change of another dimension, here the one SubmitResult writes.
IspChanges(id) ==
  /\ FreeUptimeId(id)
  /\ uptimeRows' = uptimeRows \cup {[id |-> id, at |-> uptimeNow, dimension |-> "isp", value |-> "UNKNOWN"]}
  /\ UNCHANGED <<uptimeNow, uptimeState>>

UptimeTick == uptimeNow < UptimeHorizon /\ uptimeNow' = uptimeNow + 1 /\ UNCHANGED <<uptimeRows, uptimeState>>

UptimeNext ==
  \/ \E id \in UptimeIds :
       \/ \E value \in KnownStates, lag \in 0 .. CheckLag : AvailabilityChanges(id, value, lag)
       \/ IspChanges(id)
  \/ UptimeTick

UptimeSpec == UptimeInit /\ [][UptimeNext]_uptimeVars

-----------------------------------------------------------------------------
(* GetHistory                                                              *)

\* ORDER BY effective_at, id
Earlier(r, s) == r.at < s.at \/ (r.at = s.at /\ r.id < s.id)

InWindow(since, until) == {r \in uptimeRows : since <= r.at /\ r.at <= until}

\* The first HistoryLimit rows: the k-th is the one that k - 1 rows precede.
Timeline(since, until) ==
  LET all == InWindow(since, until)
      length == IF Cardinality(all) < HistoryLimit THEN Cardinality(all) ELSE HistoryLimit
  IN [k \in 1 .. length |-> CHOOSE r \in all : Cardinality({s \in all : Earlier(s, r)}) = k - 1]

LastValue(rows) ==
  IF rows = {} THEN "UNKNOWN" ELSE (CHOOSE r \in rows : \A s \in rows : s = r \/ Earlier(s, r)).value

\* The state the window begins in.
UnknownAtFirst(since) == "UNKNOWN"
InitialState(since) == LastValue({r \in uptimeRows : r.dimension = "availability" /\ r.at < since})

\* accumulateState
AccumulateState(seconds, state, from, to) ==
  [s \in KnownStates |-> IF s = state /\ to > from THEN seconds[s] + (to - from) ELSE seconds[s]]

\* calculateHistoryAggregate: one turn of its loop,
AddEntry(sum, r) ==
  IF r.dimension # "availability" THEN sum
  ELSE [seconds |-> AccumulateState(sum.seconds, sum.state, sum.cursor, r.at), state |-> r.value, cursor |-> r.at]

\* what it starts from,
EmptySum(since) == [seconds |-> [s \in KnownStates |-> 0], state |-> InitialState(since), cursor |-> since]

\* and the seconds in each state.
HistoryAggregate(since, until) ==
  LET timeline == Timeline(since, until)
      sum[k \in 0 .. Len(timeline)] == IF k = 0 THEN EmptySum(since) ELSE AddEntry(sum[k - 1], timeline[k])
      end == sum[Len(timeline)]
  IN AccumulateState(end.seconds, end.state, end.cursor, until)

KnownSeconds(seconds) == seconds["ACTIVE"] + seconds["DEGRADED"] + seconds["UNAVAILABLE"]

-----------------------------------------------------------------------------
\* The state the history says the domain is in at an instant.
StateAt(t) == LastValue({r \in uptimeRows : r.dimension = "availability" /\ r.at <= t})

(***************************************************************************)
(* The uptime of a window is what the history says second by second: the   *)
(* time in a state is the number of instants whose latest change led to    *)
(* it, wherever the window begins and ends, unless the window has more     *)
(* rows than the query returns; and the known time never exceeds the       *)
(* window, so that coverage and uptime stay within 100 percent.            *)
(***************************************************************************)
UptimeIsExact ==
  \A since \in 0 .. uptimeNow : \A until \in since + 1 .. UptimeHorizon :
    LET seconds == HistoryAggregate(since, until)
    IN /\ KnownSeconds(seconds) <= until - since
       /\ Cardinality(InWindow(since, until)) <= HistoryLimit =>
            \A s \in KnownStates : seconds[s] = Cardinality({t \in since .. until - 1 : StateAt(t) = s})
=============================================================================
