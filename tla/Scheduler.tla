----------------------------- MODULE Scheduler ------------------------------
(***************************************************************************)
(* Where monitoring runs come from: monitor.ScheduleDue, executed by every *)
(* scheduler process once per interval of its loop, and the manual         *)
(* requests of monitor.createManualRun.  ScheduleDue is one transaction    *)
(* that locks the due schedules it read (FOR UPDATE SKIP LOCKED); requests *)
(* and changes of domains come between its read and its commit.            *)
(*                                                                         *)
(* A run and its outbox row are committed together and are one element     *)
(* here; what happens to them afterwards is the subject of Outbox and      *)
(* RunExecution.  Time is the database's now(), in ticks.                  *)
(***************************************************************************)
EXTENDS Naturals, FiniteSets

CONSTANTS
  Monitored,     \* domains
  Replicas,      \* scheduler processes
  Users, Keys,   \* who requests manual runs, and their Idempotency-Keys
  Interval,      \* interval_seconds, in ticks
  Jitter,        \* jitter_seconds of each schedule, in ticks
  Second,        \* ticks in a second: slots are truncated to seconds
  MaxSkew,       \* how far the clock of a process may lag behind now()
  ScheduleBatch, \* SCHEDULER_BATCH_SIZE
  Horizon,       \* bound on the clock
  MaxRollbacks,  \* bound on failed passes
  MaxToggles     \* bound on changes of domains

ASSUME ScheduleAssumption ==
  /\ IsFiniteSet(Monitored) /\ Jitter \in [Monitored -> 0 .. Interval]
  /\ Interval \in Nat /\ MaxSkew \in Nat /\ Second \in Nat \ {0}
  /\ Horizon \in Nat /\ MaxRollbacks \in Nat /\ MaxToggles \in Nat
  /\ ScheduleBatch \in Nat \ {0} /\ MaxSkew < Interval

VARIABLES
  clock,
  life,      \* domains.lifecycle_status is 'active'
  watched,   \* domains.monitoring_enabled
  schedule,  \* monitor_schedules
  pass,      \* per replica: the schedules its open transaction holds
  slots,     \* scheduled runs, by domain and slot
  manual,    \* manual runs: id, domain, user and key
  answers,   \* what each request was answered
  enabledAt, \* ghost: when a schedule was (re-)enabled
  passed,    \* ghost: some pass has ended since the last tick
  rollbacks, toggles

schedulerVars ==
  <<clock, life, watched, schedule, pass, slots, manual, answers, enabledAt, passed, rollbacks, toggles>>

Instants == 0 .. Horizon + 2 * Interval

SchedulerTypeOK ==
  /\ clock \in 0 .. Horizon
  /\ life \in [Monitored -> BOOLEAN]
  /\ watched \in [Monitored -> BOOLEAN]
  /\ schedule \in [Monitored -> [enabled : BOOLEAN, due : Instants]]
  /\ pass \in [Replicas -> SUBSET Monitored]
  /\ slots \subseteq Monitored \X Instants
  /\ manual \subseteq Nat \X Monitored \X Users \X Keys
  /\ answers \subseteq Nat \X Monitored \X Users \X Keys
  /\ enabledAt \in [Monitored -> SUBSET Instants]
  /\ passed \in BOOLEAN
  /\ rollbacks \in 0 .. MaxRollbacks
  /\ toggles \in 0 .. MaxToggles

SchedulerInit ==
  /\ clock = 0
  /\ life = [d \in Monitored |-> TRUE]
  /\ watched = [d \in Monitored |-> TRUE]
  /\ schedule = [d \in Monitored |-> [enabled |-> TRUE, due |-> 0]]
  /\ pass = [p \in Replicas |-> {}]
  /\ slots = {} /\ manual = {} /\ answers = {}
  /\ enabledAt = [d \in Monitored |-> {}]
  /\ passed = FALSE
  /\ rollbacks = 0 /\ toggles = 0

Locked == UNION {pass[p] : p \in Replicas}

-----------------------------------------------------------------------------
(* ScheduleDue                                                             *)

DueNow(d) ==
  /\ schedule[d].enabled /\ schedule[d].due <= clock
  /\ watched[d] /\ life[d]

\* ORDER BY priority, next_due_at.  No code sets a schedule's priority: it is the
\* column's default for all.
Before(d, e) == schedule[d].due < schedule[e].due

LeastOf(m, n) == IF m < n THEN m ELSE n

ClaimDue(p, batch) ==
  LET due == {d \in Monitored \ Locked : DueNow(d)} IN
  /\ pass[p] = {}
  /\ batch \subseteq due
  /\ Cardinality(batch) = LeastOf(ScheduleBatch, Cardinality(due))
  /\ \A d \in batch, e \in due \ batch : ~Before(e, d)
  /\ pass' = [pass EXCEPT ![p] = batch]
  /\ passed' = (batch = {})
  /\ batch = {} => ~passed
  /\ UNCHANGED <<clock, life, watched, schedule, slots, manual, answers, enabledAt, rollbacks, toggles>>

Slot(due) == due - (due % Second)

\* next_due_at counts from the process's clock, so missed slots are not made up for.
NextDueByJitter(d, lag) == clock + Jitter[d] + 1
NextDueStuck(d, lag) == schedule[d].due
NextDueInMinutes(d, lag) == (clock + 60 * Interval + Jitter[d]) - lag
NextDue(d, lag) == (clock + Interval + Jitter[d]) - lag

\* The deduplication key of a run that exists makes the INSERT do nothing.
CommitDue(p, lag) ==
  /\ pass[p] # {}
  /\ slots' = slots \cup {<<d, Slot(schedule[d].due)>> : d \in pass[p]}
  /\ schedule' = [d \in Monitored |->
       IF d \in pass[p] THEN [schedule[d] EXCEPT !.due = NextDue(d, lag)] ELSE schedule[d]]
  /\ pass' = [pass EXCEPT ![p] = {}]
  /\ passed' = TRUE
  /\ UNCHANGED <<clock, life, watched, manual, answers, enabledAt, rollbacks, toggles>>

\* A statement fails or the process dies: nothing of the pass remains.
RollbackDue(p) ==
  /\ pass[p] # {}
  /\ rollbacks < MaxRollbacks
  /\ rollbacks' = rollbacks + 1
  /\ pass' = [pass EXCEPT ![p] = {}]
  /\ passed' = TRUE
  /\ UNCHANGED <<clock, life, watched, schedule, slots, manual, answers, enabledAt, toggles>>

-----------------------------------------------------------------------------
(* Domains and requests                                                    *)

\* The UPDATE of the schedule waits for the transaction that holds its row.
ScheduleFree(d) == d \notin Locked

\* EnsureScheduleTx: a schedule that is enabled again is due at once.
EnsuredDue(d, on) == IF on /\ ~schedule[d].enabled THEN clock ELSE schedule[d].due

\* The domain and its schedule change in one transaction (Patch, Archive, an import).
ChangeDomain(d, alive, mon) ==
  LET on == alive /\ mon IN
  /\ toggles < MaxToggles
  /\ ScheduleFree(d)
  /\ life' = [life EXCEPT ![d] = alive]
  /\ watched' = [watched EXCEPT ![d] = mon]
  /\ schedule' = [schedule EXCEPT ![d] = [enabled |-> on, due |-> EnsuredDue(d, on)]]
  /\ enabledAt' = [enabledAt EXCEPT ![d] =
                     IF on /\ ~schedule[d].enabled THEN @ \cup {clock} ELSE @]
  /\ toggles' = toggles + 1
  /\ UNCHANGED <<clock, pass, slots, manual, answers, passed, rollbacks>>

RunsOfKey(d, u, k) == {r \in manual : r[2] = d /\ r[3] = u /\ r[4] = k}

\* createManualRun: a key that was used gets the run it created.  The reply may
\* be lost, and the client may ask again.
CreateManualRun(u, d, k) ==
  /\ life[d]
  /\ LET old == RunsOfKey(d, u, k)
         fresh == {<<Cardinality(manual), d, u, k>>}
         run == IF old = {} THEN fresh ELSE old
     IN /\ manual' = manual \cup run
        /\ answers' = answers \cup run
        /\ <<manual', answers'>> # <<manual, answers>>
  /\ UNCHANGED <<clock, life, watched, schedule, pass, slots, enabledAt, passed, rollbacks, toggles>>

-----------------------------------------------------------------------------
\* The loop of every process makes a pass per tick, and passes end within it.
SchedulerTick ==
  /\ clock < Horizon
  /\ passed /\ \A p \in Replicas : pass[p] = {}
  /\ clock' = clock + 1
  /\ passed' = FALSE
  /\ UNCHANGED <<life, watched, schedule, pass, slots, manual, answers, enabledAt, rollbacks, toggles>>

SchedulerNext ==
  \/ \E p \in Replicas, batch \in SUBSET Monitored : ClaimDue(p, batch)
  \/ \E p \in Replicas, lag \in 0 .. MaxSkew : CommitDue(p, lag)
  \/ \E p \in Replicas : RollbackDue(p)
  \/ \E d \in Monitored, alive \in BOOLEAN, mon \in BOOLEAN : ChangeDomain(d, alive, mon)
  \/ \E u \in Users, d \in Monitored, k \in Keys : CreateManualRun(u, d, k)
  \/ SchedulerTick

SchedulerSpec == SchedulerInit /\ [][SchedulerNext]_schedulerVars

-----------------------------------------------------------------------------
(***************************************************************************)
(* No schedule starves: with batches too small for all domains and passes  *)
(* that fail, an enabled schedule is overdue by at most as many ticks as   *)
(* the schedules need batches, plus one for each failed pass and each      *)
(* change of a domain (a schedule enabled again is due at once).           *)
(***************************************************************************)
NeverLate ==
  \A d \in Monitored : schedule[d].enabled =>
    clock <= schedule[d].due + Cardinality(Monitored) \div ScheduleBatch + rollbacks + toggles

(***************************************************************************)
(* At most one scheduled run per interval: however many replicas pass over *)
(* a schedule, two of its slots are an interval apart (less the lag of a   *)
(* clock and the truncation), unless the schedule was enabled again.       *)
(***************************************************************************)
SlotsAreSpaced ==
  \A a, b \in slots : a[1] = b[1] /\ a[2] < b[2] =>
    \/ b[2] + MaxSkew + Second > a[2] + Interval
    \/ \E t \in enabledAt[a[1]] : a[2] <= t /\ Slot(t) <= b[2]

(***************************************************************************)
(* A domain that is archived, inactive or unmonitored gets no scheduled    *)
(* run, even if it changed while a pass that had found it due was open.    *)
(***************************************************************************)
OnlyWatchedAreScheduled ==
  [][ \A d \in Monitored, t \in Instants :
        <<d, t>> \in slots' \ slots => watched[d] /\ life[d] /\ schedule[d].enabled ]_schedulerVars

(***************************************************************************)
(* A manual request that is repeated with its Idempotency-Key, at the same *)
(* time or after its reply was lost, gets the run of the first one.        *)
(***************************************************************************)
RetriesGetTheirRun ==
  \A a, b \in answers : a[2] = b[2] /\ a[3] = b[3] /\ a[4] = b[4] => a = b
=============================================================================
