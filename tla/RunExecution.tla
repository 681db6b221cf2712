---------------------------- MODULE RunExecution ----------------------------
(***************************************************************************)
(* The execution of monitoring runs by worker processes: the Redis stream  *)
(* consumer (queue.Consumer), the run claim (monitor.ClaimExecution), the  *)
(* checks (Engine.Execute) and the run part of monitor.CompleteRun.        *)
(*                                                                         *)
(* A worker process has a local backlog (the fetched messages and the jobs *)
(* channel) and some worker goroutines.  ClaimExecution is one PostgreSQL  *)
(* transaction, modelled in two steps: ClaimBegin locks the run row, tries *)
(* the advisory lock of the domain and reads whether another run of the    *)
(* domain is active; ClaimCommit writes the claim and commits.  A worker   *)
(* holds both locks exactly while its pc is "locked".                      *)
(*                                                                         *)
(* Time is a set of saturating timers that Tick moves: what is left of a   *)
(* run's deadline, the age of its heartbeat, the idle time of a delivered  *)
(* stream entry.  A claim transaction takes no tick.                       *)
(***************************************************************************)
EXTENDS Naturals, Sequences

CONSTANTS
  Runs, Domains, DomainOf,      \* monitoring runs and the domain of each
  Entries, RunOf,               \* Redis stream entries and the run of each
  Processes, Workers, ProcessOf, \* worker processes and their goroutines
  RunTimeout,                   \* MONITOR_RUN_TIMEOUT, in ticks
  QueueLease,                   \* MONITOR_QUEUE_LEASE, in ticks
  MaxAttempts,                  \* OUTBOX_MAX_ATTEMPTS
  BacklogLimit,                 \* bound on a process's local backlog
  MaxFaults                     \* bound on crashes, failed calls and lost replies

NoEntry == "no entry"

ASSUME ShapeAssumption ==
  /\ NoEntry \notin Entries
  /\ DomainOf \in [Runs -> Domains]
  /\ RunOf \in [Entries -> Runs]
  /\ ProcessOf \in [Workers -> Processes]

ASSUME NumberAssumption ==
  /\ RunTimeout \in Nat \ {0}
  /\ QueueLease \in Nat \ {0}
  /\ MaxAttempts \in Nat \ {0}
  /\ BacklogLimit \in Nat \ {0}
  /\ MaxFaults \in Nat

VARIABLES
  run,      \* monitoring_runs rows
  results,  \* number of committed local monitoring_results of a run
  entry,    \* the stream entries and the group's pending list
  backlog,  \* per process: messages read but not yet taken by a worker
  pc,       \* where a goroutine is
  taken,    \* the message it works on
  faults    \* faults so far

vars == <<run, results, entry, backlog, pc, taken, faults>>

Settled == {"completed", "failed"}
Statuses == {"absent", "queued", "running"} \cup Settled
Pcs == {"idle", "locked", "checking", "completing", "acking"}

RunRows ==
  [ status   : Statuses,
    started  : BOOLEAN,              \* started_at IS NOT NULL
    attempts : 0 .. MaxAttempts,     \* execution_attempts
    beat     : 0 .. QueueLease,      \* age of heartbeat_at (QueueLease: stale or NULL)
    left     : 0 .. RunTimeout ]     \* time to deadline_at

TypeOK ==
  /\ run \in [Runs -> RunRows]
  /\ results \in [Runs -> Nat]
  /\ entry \in [Entries -> [state : {"absent", "new", "pending", "acked"},
                            idle  : 0 .. QueueLease]]
  /\ backlog \in [Processes -> Seq(Entries)]
  /\ pc \in [Workers -> Pcs]
  /\ taken \in [Workers -> Entries \cup {NoEntry}]
  /\ \A w \in Workers : pc[w] # "idle" => taken[w] \in Entries
  /\ faults \in 0 .. MaxFaults

Init ==
  /\ run = [r \in Runs |-> [status |-> "absent", started |-> FALSE,
                            attempts |-> 0, beat |-> QueueLease, left |-> RunTimeout]]
  /\ results = [r \in Runs |-> 0]
  /\ entry = [m \in Entries |-> [state |-> "absent", idle |-> 0]]
  /\ backlog = [p \in Processes |-> <<>>]
  /\ pc = [w \in Workers |-> "idle"]
  /\ taken = [w \in Workers |-> NoEntry]
  /\ faults = 0

RunAt(w) == RunOf[taken[w]]
\* !DeadlineAt.After(now)
Expired(r) == run[r].left = 0
Fresh(r) == run[r].status = "running" /\ run[r].beat < QueueLease
Exhausted(r) == run[r].attempts >= MaxAttempts

\* FOR UPDATE on the run row, and the advisory lock of the domain.
RowLocked(r) == \E w \in Workers : pc[w] = "locked" /\ RunAt(w) = r
DomainFree(d) == ~\E w \in Workers : pc[w] = "locked" /\ DomainOf[RunAt(w)] = d

-----------------------------------------------------------------------------
(* The producers and the stream.                                           *)

\* ScheduleDue or createManualRun commits a queued run.
CreateRun(r) ==
  /\ run[r].status = "absent"
  /\ run' = [run EXCEPT ![r].status = "queued"]
  /\ UNCHANGED <<results, entry, backlog, pc, taken, faults>>

\* The dispatcher's XADD: a run can get more than one entry.
XAdd(m) ==
  /\ entry[m].state = "absent"
  /\ run[RunOf[m]].status # "absent"
  /\ entry' = [entry EXCEPT ![m].state = "new"]
  /\ UNCHANGED <<run, results, backlog, pc, taken, faults>>

-----------------------------------------------------------------------------
(* The consumer loop: XREADGROUP and XAUTOCLAIM hand entries to a process. *)

Receive(p, m) ==
  /\ Len(backlog[p]) < BacklogLimit
  /\ entry' = [entry EXCEPT ![m] = [state |-> "pending", idle |-> 0]]
  /\ backlog' = [backlog EXCEPT ![p] = Append(@, m)]
  /\ UNCHANGED <<run, results, pc, taken, faults>>

XReadGroup(p, m) ==
  /\ entry[m].state = "new"
  /\ Receive(p, m)

XAutoClaimNone(p, m) == FALSE /\ UNCHANGED vars
XAutoClaim(p, m) ==
  /\ entry[m].state = "pending"
  /\ entry[m].idle = QueueLease
  /\ Receive(p, m)

-----------------------------------------------------------------------------
(* A worker goroutine: ClaimExecution, the checks, CompleteRun, XACK.      *)

\* The oldest message of the goroutine's process, and taking it.
NextMessage(w) == Head(backlog[ProcessOf[w]])
Take(w, to) ==
  /\ backlog' = [backlog EXCEPT ![ProcessOf[w]] = Tail(@)]
  /\ pc' = [pc EXCEPT ![w] = to]
  /\ taken' = [taken EXCEPT ![w] = IF to = "idle" THEN NoEntry ELSE NextMessage(w)]

\* The handler goes on, or returns an error: then the entry stays pending.
GoTo(w, to) == pc' = [pc EXCEPT ![w] = to] /\ UNCHANGED taken
Release(w) ==
  /\ pc' = [pc EXCEPT ![w] = "idle"]
  /\ taken' = [taken EXCEPT ![w] = NoEntry]

\* An UPDATE that sets completed_at must satisfy the CHECK constraint
\* "completed_at IS NULL OR started_at IS NOT NULL" of monitoring_runs.
MayComplete(r) == run[r].started

\* Execute returns ErrRunBusy to the consumer, which does not acknowledge, and
\* turns ErrRunCompleted and ErrRunExpired into success.
OnBusy == "idle"
CompletedNotAcked == "idle"
OnCompleted == "acking"

NoOtherRun(r) == FALSE
AnotherRunActive(r) == \E o \in Runs \ {r} : DomainOf[o] = DomainOf[r] /\ Fresh(o)

ClaimBegin(w) ==
  LET r == RunOf[NextMessage(w)] IN
  /\ pc[w] = "idle"
  /\ backlog[ProcessOf[w]] # <<>>
  /\ ~RowLocked(r)
  /\ \/ /\ run[r].status = "completed"                  \* ErrRunCompleted
        /\ Take(w, OnCompleted)
        /\ UNCHANGED run
     \/ /\ run[r].status # "completed" /\ Expired(r)    \* ErrRunExpired
        /\ MayComplete(r)
        /\ Take(w, "acking")
        /\ run' = [run EXCEPT ![r] = [run[r] EXCEPT !.status = "failed", !.beat = QueueLease]]
     \/ /\ run[r].status # "completed" /\ Expired(r)    \* the UPDATE is refused
        /\ ~MayComplete(r)
        /\ Take(w, "idle")
        /\ UNCHANGED run
     \/ /\ run[r].status # "completed" /\ ~Expired(r)   \* ErrRunBusy
        /\ Fresh(r) \/ ~DomainFree(DomainOf[r]) \/ AnotherRunActive(r)
        /\ Take(w, OnBusy)
        /\ UNCHANGED run
     \/ /\ run[r].status # "completed" /\ ~Expired(r)
        /\ ~Fresh(r) /\ DomainFree(DomainOf[r]) /\ ~AnotherRunActive(r)
        /\ Take(w, "locked")
        /\ UNCHANGED run
  /\ UNCHANGED <<results, entry, faults>>

ClaimCommit(w) ==
  LET r == RunAt(w) IN
  /\ pc[w] = "locked"
  /\ \/ /\ Exhausted(r)
        /\ GoTo(w, "acking")
        /\ run' = [run EXCEPT ![r].status = "failed"]
     \/ /\ ~Exhausted(r)
        /\ GoTo(w, "checking")
        /\ run' = [run EXCEPT ![r] = [run[r] EXCEPT !.status = "running", !.started = TRUE,
                                                    !.beat = 0, !.attempts = @ + 1]]
  /\ UNCHANGED <<results, entry, backlog, faults>>

\* DNS, HTTP and TLS checks end, at the latest when runCtx reaches the deadline.
FinishChecks(w) ==
  /\ pc[w] = "checking"
  /\ GoTo(w, "completing")
  /\ UNCHANGED <<run, results, entry, backlog, faults>>

\* The unique index (monitoring_run_id, vantage_key) admits one local result,
\* and the final UPDATE needs status 'running'; otherwise everything rolls back.
PersistableOnce(r) == results[r] = 0
PersistableAlways(r) == TRUE
Persistable(r) == run[r].status = "running" /\ results[r] = 0

CompleteRun(w) ==
  LET r == RunAt(w) IN
  /\ pc[w] = "completing"
  /\ ~RowLocked(r)
  /\ \/ /\ Persistable(r)
        /\ run' = [run EXCEPT ![r] = [run[r] EXCEPT !.status = "completed", !.beat = QueueLease]]
        /\ results' = [results EXCEPT ![r] = @ + 1]
        /\ GoTo(w, "acking")
     \/ /\ ~Persistable(r)
        /\ Release(w)
        /\ UNCHANGED <<run, results>>
  /\ UNCHANGED <<entry, backlog, faults>>

XAck(w) ==
  /\ pc[w] = "acking"
  /\ entry' = [entry EXCEPT ![taken[w]].state = "acked"]
  /\ Release(w)
  /\ UNCHANGED <<run, results, backlog, faults>>

-----------------------------------------------------------------------------
(* Faults and time.                                                        *)

\* A worker process stops (crash or SIGTERM) and is started again: open
\* transactions roll back and everything it had in memory is gone.
Crash(p) ==
  /\ faults < MaxFaults
  /\ faults' = faults + 1
  /\ backlog' = [backlog EXCEPT ![p] = <<>>]
  /\ pc' = [w \in Workers |-> IF ProcessOf[w] = p THEN "idle" ELSE pc[w]]
  /\ taken' = [w \in Workers |-> IF ProcessOf[w] = p THEN NoEntry ELSE taken[w]]
  /\ UNCHANGED <<run, results, entry>>

\* A database call fails (before the claim or the result is committed, or with
\* the reply to the COMMIT lost), or XACK fails: the message is not acknowledged.
HandlerError(w) ==
  /\ faults < MaxFaults
  /\ pc[w] # "idle"
  /\ faults' = faults + 1
  /\ Release(w)
  /\ UNCHANGED <<run, results, entry, backlog>>

\* runCtx ends the checks at the deadline.
Overdue(w) == pc[w] = "checking" /\ Expired(RunAt(w))

Sooner(left) == IF left > 0 THEN left - 1 ELSE 0
Older(age) == IF age < QueueLease THEN age + 1 ELSE age

Tick ==
  /\ \A w \in Workers : pc[w] # "locked" /\ ~Overdue(w)
  /\ run' = [r \in Runs |->
               [run[r] EXCEPT
                  !.left = IF run[r].status # "absent" THEN Sooner(@) ELSE @,
                  !.beat = IF run[r].status = "running" THEN Older(@) ELSE @]]
  /\ entry' = [m \in Entries |->
                 IF entry[m].state = "pending"
                 THEN [entry[m] EXCEPT !.idle = Older(@)]
                 ELSE entry[m]]
  /\ UNCHANGED <<results, backlog, pc, taken, faults>>

-----------------------------------------------------------------------------
Work(w) == ClaimBegin(w) \/ ClaimCommit(w) \/ FinishChecks(w) \/ CompleteRun(w) \/ XAck(w)

Next ==
  \/ \E r \in Runs : CreateRun(r)
  \/ \E m \in Entries : XAdd(m)
  \/ \E p \in Processes, m \in Entries : XReadGroup(p, m) \/ XAutoClaim(p, m)
  \/ \E w \in Workers : Work(w)
  \/ \E p \in Processes : Crash(p)
  \/ \E w \in Workers : HandlerError(w)
  \/ Tick

Spec == Init /\ [][Next]_vars

(***************************************************************************)
(* Fairness: the clock runs; a goroutine with work goes on (PostgreSQL     *)
(* grants row locks in turn); the dispatcher delivers each run's job at    *)
(* least once; and, as XREADGROUP reads in stream order and XAUTOCLAIM     *)
(* sweeps the pending list with a cursor, an entry that can be received    *)
(* again and again is received.                                            *)
(***************************************************************************)
DeliverFirst(r) ==
  \E m \in Entries :
    /\ \A n \in Entries : RunOf[n] = r => entry[n].state = "absent"
    /\ RunOf[m] = r
    /\ XAdd(m)

Fairness ==
  /\ WF_vars(Tick)
  /\ \A w \in Workers : SF_vars(Work(w))
  /\ \A r \in Runs : WF_vars(DeliverFirst(r))
  /\ \A m \in Entries : SF_vars(\E p \in Processes : XReadGroup(p, m) \/ XAutoClaim(p, m))

FairSpec == Spec /\ Fairness

-----------------------------------------------------------------------------
(***************************************************************************)
(* The per-domain claim: two runs of one domain never hold a fresh         *)
(* execution lease at once, although a claim reads the other run's row     *)
(* without locking it, one step before it commits.                         *)
(***************************************************************************)
OneFreshRunPerDomain ==
  \A r, o \in Runs : r # o /\ DomainOf[r] = DomainOf[o] => ~(Fresh(r) /\ Fresh(o))

(***************************************************************************)
(* Evidence exactly once: whatever is redelivered, however many workers    *)
(* execute a run and whenever they finish, a completed run has exactly one *)
(* local result and any other run has none.                                *)
(***************************************************************************)
EvidenceExactlyOnce ==
  \A r \in Runs : results[r] = IF run[r].status = "completed" THEN 1 ELSE 0

(***************************************************************************)
(* A message is acknowledged only after its run is settled: an             *)
(* acknowledged entry is never delivered again, so nothing else would      *)
(* finish the run.                                                         *)
(***************************************************************************)
AckedOnlyWhenSettled ==
  \A m \in Entries : entry[m].state = "acked" => run[RunOf[m]].status \in Settled

(***************************************************************************)
(* A settled run stays as it is: a worker that finishes late cannot turn   *)
(* an expired run into a completed one, and a redelivered message cannot   *)
(* reopen a failed one.                                                    *)
(***************************************************************************)
SettledIsFinal ==
  [][ \A r \in Runs : run[r].status \in Settled => run'[r].status = run[r].status ]_vars

(***************************************************************************)
(* docs/phase3-monitoring-engine.md: "A per-domain claim prevents          *)
(* simultaneous local runs".  No two goroutines check one domain at the    *)
(* same time (a run at its very deadline, whose checks are being           *)
(* cancelled, does not count).  It takes QueueLease > RunTimeout, which    *)
(* the defaults (90s and 60s) satisfy and config.Load does not require.    *)
(***************************************************************************)
Checking(w) == pc[w] = "checking" /\ ~Expired(RunAt(w))

NoSimultaneousChecks ==
  \A v, w \in Workers :
    v # w /\ Checking(v) /\ Checking(w) => DomainOf[RunAt(v)] # DomainOf[RunAt(w)]

(***************************************************************************)
(* With QueueLease > RunTimeout a run is executed at most once: by the     *)
(* time its message or its heartbeat is stale its deadline has passed, and *)
(* redelivery can only settle it.                                          *)
(***************************************************************************)
ExecutedAtMostOnce == \A r \in Runs : run[r].attempts <= 1

(***************************************************************************)
(* The message of a settled run eventually leaves the pending list, even   *)
(* when the worker died between the COMMIT and the XACK.                   *)
(***************************************************************************)
SettledEntriesAcked ==
  \A m \in Entries :
    entry[m].state = "pending" /\ run[RunOf[m]].status \in Settled ~> entry[m].state = "acked"

(***************************************************************************)
(* Every queued run is eventually completed or failed (ARCHITECTURE.md     *)
(* rules out unbounded retries).  It does not hold: a run that expires     *)
(* before a worker started it cannot be failed, because the UPDATE breaks  *)
(* the CHECK constraint on started_at; its message is retried for ever.    *)
(***************************************************************************)
QueuedRunsSettle ==
  \A r \in Runs : run[r].status = "queued" ~> run[r].status \in Settled

-----------------------------------------------------------------------------
(* Refinement of RunLedger.                                                *)

LedgerState(r) ==
  CASE run[r].status = "queued" -> "accepted"
    [] run[r].status = "running" -> "started"
    [] OTHER -> run[r].status

Ledger == INSTANCE RunLedger WITH
  state <- [r \in Runs |-> LedgerState(r)],
  evidence <- {r \in Runs : results[r] > 0}

(***************************************************************************)
(* Executing runs implements the ledger: every step of a worker, a         *)
(* redelivery or a crash is one step of the ledger or none.                *)
(***************************************************************************)
ImplementsLedger == Ledger!Spec

(***************************************************************************)
(* ... and, with fair scheduling, every run that a worker has started is   *)
(* eventually completed or failed, even if that worker dies.               *)
(***************************************************************************)
FairlyImplementsLedger == Ledger!FairSpec
=============================================================================
