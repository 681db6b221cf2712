---------------------------- MODULE RemoteProbe -----------------------------
(***************************************************************************)
(* Remote probes (probe.Service and cmd/probe): DispatchPending gives each *)
(* completed run a job for a healthy probe, the probe's agent leases the   *)
(* job, checks the domain from its own network and submits one signed      *)
(* result.  An administrator may revoke a probe at any time.               *)
(*                                                                         *)
(* DispatchPending and Revoke are transactions of several statements: the  *)
(* steps that read and take row locks come before the one that commits.    *)
(* Claim and SubmitResult hold the row lock of their job from their first  *)
(* read to their commit and are single steps.  A request is authenticated  *)
(* once, before the operation it asks for.                                 *)
(***************************************************************************)
EXTENDS Naturals, Sequences, FiniteSets, Functions

CONSTANTS
  Probes, Runs,
  Schedulers,  \* what calls DispatchPending: the scheduler loop, each worker after a run
  JobTTL,      \* PROBE_JOB_TTL, in ticks
  JobLease,    \* PROBE_JOB_LEASE, in ticks
  StaleAfter,  \* PROBE_STALE_AFTER, in ticks
  Batch,       \* PROBE_DISPATCH_BATCH
  MaxAttempts  \* remote_probe_jobs: CHECK (attempts BETWEEN 0 AND 20)

NoProbe == "no probe"
NoRun == "no run"

ASSUME ProbeAssumption ==
  /\ NoProbe \notin Probes /\ NoRun \notin Runs
  /\ JobTTL \in Nat /\ JobLease \in Nat \ {0} /\ JobLease < JobTTL
  /\ StaleAfter \in Nat /\ Batch \in Nat \ {0} /\ MaxAttempts \in Nat \ {0}

VARIABLES
  node,      \* probe_nodes
  fresh,     \* completed runs inside PROBE_EVIDENCE_FRESHNESS, by completed_at
  done,      \* all completed runs
  job,       \* remote_probe_jobs, unique per run and probe
  results,   \* remote_probe_results: the jobs that have one
  pass,      \* per scheduler: its open DispatchPending transaction
  revoking,  \* per probe: the jobs its open Revoke transaction cancels
  poll,      \* per probe: the status its waiting claim request was authenticated with
  agent,     \* per probe: the run its agent is checking
  inflight   \* authenticated submissions on their way to SubmitResult

vars == <<node, fresh, done, job, results, pass, revoking, poll, agent, inflight>>

Jobs == Runs \X Probes
Live == {"queued", "leased"}
Settled == {"completed", "expired", "cancelled"}
Healths == {"ONLINE", "DEGRADED", "UPGRADE_REQUIRED"}
Nodes == [status : Healths \cup {"OFFLINE", "REVOKED"}, seen : 0 .. StaleAfter + 1]
JobRows ==
  [ status   : Live \cup Settled \cup {"absent"},
    ttl      : 0 .. JobTTL,       \* until expires_at
    lease    : 0 .. JobLease,     \* until lease_until
    attempts : 0 .. MaxAttempts ]
Passes ==
  [ phase : {"idle", "selecting", "inserting"}, offline : SUBSET Probes, expired : SUBSET Jobs,
    probe : Probes \cup {NoProbe}, runs : Seq(Runs) ]

NoPass == [phase |-> "idle", offline |-> {}, expired |-> {}, probe |-> NoProbe, runs |-> <<>>]
NotRevoking == [open |-> FALSE, jobs |-> {}]

(***************************************************************************)
(* The rows keep to their types; attempts stays within the CHECK of the    *)
(* table, which would otherwise make Claim fail.                           *)
(***************************************************************************)
TypeOK ==
  /\ node \in [Probes -> Nodes]
  /\ fresh \in Seq(Runs) /\ done \in SUBSET Runs
  /\ job \in [Jobs -> JobRows]
  /\ results \in SUBSET Jobs
  /\ pass \in [Schedulers -> Passes]
  /\ revoking \in [Probes -> [open : BOOLEAN, jobs : SUBSET Jobs]]
  /\ poll \in [Probes -> Healths \cup {"OFFLINE", "none"}]
  /\ agent \in [Probes -> Runs \cup {NoRun}]
  /\ inflight \in SUBSET Jobs

\* A registered probe is OFFLINE until its first heartbeat.
Init ==
  /\ node = [p \in Probes |-> [status |-> "OFFLINE", seen |-> StaleAfter + 1]]
  /\ fresh = <<>> /\ done = {}
  /\ job = [j \in Jobs |-> [status |-> "absent", ttl |-> 0, lease |-> 0, attempts |-> 0]]
  /\ results = {}
  /\ pass = [s \in Schedulers |-> NoPass]
  /\ revoking = [p \in Probes |-> NotRevoking]
  /\ poll = [p \in Probes |-> "none"]
  /\ agent = [p \in Probes |-> NoRun]
  /\ inflight = {}

\* Row locks of the open transactions.
NodeLocked(p) == revoking[p].open \/ \E s \in Schedulers : p \in pass[s].offline
JobLocked(j) ==
  (\E p \in Probes : j \in revoking[p].jobs) \/ \E s \in Schedulers : j \in pass[s].expired
RunLocked(r) == \E s \in Schedulers : pass[s].phase = "inserting" /\ r \in Range(pass[s].runs)

IsLive(j) == job[j].status \in Live
ExpirableQueued(j) == job[j].status = "queued" /\ job[j].ttl = 0
Expirable(j) == IsLive(j) /\ job[j].ttl = 0
Smaller(m, n) == IF m < n THEN m ELSE n
agents == <<poll, agent, inflight>>

\* monitor.CompleteRun has stored the local result of a run.
RunCompletes(r) ==
  /\ r \notin done
  /\ done' = done \cup {r}
  /\ fresh' = Append(fresh, r)
  /\ UNCHANGED <<node, job, results, pass, revoking, agents>>

\* The oldest run leaves the freshness window.
RunAges ==
  /\ fresh # <<>>
  /\ fresh' = Tail(fresh)
  /\ UNCHANGED <<node, done, job, results, pass, revoking, agents>>

-----------------------------------------------------------------------------
(* DispatchPending, in each scheduler's loop.                              *)

Stale(p) == node[p].status \in {"ONLINE", "DEGRADED"} /\ node[p].seen > StaleAfter

Eligible(p) == node[p].status = "ONLINE" /\ node[p].seen <= StaleAfter

SelectedProbe(p) ==
  IF \E q \in Probes : Eligible(q)
  THEN /\ p \in Probes /\ Eligible(p)
       /\ \A q \in Probes : Eligible(q) => node[p].seen <= node[q].seen
  ELSE p = NoProbe

Without(p) == SelectSeq(fresh, LAMBDA r : job[<<r, p>>].status = "absent")

\* The two UPDATEs, and the snapshot the SELECT works on.
DispatchBegin(s, p) ==
  LET offline == {q \in Probes : Stale(q)}
      expired == {j \in Jobs : Expirable(j)}
  IN
  /\ pass[s].phase = "idle"
  /\ \A q \in offline : ~NodeLocked(q)
  /\ \A j \in expired : ~JobLocked(j)
  /\ SelectedProbe(p)
  /\ pass' = [pass EXCEPT ![s] =
       [ phase |-> "selecting", offline |-> offline, expired |-> expired, probe |-> p,
         runs |-> IF p = NoProbe THEN <<>> ELSE Without(p) ]]
  /\ UNCHANGED <<node, fresh, done, job, results, revoking, agents>>

\* FOR UPDATE OF run SKIP LOCKED, in the order of completed_at, up to the batch.
DispatchSelect(s) ==
  LET found == SelectSeq(pass[s].runs, LAMBDA r : ~RunLocked(r)) IN
  /\ pass[s].phase = "selecting"
  /\ pass' = [pass EXCEPT ![s] =
       [pass[s] EXCEPT !.phase = "inserting",
                       !.runs = SubSeq(found, 1, Smaller(Batch, Len(found)))]]
  /\ UNCHANGED <<node, fresh, done, job, results, revoking, agents>>

Queued == [status |-> "queued", ttl |-> JobTTL, lease |-> 0, attempts |-> 0]

NoConflict(s) == FALSE
\* UNIQUE (monitoring_run_id, probe_node_id): the whole pass rolls back.
Conflict(s) == \E r \in Range(pass[s].runs) : job[<<r, pass[s].probe>>].status # "absent"

DispatchCommit(s) ==
  /\ pass[s].phase = "inserting"
  /\ ~Conflict(s)
  /\ node' = [p \in Probes |-> IF p \in pass[s].offline
                               THEN [node[p] EXCEPT !.status = "OFFLINE"] ELSE node[p]]
  /\ job' = [j \in Jobs |->
               IF j \in pass[s].expired THEN [job[j] EXCEPT !.status = "expired"]
               ELSE IF j[1] \in Range(pass[s].runs) /\ j[2] = pass[s].probe THEN Queued
               ELSE job[j]]
  /\ pass' = [pass EXCEPT ![s] = NoPass]
  /\ UNCHANGED <<fresh, done, results, revoking, agents>>

\* A statement fails, the connection is lost or the scheduler stops.
DispatchRollback(s) ==
  /\ pass[s].phase # "idle"
  /\ pass' = [pass EXCEPT ![s] = NoPass]
  /\ UNCHANGED <<node, fresh, done, job, results, revoking, agents>>

-----------------------------------------------------------------------------
(* The agent's requests.                                                   *)

Authenticated(p) == node[p].status # "REVOKED"

\* WHERE revoked_at IS NULL, in case the probe was revoked after it authenticated.
AnyNode(p) == TRUE
NotRevoked(p) == node[p].status # "REVOKED"

Heartbeat(p, status) ==
  /\ NotRevoked(p)
  /\ ~NodeLocked(p)
  /\ node' = [node EXCEPT ![p] = [status |-> status, seen |-> 0]]
  /\ UNCHANGED <<fresh, done, job, results, pass, revoking, agents>>

\* claimProbeJob authenticates, then calls Claim until it has a job or has waited enough.
ClaimRequest(p) ==
  /\ poll[p] = "none" /\ agent[p] = NoRun
  /\ Authenticated(p)
  /\ poll' = [poll EXCEPT ![p] = node[p].status]
  /\ UNCHANGED <<node, fresh, done, job, results, pass, revoking, agent, inflight>>

Requeueable(j) ==
  job[j].status = "leased" /\ job[j].lease = 0 /\ job[j].ttl > 0 /\ job[j].attempts < MaxAttempts

\* The rows as the two UPDATEs of Claim leave them; kept only if a job is leased.
Refreshed(p) ==
  [j \in Jobs |->
     IF j[2] = p /\ Requeueable(j) THEN [job[j] EXCEPT !.status = "queued", !.lease = 0]
     ELSE IF j[2] = p /\ Expirable(j) THEN [job[j] EXCEPT !.status = "expired"]
     ELSE job[j]]

Claimable(p, r) ==
  /\ Refreshed(p)[<<r, p>>].status = "queued" /\ job[<<r, p>>].ttl > 0
  /\ ~JobLocked(<<r, p>>)

LeaseFor(ttl) == Smaller(JobLease, ttl)

Claim(p, r) ==
  LET rows == Refreshed(p)
      j == <<r, p>>
  IN
  /\ poll[p] = "ONLINE"
  /\ \A k \in Jobs : rows[k] # job[k] => ~JobLocked(k)
  /\ Claimable(p, r)
  /\ \A q \in Runs : Claimable(p, q) => job[j].ttl <= job[<<q, p>>].ttl
  /\ job' = [rows EXCEPT ![j] = [rows[j] EXCEPT !.status = "leased",
                                                !.lease = LeaseFor(rows[j].ttl),
                                                !.attempts = rows[j].attempts + 1]]
  /\ poll' = [poll EXCEPT ![p] = "none"]
  /\ agent' = [agent EXCEPT ![p] = r]
  /\ UNCHANGED <<node, fresh, done, results, pass, revoking, inflight>>

\* 204, 403, or the connection is gone.
ClaimEnds(p) ==
  /\ poll[p] # "none"
  /\ poll' = [poll EXCEPT ![p] = "none"]
  /\ UNCHANGED <<node, fresh, done, job, results, pass, revoking, agent, inflight>>

\* The agent has checked the domain and sends the signed envelope, once.
Submit(p) ==
  /\ agent[p] # NoRun
  /\ agent' = [agent EXCEPT ![p] = NoRun]
  /\ inflight' = IF Authenticated(p) THEN inflight \cup {<<agent[p], p>>} ELSE inflight
  /\ UNCHANGED <<node, fresh, done, job, results, pass, revoking, poll>>

\* The agent stops, gets no answer to its claim or rejects the job.
AgentStops(p) ==
  /\ agent[p] # NoRun
  /\ agent' = [agent EXCEPT ![p] = NoRun]
  /\ UNCHANGED <<node, fresh, done, job, results, pass, revoking, poll, inflight>>

Accepts(j) == job[j].status = "leased" /\ job[j].ttl > 0 /\ job[j].lease > 0

\* UNIQUE (job_id), (probe_node_id, nonce) and (monitoring_run_id, vantage_key)
SubmitResult(j) ==
  /\ j \in inflight
  /\ ~JobLocked(j)
  /\ inflight' = inflight \ {j}
  /\ \/ /\ Accepts(j) /\ j \notin results
        /\ results' = results \cup {j}
        /\ job' = [job EXCEPT ![j] = [job[j] EXCEPT !.status = "completed", !.lease = 0]]
     \/ /\ ~(Accepts(j) /\ j \notin results)
        /\ UNCHANGED <<results, job>>
  /\ UNCHANGED <<node, fresh, done, pass, revoking, poll, agent>>

\* The request is lost, or refused before it reaches the job (clock skew, payload size).
SubmissionLost(j) ==
  /\ j \in inflight
  /\ inflight' = inflight \ {j}
  /\ UNCHANGED <<node, fresh, done, job, results, pass, revoking, poll, agent>>

-----------------------------------------------------------------------------
(* Revoke: the node, its tokens and its jobs; then it waits for the audit  *)
(* chain's lock before it commits.                                         *)

RevokeBegin(p) ==
  LET cancelled == {j \in Jobs : j[2] = p /\ IsLive(j)} IN
  /\ node[p].status # "REVOKED"
  /\ ~NodeLocked(p)
  /\ \A j \in cancelled : ~JobLocked(j)
  /\ revoking' = [revoking EXCEPT ![p] = [open |-> TRUE, jobs |-> cancelled]]
  /\ UNCHANGED <<node, fresh, done, job, results, pass, agents>>

RevokeCommit(p) ==
  /\ revoking[p].open
  /\ node' = [node EXCEPT ![p] = [node[p] EXCEPT !.status = "REVOKED"]]
  /\ job' = [j \in Jobs |-> IF j \in revoking[p].jobs
                            THEN [job[j] EXCEPT !.status = "cancelled"] ELSE job[j]]
  /\ revoking' = [revoking EXCEPT ![p] = NotRevoking]
  /\ UNCHANGED <<fresh, done, results, pass, agents>>

Older(n) == IF n > 0 THEN n - 1 ELSE 0

Tick ==
  /\ node' = [p \in Probes |-> [node[p] EXCEPT !.seen = Smaller(node[p].seen + 1, StaleAfter + 1)]]
  /\ job' = [j \in Jobs |->
               [job[j] EXCEPT !.ttl = Older(job[j].ttl), !.lease = Older(job[j].lease)]]
  /\ UNCHANGED <<fresh, done, results, pass, revoking, agents>>

Next ==
  \/ \E r \in Runs : RunCompletes(r)
  \/ RunAges
  \/ \E s \in Schedulers : \/ \E p \in Probes \cup {NoProbe} : DispatchBegin(s, p)
                           \/ DispatchSelect(s)
                           \/ DispatchCommit(s)
                           \/ DispatchRollback(s)
  \/ \E p \in Probes : \/ \E status \in Healths : Heartbeat(p, status)
                       \/ ClaimRequest(p)
                       \/ \E r \in Runs : Claim(p, r)
                       \/ ClaimEnds(p)
                       \/ Submit(p)
                       \/ AgentStops(p)
                       \/ RevokeBegin(p)
                       \/ RevokeCommit(p)
  \/ \E j \in Jobs : SubmitResult(j) \/ SubmissionLost(j)
  \/ Tick

Spec == Init /\ [][Next]_vars

(***************************************************************************)
(* Fairness: the clock runs, the scheduler's loop makes its passes, passes *)
(* do not fail for ever, one that meets a conflict rolls back, and an open *)
(* Revoke commits.  Nothing is assumed of probes.                          *)
(***************************************************************************)
Fairness ==
  /\ WF_vars(Tick)
  /\ \A s \in Schedulers : /\ WF_vars(\E p \in Probes \cup {NoProbe} : DispatchBegin(s, p))
                           /\ SF_vars(DispatchSelect(s))
                           /\ SF_vars(DispatchCommit(s))
                           /\ WF_vars(Conflict(s) /\ DispatchRollback(s))
  /\ \A p \in Probes : WF_vars(RevokeCommit(p))

FairSpec == Spec /\ Fairness

-----------------------------------------------------------------------------
(***************************************************************************)
(* However leases, submissions, expiry and revocation interleave, a job    *)
(* has a result exactly when it is completed: no result is stored for a    *)
(* job that ends expired or cancelled, and none is lost.                   *)
(***************************************************************************)
ResultIffCompleted == \A j \in Jobs : j \in results <=> job[j].status = "completed"

(***************************************************************************)
(* A settled job stays as it is: no late submission, no second scheduler   *)
(* and no revocation that began earlier reopens or relabels it.            *)
(***************************************************************************)
SettledIsFinal ==
  [][ \A j \in Jobs : job[j].status \in Settled => job'[j].status = job[j].status ]_vars

(***************************************************************************)
(* A lease never outlives its job, however often the job was leased again: *)
(* a probe is not promised time in which its result would be refused.      *)
(***************************************************************************)
LeaseWithinJob == \A j \in Jobs : job[j].lease <= job[j].ttl

(***************************************************************************)
(* Every job ends: whatever probes do, it is completed, expired or         *)
(* cancelled in the end.                                                   *)
(***************************************************************************)
JobsSettle == \A j \in Jobs : IsLive(j) ~> job[j].status \in Settled

(***************************************************************************)
(* A revoked probe stays revoked, and from some time on it has no live job *)
(* and stores no result.                                                   *)
(***************************************************************************)
RevokedFallsSilent ==
  \A p \in Probes : node[p].status = "REVOKED" ~>
    [](node[p].status = "REVOKED" /\ \A j \in Jobs : j[2] = p => ~IsLive(j))
=============================================================================
