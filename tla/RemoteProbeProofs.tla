------------------------- MODULE RemoteProbeProofs --------------------------
(***************************************************************************)
(* ResultIffCompleted, LeaseWithinJob and SettledIsFinal for any number of *)
(* probes, runs and schedulers.  An open transaction settles jobs that it  *)
(* saw live some steps earlier; that they still are is what the row locks  *)
(* buy, and what LockInv states: a locked job is live, and the transaction *)
(* that holds it is the only one.  The last section is about SheetSync,    *)
(* whose schedulers commit under a row lock too.                           *)
(***************************************************************************)
EXTENDS RemoteProbe, SheetSync, TLAPS

\* The module is large: every leaf may take longer than the default of the provers.
USE SMTT(15), ZenonT(15)

\* Job rows keep to the table's types, and a job in the queue has an attempt left.
JobInv ==
  /\ job \in [Jobs -> JobRows]
  /\ \A j \in Jobs : job[j].status = "queued" => job[j].attempts < MaxAttempts
  /\ LeaseWithinJob

\* The open transactions, as far as the jobs they hold are concerned.
HoldInv ==
  /\ DOMAIN pass = Schedulers /\ pass = [s \in Schedulers |-> pass[s]]
  /\ \A s \in Schedulers : "expired" \in DOMAIN pass[s] /\ pass[s].expired \in SUBSET Jobs
  /\ revoking \in [Probes -> [open : BOOLEAN, jobs : SUBSET Jobs]]

LockInv ==
  /\ \A s \in Schedulers : \A j \in pass[s].expired : IsLive(j)
  /\ \A p \in Probes : \A j \in revoking[p].jobs : j[2] = p /\ IsLive(j)
  /\ \A s, t \in Schedulers : s # t => pass[s].expired \cap pass[t].expired = {}
  /\ \A s \in Schedulers, p \in Probes : pass[s].expired \cap revoking[p].jobs = {}

IInv == JobInv /\ HoldInv /\ LockInv /\ ResultIffCompleted /\ results \in SUBSET Jobs

(* What a step may do to the jobs when the open transactions stay as they  *)
(* are: settled jobs keep their status, and locked ones are left alone.    *)
Gentle ==
  \A j \in Jobs : /\ job[j].status \in Settled => job'[j].status = job[j].status
                  /\ JobLocked(j) => job'[j].status = job[j].status

\* The initial state satisfies the inductive invariant.
LEMMA InitInv == Init => IInv
<1> SUFFICES ASSUME Init PROVE IInv
  BY Zenon
<1> USE ProbeAssumption
<1>1. JobInv
  BY DEF Init, JobInv, JobRows, Live, Settled, Jobs, LeaseWithinJob
<1>2. HoldInv
  BY Zenon DEF Init, HoldInv, NoPass, NotRevoking
<1>3. LockInv
  BY Zenon DEF Init, LockInv, NoPass, NotRevoking
<1>4. ResultIffCompleted /\ results \in SUBSET Jobs
  BY Zenon DEF Init, ResultIffCompleted
<1> QED
  BY <1>1, <1>2, <1>3, <1>4, Zenon DEF IInv

\* The locks survive a gentle step that leaves the transactions unchanged.
LEMMA LocksKept ==
  ASSUME IInv, Gentle, UNCHANGED <<pass, revoking>>
  PROVE  HoldInv' /\ LockInv'
<1>1. HoldInv'
  BY Zenon DEF IInv, HoldInv
<1>2. ASSUME NEW s \in Schedulers, NEW j \in pass[s].expired
      PROVE  IsLive(j)'
  <2>1. j \in Jobs /\ JobLocked(j) /\ IsLive(j)
    BY <1>2, Zenon DEF IInv, HoldInv, LockInv, JobLocked
  <2> QED
    BY <2>1, Zenon DEF Gentle, IsLive
<1>3. ASSUME NEW p \in Probes, NEW j \in revoking[p].jobs
      PROVE  j[2] = p /\ IsLive(j)'
  <2>1. j \in Jobs /\ JobLocked(j) /\ IsLive(j) /\ j[2] = p
    BY <1>3, Zenon DEF IInv, HoldInv, LockInv, JobLocked
  <2> QED
    BY <2>1, Zenon DEF Gentle, IsLive
<1>4. LockInv'
  BY <1>2, <1>3, Zenon DEF IInv, LockInv
<1> QED
  BY <1>1, <1>4, Zenon

\* A row of the table keeps its type when a step sets its status.
LEMMA StatusTyped ==
  ASSUME NEW row \in JobRows, NEW s \in Live \cup Settled \cup {"absent"}
  PROVE  /\ [row EXCEPT !.status = s] \in JobRows
         /\ [row EXCEPT !.status = s].status = s
         /\ [row EXCEPT !.status = s].attempts = row.attempts
         /\ [row EXCEPT !.status = s].lease = row.lease
         /\ [row EXCEPT !.status = s].ttl = row.ttl
BY Zenon DEF JobRows

\* ... and when it also ends its lease.
LEMMA ReleaseTyped ==
  ASSUME NEW row \in JobRows, NEW s \in Live \cup Settled \cup {"absent"}
  PROVE  /\ [row EXCEPT !.status = s, !.lease = 0] \in JobRows
         /\ [row EXCEPT !.status = s, !.lease = 0].status = s
         /\ [row EXCEPT !.status = s, !.lease = 0].attempts = row.attempts
         /\ [row EXCEPT !.status = s, !.lease = 0].lease <= [row EXCEPT !.status = s, !.lease = 0].ttl
<1> DEFINE new == [row EXCEPT !.status = s, !.lease = 0]
<1>1. row.ttl \in 0 .. JobTTL /\ 0 \in 0 .. JobLease
  BY ProbeAssumption DEF JobRows
<1>2. new \in JobRows
  BY <1>1, Zenon DEF JobRows
<1>3. new.status = s /\ new.attempts = row.attempts
  BY Zenon DEF JobRows
<1>4. new.lease = 0 /\ new.ttl = row.ttl
  BY Zenon DEF JobRows
<1> HIDE DEF new
<1>5. new.lease <= new.ttl
  BY <1>1, <1>4, ProbeAssumption
<1> USE DEF new
<1> QED
  BY <1>2, <1>3, <1>5, Zenon

\* The jobs table is a function, row by row.
LEMMA TableTyped ==
  ASSUME NEW table, table = [j \in Jobs |-> table[j]], \A j \in Jobs : table[j] \in JobRows
  PROVE  table \in [Jobs -> JobRows]
BY Zenon

\* Claim's two UPDATEs change only rows that are unlocked and not settled.
LEMMA RefreshedRows ==
  ASSUME IInv, NEW p \in Probes, NEW j \in Jobs
  PROVE  /\ Refreshed(p)[j] \in JobRows
         /\ Refreshed(p)[j].status = "queued" => Refreshed(p)[j].attempts < MaxAttempts
         /\ job[j].status \in Settled \cup {"absent"} => Refreshed(p)[j] = job[j]
         /\ Refreshed(p)[j].status = "completed" <=> job[j].status = "completed"
         /\ Refreshed(p)[j].lease <= Refreshed(p)[j].ttl
<1> DEFINE new == Refreshed(p)[j]
<1> USE ProbeAssumption
<1>0. /\ job[j] \in JobRows /\ (job[j].status = "queued" => job[j].attempts < MaxAttempts)
      /\ job[j].lease <= job[j].ttl
  BY Zenon DEF IInv, JobInv, LeaseWithinJob
<1>1. CASE j[2] = p /\ Requeueable(j)
  <2>1. new = [job[j] EXCEPT !.status = "queued", !.lease = 0]
    BY <1>1, Zenon DEF Refreshed
  <2>2. "queued" \in Live \cup Settled \cup {"absent"}
    BY Zenon DEF Live
  <2> HIDE DEF new
  <2>3. /\ new \in JobRows /\ new.status = "queued" /\ new.attempts = job[j].attempts
        /\ new.lease <= new.ttl
    BY <1>0, <2>1, <2>2, ReleaseTyped, Zenon
  <2> USE DEF new
  <2> QED
    BY <1>0, <1>1, <2>3, Zenon DEF Requeueable, Settled
<1>2. CASE ~(j[2] = p /\ Requeueable(j)) /\ j[2] = p /\ Expirable(j)
  <2>1. new = [job[j] EXCEPT !.status = "expired"]
    BY <1>2, Zenon DEF Refreshed
  <2>2. new \in JobRows /\ new.status = "expired" /\ new.lease <= new.ttl
    BY <1>0, <2>1, Zenon DEF JobRows, Settled
  <2> QED
    BY <1>2, <2>2, Zenon DEF Expirable, IsLive, Live, Settled
<1>3. CASE ~(j[2] = p /\ Requeueable(j)) /\ ~(j[2] = p /\ Expirable(j))
  <2>1. new = job[j]
    BY <1>3, Zenon DEF Refreshed
  <2> QED
    BY <1>0, <2>1, Zenon
<1> QED
  BY <1>1, <1>2, <1>3, Zenon

\* What every step does to the jobs that are settled.
Final == \A j \in Jobs : job[j].status \in Settled => job'[j].status = job[j].status

\* Steps that touch neither jobs nor the transactions that hold them.
LEMMA QuietStep ==
  ASSUME IInv, UNCHANGED <<job, results, pass, revoking>>
  PROVE  IInv' /\ Final
<1>1. JobInv' /\ HoldInv' /\ LockInv' /\ ResultIffCompleted' /\ results' \in SUBSET Jobs
  BY DEF IInv, JobInv, HoldInv, LockInv, ResultIffCompleted, IsLive, LeaseWithinJob
<1> QED
  BY <1>1, Zenon DEF IInv, Final

\* DispatchBegin locks the jobs that have expired; none of them was locked.
LEMMA DispatchBeginStep ==
  ASSUME IInv, NEW s \in Schedulers, NEW p \in Probes \cup {NoProbe}, DispatchBegin(s, p)
  PROVE  IInv' /\ Final
<1> DEFINE expired == {j \in Jobs : Expirable(j)}
           runs == IF p = NoProbe THEN <<>> ELSE Without(p)
           new == [ phase |-> "selecting", offline |-> {q \in Probes : Stale(q)}, expired |-> expired,
                    probe |-> p, runs |-> runs ]
<1>1. /\ pass' = [pass EXCEPT ![s] = new]
      /\ \A j \in expired : ~JobLocked(j)
      /\ UNCHANGED <<job, results, revoking>>
  BY Zenon DEF DispatchBegin
<1>2. new.expired = expired /\ "expired" \in DOMAIN new
  BY Zenon
<1>3. \A t \in Schedulers : pass'[t] = IF t = s THEN new ELSE pass[t]
  BY <1>1, Zenon DEF IInv, HoldInv
<1>4. expired \in SUBSET Jobs /\ \A j \in expired : IsLive(j)
  BY Zenon DEF Expirable
<1> HIDE DEF expired, new, runs
<1>5. HoldInv'
  <2>1. DOMAIN pass' = Schedulers /\ pass' = [t \in Schedulers |-> pass'[t]]
    BY <1>1, Zenon DEF IInv, HoldInv
  <2> QED
    BY <1>1, <1>2, <1>3, <1>4, <2>1, Zenon DEF IInv, HoldInv
<1>6. \A t \in Schedulers : \A j \in pass[t].expired : j \notin expired
  BY <1>1, Zenon DEF JobLocked
<1>7. \A q \in Probes : \A j \in revoking[q].jobs : j \notin expired
  BY <1>1, Zenon DEF JobLocked
<1>8. \A t \in Schedulers : pass'[t].expired = IF t = s THEN expired ELSE pass[t].expired
  BY <1>2, <1>3, Zenon
<1>9. LockInv'
  <2>1. \A t \in Schedulers : \A j \in pass'[t].expired : IsLive(j)'
    BY <1>1, <1>4, <1>8 DEF IInv, LockInv, IsLive
  <2>2. \A q \in Probes : \A j \in revoking'[q].jobs : j[2] = q /\ IsLive(j)'
    BY <1>1, Zenon DEF IInv, LockInv, IsLive
  <2>3. \A t, u \in Schedulers : t # u => pass'[t].expired \cap pass'[u].expired = {}
    BY <1>6, <1>8, Zenon DEF IInv, LockInv
  <2>4. \A t \in Schedulers, q \in Probes : pass'[t].expired \cap revoking'[q].jobs = {}
    BY <1>1, <1>7, <1>8 DEF IInv, LockInv
  <2> QED
    BY <2>1, <2>2, <2>3, <2>4, Zenon DEF LockInv
<1>10. JobInv' /\ ResultIffCompleted' /\ results' \in SUBSET Jobs
  BY <1>1, Zenon DEF IInv, JobInv, ResultIffCompleted, LeaseWithinJob
<1> QED
  BY <1>1, <1>5, <1>9, <1>10, Zenon DEF IInv, Final

\* Selecting runs, or rolling back, locks no further job.
LEMMA FewerLocks ==
  ASSUME IInv, NEW s \in Schedulers, NEW new, "expired" \in DOMAIN new,
         new.expired \in {pass[s].expired, {}},
         pass' = [pass EXCEPT ![s] = new], UNCHANGED <<job, results, revoking>>
  PROVE  IInv' /\ Final
<1>1. \A t \in Schedulers : pass'[t] = IF t = s THEN new ELSE pass[t]
  BY Zenon DEF IInv, HoldInv
<1>2. \A t \in Schedulers : pass'[t].expired \subseteq pass[t].expired
  BY <1>1, Zenon
<1>3. HoldInv'
  <2>1. DOMAIN pass' = Schedulers /\ pass' = [t \in Schedulers |-> pass'[t]]
    BY Zenon DEF IInv, HoldInv
  <2>2. \A t \in Schedulers : "expired" \in DOMAIN pass'[t] /\ pass'[t].expired \in SUBSET Jobs
    BY <1>1, <1>2, Zenon DEF IInv, HoldInv
  <2> QED
    BY <2>1, <2>2, Zenon DEF IInv, HoldInv
<1>4. LockInv'
  BY <1>2, Zenon DEF IInv, LockInv, IsLive
<1>5. JobInv' /\ ResultIffCompleted' /\ results' \in SUBSET Jobs
  BY Zenon DEF IInv, JobInv, ResultIffCompleted, LeaseWithinJob
<1> QED
  BY <1>3, <1>4, <1>5, Zenon DEF IInv, Final

\* A pass commits: it settles the jobs it holds and inserts jobs that do not exist.
LEMMA DispatchCommitStep ==
  ASSUME IInv, NEW s \in Schedulers, DispatchCommit(s)
  PROVE  IInv' /\ Final
<1> USE ProbeAssumption
<1>1. /\ ~Conflict(s)
      /\ job' = [j \in Jobs |->
               IF j \in pass[s].expired THEN [job[j] EXCEPT !.status = "expired"]
               ELSE IF j[1] \in Range(pass[s].runs) /\ j[2] = pass[s].probe THEN Queued
               ELSE job[j]]
      /\ pass' = [pass EXCEPT ![s] = NoPass]
      /\ UNCHANGED <<results, revoking>>
  BY Zenon DEF DispatchCommit
<1>2. ASSUME NEW j \in Jobs
      PROVE  \/ /\ j \in pass[s].expired /\ IsLive(j)
                /\ job'[j] \in JobRows /\ job'[j].status = "expired" /\ job'[j].lease <= job'[j].ttl
             \/ /\ j \notin pass[s].expired /\ job[j].status = "absent" /\ job'[j] = Queued
             \/ /\ j \notin pass[s].expired /\ job'[j] = job[j]
  <2>1. CASE j \in pass[s].expired
    <3>1. /\ job'[j] = [job[j] EXCEPT !.status = "expired"]
          /\ job[j] \in JobRows /\ IsLive(j)
          /\ job[j].lease <= job[j].ttl
      BY <1>1, <2>1, Zenon DEF IInv, JobInv, LockInv, LeaseWithinJob
    <3>2. "expired" \in Live \cup Settled \cup {"absent"}
      BY Zenon DEF Settled
    <3> QED
      BY <2>1, <3>1, <3>2, StatusTyped
  <2>2. CASE j \notin pass[s].expired /\ j[1] \in Range(pass[s].runs) /\ j[2] = pass[s].probe
    <3>1. j = <<j[1], j[2]>>
      BY DEF Jobs
    <3>2. job'[j] = Queued
      BY <1>1, <2>2, Zenon
    <3>3. job[j].status = "absent"
      BY <1>1, <2>2, <3>1, Zenon DEF Conflict
    <3> QED
      BY <2>2, <3>2, <3>3, Zenon
  <2>3. CASE j \notin pass[s].expired /\ ~(j[1] \in Range(pass[s].runs) /\ j[2] = pass[s].probe)
    BY <1>1, <2>3, Zenon
  <2> QED
    BY <2>1, <2>2, <2>3, Zenon
<1>3. /\ Queued \in JobRows /\ Queued.status = "queued" /\ Queued.attempts < MaxAttempts
      /\ Queued.lease <= Queued.ttl
  BY DEF Queued, JobRows, Live
<1>4. JobInv'
  <2>1. \A j \in Jobs : /\ job'[j] \in JobRows
                        /\ job'[j].status = "queued" => job'[j].attempts < MaxAttempts
                        /\ job'[j].lease <= job'[j].ttl
    BY <1>2, <1>3, Zenon DEF IInv, JobInv, LeaseWithinJob
  <2>2. job' = [j \in Jobs |-> job'[j]]
    BY <1>1, Zenon
  <2>3. job' \in [Jobs -> JobRows]
    BY <2>1, <2>2, TableTyped, Zenon
  <2> QED
    BY <2>1, <2>3, Zenon DEF JobInv, LeaseWithinJob
<1>5. ResultIffCompleted' /\ results' \in SUBSET Jobs /\ Final
  BY <1>1, <1>2, <1>3, Zenon DEF IInv, ResultIffCompleted, Final, IsLive, Live, Settled
<1>6. \A t \in Schedulers : pass'[t] = IF t = s THEN NoPass ELSE pass[t]
  BY <1>1, Zenon DEF IInv, HoldInv
<1>7. NoPass.expired = {} /\ "expired" \in DOMAIN NoPass
  BY Zenon DEF NoPass
<1>8. HoldInv'
  <2>1. DOMAIN pass' = Schedulers /\ pass' = [t \in Schedulers |-> pass'[t]]
    BY <1>1, Zenon DEF IInv, HoldInv
  <2> QED
    BY <1>1, <1>6, <1>7, <2>1, Zenon DEF IInv, HoldInv
<1>9. \A j \in Jobs : IsLive(j) /\ j \notin pass[s].expired => IsLive(j)'
  BY <1>2, Zenon DEF IsLive, Live
<1>10. \A t \in Schedulers : pass'[t].expired = IF t = s THEN {} ELSE pass[t].expired
  BY <1>6, <1>7, Zenon
<1>11. LockInv'
  <2>1. ASSUME NEW t \in Schedulers, NEW j \in pass'[t].expired PROVE IsLive(j)'
    <3>1. t # s /\ j \in pass[t].expired
      BY <1>10, <2>1, Zenon
    <3>2. j \in Jobs /\ IsLive(j) /\ j \notin pass[s].expired
      BY <3>1, Zenon DEF IInv, HoldInv, LockInv
    <3> QED
      BY <1>9, <3>2, Zenon
  <2>2. ASSUME NEW q \in Probes, NEW j \in revoking'[q].jobs PROVE j[2] = q /\ IsLive(j)'
    <3>1. j \in revoking[q].jobs
      BY <1>1, Zenon
    <3>2. j \in Jobs /\ IsLive(j) /\ j[2] = q /\ j \notin pass[s].expired
      BY <3>1, Zenon DEF IInv, HoldInv, LockInv
    <3> QED
      BY <1>9, <3>2, Zenon
  <2>3. \A t, u \in Schedulers : t # u => pass'[t].expired \cap pass'[u].expired = {}
    BY <1>10, Zenon DEF IInv, LockInv
  <2>4. \A t \in Schedulers, q \in Probes : pass'[t].expired \cap revoking'[q].jobs = {}
    BY <1>1, <1>10 DEF IInv, LockInv
  <2> QED
    BY <2>1, <2>2, <2>3, <2>4, Zenon DEF LockInv
<1> QED
  BY <1>4, <1>5, <1>8, <1>11, Zenon DEF IInv

\* A probe leases a job: no settled and no locked job changes its status.
LEMMA ClaimStep ==
  ASSUME IInv, NEW p \in Probes, NEW r \in Runs, Claim(p, r)
  PROVE  IInv' /\ Final
<1> USE ProbeAssumption
<1> DEFINE rows == Refreshed(p)
           j == <<r, p>>
           new == [rows[j] EXCEPT !.status = "leased", !.lease = LeaseFor(rows[j].ttl),
                                  !.attempts = rows[j].attempts + 1]
<1>1. /\ \A k \in Jobs : rows[k] # job[k] => ~JobLocked(k)
      /\ rows[j].status = "queued" /\ ~JobLocked(j)
      /\ job' = [rows EXCEPT ![j] = new]
      /\ UNCHANGED <<results, pass, revoking>>
  BY Zenon DEF Claim, Claimable
<1>2. j \in Jobs
  BY Zenon DEF Jobs
<1>0. rows = [k \in Jobs |-> rows[k]]
  BY Zenon DEF Refreshed
<1> HIDE DEF rows, new
<1>3. \A k \in Jobs : job'[k] = IF k = j THEN new ELSE rows[k]
  BY <1>0, <1>1, <1>2, Zenon
<1>4. job' = [k \in Jobs |-> job'[k]]
  BY <1>0, <1>1, Zenon
<1> USE DEF rows, new
<1>5. rows[j] \in JobRows /\ rows[j].attempts < MaxAttempts
  BY <1>1, <1>2, RefreshedRows, Zenon
<1>6. new \in JobRows /\ new.status = "leased" /\ new.lease <= new.ttl
  <2>1. rows[j].attempts + 1 \in 0 .. MaxAttempts
    BY <1>5 DEF JobRows
  <2>2. LeaseFor(rows[j].ttl) \in 0 .. JobLease /\ LeaseFor(rows[j].ttl) <= rows[j].ttl
    BY <1>5 DEF JobRows, LeaseFor, Smaller
  <2> QED
    BY <1>5, <2>1, <2>2, Zenon DEF JobRows, Live
<1>7. job[j].status \notin Settled
  BY <1>1, <1>2, RefreshedRows, Zenon DEF Settled
<1> HIDE DEF rows, j, new
<1>8. \A k \in Jobs : /\ rows[k] \in JobRows
                      /\ rows[k].status = "queued" => rows[k].attempts < MaxAttempts
                      /\ job[k].status \in Settled \cup {"absent"} => rows[k] = job[k]
                      /\ rows[k].status = "completed" <=> job[k].status = "completed"
                      /\ rows[k].lease <= rows[k].ttl
  BY RefreshedRows, Zenon DEF rows
<1>9. JobInv'
  <2>1. \A k \in Jobs : /\ job'[k] \in JobRows
                        /\ job'[k].status = "queued" => job'[k].attempts < MaxAttempts
                        /\ job'[k].lease <= job'[k].ttl
    BY <1>3, <1>6, <1>8, Zenon
  <2>2. job' \in [Jobs -> JobRows]
    BY <1>4, <2>1, TableTyped, Zenon
  <2> QED
    BY <2>1, <2>2, Zenon DEF JobInv, LeaseWithinJob
<1>10. ResultIffCompleted' /\ results' \in SUBSET Jobs
  BY <1>1, <1>2, <1>3, <1>6, <1>7, <1>8 DEF IInv, ResultIffCompleted, Settled
<1>11. Gentle
  BY <1>1, <1>3, <1>7, <1>8, Zenon DEF Gentle
<1>12. HoldInv' /\ LockInv'
  BY <1>1, <1>11, LocksKept, Zenon
<1> QED
  BY <1>9, <1>10, <1>11, <1>12, Zenon DEF IInv, Gentle, Final

\* A submission is stored under the job's row lock, or refused.
LEMMA SubmitResultStep ==
  ASSUME IInv, NEW j \in Jobs, SubmitResult(j)
  PROVE  IInv' /\ Final
<1> USE ProbeAssumption
<1>1. CASE ~(Accepts(j) /\ j \notin results)
  <2>1. UNCHANGED <<job, results, pass, revoking>>
    BY <1>1, Zenon DEF SubmitResult
  <2> QED
    BY <2>1, QuietStep, Zenon
<1>2. CASE Accepts(j) /\ j \notin results
  <2> DEFINE new == [job[j] EXCEPT !.status = "completed", !.lease = 0]
  <2>1. /\ results' = results \cup {j} /\ job' = [job EXCEPT ![j] = new]
        /\ ~JobLocked(j) /\ UNCHANGED <<pass, revoking>>
    BY <1>2, Zenon DEF SubmitResult
  <2>2. new \in JobRows /\ new.status = "completed" /\ new.lease <= new.ttl
    <3>1. "completed" \in Live \cup Settled \cup {"absent"}
      BY Zenon DEF Settled
    <3>2. job[j] \in JobRows
      BY Zenon DEF IInv, JobInv
    <3> QED
      BY <3>1, <3>2, ReleaseTyped, Zenon
  <2>3. job[j].status = "leased"
    BY <1>2, Zenon DEF Accepts
  <2> HIDE DEF new
  <2>4. \A k \in Jobs : job'[k] = IF k = j THEN new ELSE job[k]
    BY <2>1, Zenon DEF IInv, JobInv
  <2>5. JobInv'
    <3>1. \A k \in Jobs : /\ job'[k] \in JobRows
                          /\ job'[k].status = "queued" => job'[k].attempts < MaxAttempts
                          /\ job'[k].lease <= job'[k].ttl
      BY <2>2, <2>4, Zenon DEF IInv, JobInv, LeaseWithinJob
    <3>2. job' = [k \in Jobs |-> job'[k]]
      BY <2>1, Zenon DEF IInv, JobInv
    <3>3. job' \in [Jobs -> JobRows]
      BY <3>1, <3>2, TableTyped, Zenon
    <3> QED
      BY <3>1, <3>3, Zenon DEF JobInv, LeaseWithinJob
  <2>6. ResultIffCompleted' /\ results' \in SUBSET Jobs
    BY <2>1, <2>2, <2>4, Zenon DEF IInv, ResultIffCompleted
  <2>7. Gentle
    BY <2>1, <2>3, <2>4, Zenon DEF Gentle, Settled
  <2>8. HoldInv' /\ LockInv'
    BY <2>1, <2>7, LocksKept, Zenon
  <2> QED
    BY <2>5, <2>6, <2>7, <2>8, Zenon DEF IInv, Gentle, Final
<1> QED
  BY <1>1, <1>2, Zenon

\* A revocation begins: it locks the live jobs of its probe.
LEMMA RevokeBeginStep ==
  ASSUME IInv, NEW p \in Probes, RevokeBegin(p)
  PROVE  IInv' /\ Final
<1> DEFINE cancelled == {j \in Jobs : j[2] = p /\ IsLive(j)}
           new == [open |-> TRUE, jobs |-> cancelled]
<1>1. /\ \A j \in cancelled : ~JobLocked(j)
      /\ revoking' = [revoking EXCEPT ![p] = new]
      /\ UNCHANGED <<job, results, pass>>
  BY Zenon DEF RevokeBegin
<1>2. new \in [open : BOOLEAN, jobs : SUBSET Jobs] /\ new.jobs = cancelled
  BY Zenon
<1>3. \A j \in cancelled : j[2] = p /\ IsLive(j)
  BY Zenon
<1>4. \A s \in Schedulers : \A j \in pass[s].expired : j \notin cancelled
  BY <1>1, Zenon DEF JobLocked
<1> HIDE DEF cancelled, new
<1>5. \A q \in Probes : revoking'[q].jobs = IF q = p THEN cancelled ELSE revoking[q].jobs
  BY <1>1, <1>2, Zenon DEF IInv, HoldInv
<1>6. HoldInv'
  BY <1>1, <1>2, Zenon DEF IInv, HoldInv
<1>7. LockInv'
  BY <1>1, <1>3, <1>4, <1>5 DEF IInv, LockInv, IsLive
<1>8. JobInv' /\ ResultIffCompleted' /\ results' \in SUBSET Jobs
  BY <1>1, Zenon DEF IInv, JobInv, ResultIffCompleted, LeaseWithinJob
<1> QED
  BY <1>1, <1>6, <1>7, <1>8, Zenon DEF IInv, Final

\* A revocation commits: it cancels the jobs it holds, which are still live.
LEMMA RevokeCommitStep ==
  ASSUME IInv, NEW p \in Probes, RevokeCommit(p)
  PROVE  IInv' /\ Final
<1> DEFINE held == revoking[p].jobs
<1>1. /\ job' = [j \in Jobs |-> IF j \in held THEN [job[j] EXCEPT !.status = "cancelled"] ELSE job[j]]
      /\ revoking' = [revoking EXCEPT ![p] = NotRevoking]
      /\ UNCHANGED <<results, pass>>
  BY Zenon DEF RevokeCommit
<1>2. ASSUME NEW j \in Jobs
      PROVE  \/ /\ j \in held /\ IsLive(j) /\ job'[j].status = "cancelled"
                /\ job'[j] \in JobRows /\ job'[j].lease <= job'[j].ttl
             \/ j \notin held /\ job'[j] = job[j]
  <2>1. CASE j \in held
    <3>1. /\ job'[j] = [job[j] EXCEPT !.status = "cancelled"] /\ job[j] \in JobRows /\ IsLive(j)
          /\ job[j].lease <= job[j].ttl
      BY <1>1, <2>1, Zenon DEF IInv, JobInv, LockInv, LeaseWithinJob
    <3>2. "cancelled" \in Live \cup Settled \cup {"absent"}
      BY Zenon DEF Settled
    <3> QED
      BY <2>1, <3>1, <3>2, StatusTyped
  <2>2. CASE j \notin held
    BY <1>1, <2>2, Zenon
  <2> QED
    BY <2>1, <2>2, Zenon
<1>3. JobInv'
  <2>1. \A j \in Jobs : /\ job'[j] \in JobRows
                        /\ job'[j].status = "queued" => job'[j].attempts < MaxAttempts
                        /\ job'[j].lease <= job'[j].ttl
    BY <1>2, Zenon DEF IInv, JobInv, LeaseWithinJob
  <2>2. job' = [j \in Jobs |-> job'[j]]
    BY <1>1, Zenon
  <2>3. job' \in [Jobs -> JobRows]
    BY <2>1, <2>2, TableTyped, Zenon
  <2> QED
    BY <2>1, <2>3, Zenon DEF JobInv, LeaseWithinJob
<1>4. ResultIffCompleted' /\ results' \in SUBSET Jobs /\ Final
  BY <1>1, <1>2, Zenon DEF IInv, ResultIffCompleted, Final, IsLive, Live, Settled
<1>5. NotRevoking \in [open : BOOLEAN, jobs : SUBSET Jobs] /\ NotRevoking.jobs = {}
  BY Zenon DEF NotRevoking
<1>6. HoldInv'
  BY <1>1, <1>5, Zenon DEF IInv, HoldInv
<1>7. \A q \in Probes : revoking'[q].jobs = IF q = p THEN {} ELSE revoking[q].jobs
  BY <1>1, <1>5, Zenon DEF IInv, HoldInv
<1>8. \A j \in Jobs : IsLive(j) /\ j \notin held => IsLive(j)'
  BY <1>2, Zenon DEF IsLive
<1>9. LockInv'
  <2>1. ASSUME NEW s \in Schedulers, NEW j \in pass'[s].expired PROVE IsLive(j)'
    <3>1. j \in pass[s].expired
      BY <1>1, Zenon
    <3>2. j \in Jobs /\ IsLive(j) /\ j \notin held
      BY <3>1, Zenon DEF IInv, HoldInv, LockInv
    <3> QED
      BY <1>8, <3>2, Zenon
  <2>2. ASSUME NEW q \in Probes, NEW j \in revoking'[q].jobs PROVE j[2] = q /\ IsLive(j)'
    <3>1. q # p /\ j \in revoking[q].jobs
      BY <1>7, Zenon
    <3>2. j \in Jobs /\ IsLive(j) /\ j[2] = q
      BY <3>1, Zenon DEF IInv, HoldInv, LockInv
    <3>3. j \notin held
      BY <3>1, <3>2, Zenon DEF IInv, LockInv
    <3> QED
      BY <1>8, <3>2, <3>3, Zenon
  <2>3. \A s, t \in Schedulers : s # t => pass'[s].expired \cap pass'[t].expired = {}
    BY <1>1, Zenon DEF IInv, LockInv
  <2>4. \A s \in Schedulers, q \in Probes : pass'[s].expired \cap revoking'[q].jobs = {}
    BY <1>1, <1>7 DEF IInv, LockInv
  <2> QED
    BY <2>1, <2>2, <2>3, <2>4, Zenon DEF LockInv
<1> QED
  BY <1>3, <1>4, <1>6, <1>9, Zenon DEF IInv

\* Time passes: no status changes.
LEMMA TickStep ==
  ASSUME IInv, Tick
  PROVE  IInv' /\ Final
<1> USE ProbeAssumption
<1>1. /\ job' = [j \in Jobs |-> [job[j] EXCEPT !.ttl = Older(job[j].ttl), !.lease = Older(job[j].lease)]]
      /\ UNCHANGED <<results, pass, revoking>>
  BY Zenon DEF Tick
<1>2. ASSUME NEW j \in Jobs
      PROVE  /\ job'[j] \in JobRows /\ job'[j].status = job[j].status
             /\ job'[j].attempts = job[j].attempts /\ job'[j].lease <= job'[j].ttl
  <2>1. job[j] \in JobRows /\ job[j].lease <= job[j].ttl
    BY Zenon DEF IInv, JobInv, LeaseWithinJob
  <2>2. /\ Older(job[j].ttl) \in 0 .. JobTTL /\ Older(job[j].lease) \in 0 .. JobLease
        /\ Older(job[j].lease) <= Older(job[j].ttl)
    BY <2>1 DEF JobRows, Older
  <2>3. job'[j] = [job[j] EXCEPT !.ttl = Older(job[j].ttl), !.lease = Older(job[j].lease)]
    BY <1>1, Zenon
  <2> QED
    BY <2>1, <2>2, <2>3, Zenon DEF JobRows
<1>3. JobInv'
  <2>1. job' = [j \in Jobs |-> job'[j]]
    BY <1>1, Zenon
  <2> QED
    BY <1>2, <2>1, Zenon DEF IInv, JobInv, LeaseWithinJob
<1>4. ResultIffCompleted' /\ results' \in SUBSET Jobs
  BY <1>1, <1>2, Zenon DEF IInv, ResultIffCompleted
<1>5. Gentle
  BY <1>2, Zenon DEF Gentle
<1>6. HoldInv' /\ LockInv'
  BY <1>1, <1>5, LocksKept, Zenon
<1> QED
  BY <1>3, <1>4, <1>5, <1>6, Zenon DEF IInv, Gentle, Final

\* Every step of the system keeps the invariant and leaves settled jobs alone.
LEMMA StepInv == IInv /\ [Next]_vars => IInv' /\ Final
<1> SUFFICES ASSUME IInv, [Next]_vars PROVE IInv' /\ Final
  BY Zenon
<1>1. CASE UNCHANGED vars
  BY <1>1, QuietStep, Zenon DEF vars
<1>2. ASSUME NEW r \in Runs, RunCompletes(r) PROVE IInv' /\ Final
  BY <1>2, QuietStep, Zenon DEF RunCompletes
<1>3. CASE RunAges
  BY <1>3, QuietStep, Zenon DEF RunAges
<1>4. ASSUME NEW s \in Schedulers, NEW p \in Probes \cup {NoProbe}, DispatchBegin(s, p)
      PROVE  IInv' /\ Final
  BY <1>4, DispatchBeginStep, Zenon
<1>5. ASSUME NEW s \in Schedulers, DispatchSelect(s) PROVE IInv' /\ Final
  <2> DEFINE found == SelectSeq(pass[s].runs, LAMBDA r : ~RunLocked(r))
             chosen == SubSeq(found, 1, Smaller(Batch, Len(found)))
             new == [pass[s] EXCEPT !.phase = "inserting", !.runs = chosen]
  <2>1. pass' = [pass EXCEPT ![s] = new] /\ UNCHANGED <<job, results, revoking>>
    BY <1>5, Zenon DEF DispatchSelect
  <2> HIDE DEF found, chosen
  <2>2. "expired" \in DOMAIN new /\ new.expired = pass[s].expired
    BY Zenon DEF IInv, HoldInv
  <2> HIDE DEF new
  <2> QED
    BY <2>1, <2>2, FewerLocks, Zenon
<1>6. ASSUME NEW s \in Schedulers, DispatchCommit(s) PROVE IInv' /\ Final
  BY <1>6, DispatchCommitStep, Zenon
<1>7. ASSUME NEW s \in Schedulers, DispatchRollback(s) PROVE IInv' /\ Final
  <2>1. "expired" \in DOMAIN NoPass /\ NoPass.expired = {}
    BY Zenon DEF NoPass
  <2>2. pass' = [pass EXCEPT ![s] = NoPass] /\ UNCHANGED <<job, results, revoking>>
    BY <1>7, Zenon DEF DispatchRollback
  <2> QED
    BY <2>1, <2>2, FewerLocks, Zenon
<1>8. ASSUME NEW p \in Probes, NEW r \in Runs, Claim(p, r) PROVE IInv' /\ Final
  BY <1>8, ClaimStep, Zenon
<1>9. ASSUME NEW p \in Probes,
             (\E status \in Healths : Heartbeat(p, status)) \/ ClaimRequest(p) \/ ClaimEnds(p)
               \/ Submit(p) \/ AgentStops(p)
      PROVE  IInv' /\ Final
  BY <1>9, QuietStep, Zenon DEF Heartbeat, ClaimRequest, ClaimEnds, Submit, AgentStops
<1>10. ASSUME NEW p \in Probes, RevokeBegin(p) PROVE IInv' /\ Final
  BY <1>10, RevokeBeginStep, Zenon
<1>11. ASSUME NEW p \in Probes, RevokeCommit(p) PROVE IInv' /\ Final
  BY <1>11, RevokeCommitStep, Zenon
<1>12. ASSUME NEW j \in Jobs, SubmitResult(j) PROVE IInv' /\ Final
  BY <1>12, SubmitResultStep, Zenon
<1>13. ASSUME NEW j \in Jobs, SubmissionLost(j) PROVE IInv' /\ Final
  BY <1>13, QuietStep, Zenon DEF SubmissionLost
<1>14. CASE Tick
  BY <1>14, TickStep, Zenon
<1> QED
  BY <1>1, <1>2, <1>3, <1>4, <1>5, <1>6, <1>7, <1>8, <1>9, <1>10, <1>11, <1>12, <1>13, <1>14, Zenon DEF Next

\* The inductive invariant holds of every reachable state.
THEOREM Invariance == Spec => []IInv
BY InitInv, StepInv, PTL DEF Spec

\* A job has a result exactly when it is completed (SubmitResult, DispatchPending, Revoke).
THEOREM ResultsCorrect == Spec => []ResultIffCompleted
<1>1. IInv => ResultIffCompleted
  BY Zenon DEF IInv
<1> QED
  BY <1>1, Invariance, PTL

\* A lease ends with its job at the latest (Claim).
THEOREM LeasesCorrect == Spec => []LeaseWithinJob
<1>1. IInv => LeaseWithinJob
  BY Zenon DEF IInv, JobInv
<1> QED
  BY <1>1, Invariance, PTL

\* Completed, expired and cancelled jobs stay so (all operations on remote_probe_jobs).
THEOREM SettledCorrect == Spec => SettledIsFinal
<1>1. IInv /\ [Next]_vars =>
        [\A j \in Jobs : job[j].status \in Settled => job'[j].status = job[j].status]_vars
  BY StepInv, Zenon DEF Final
<1> QED
  BY <1>1, Invariance, PTL DEF Spec, SettledIsFinal

-----------------------------------------------------------------------------
(***************************************************************************)
(* SheetSync.  A scheduler commits a claim on what it read of the          *)
(* configuration: the row lock keeps that so.                              *)
(***************************************************************************)

Configs == [version : Nat, sheet : Spreadsheets \cup {Nobody}, enabled : BOOLEAN, next : Nat, since : Nat]
Calls == [phase : {"idle", "claiming", "claimed", "fetching", "storing"}, due : Nat,
          sheet : Spreadsheets \cup {Nobody}, hash : Contents \cup {Nobody}]

SyncTypes ==
  /\ syncTime \in Nat \ {0}
  /\ config \in Configs
  /\ sync \in [Syncers -> Calls]
  /\ \A c \in claims : c.at \in Nat /\ c.since \in Nat

\* A scheduler that has locked the row knows what is in it, and is alone.
ConfigLockInv ==
  \A r \in Syncers : sync[r].phase = "claiming" =>
    /\ config.enabled /\ config.next # NotSet /\ sync[r].due = config.next /\ config.next <= syncTime
    /\ \A q \in Syncers : sync[q].phase = "claiming" => q = r

\* The claims of this enabling lie an interval before the next one.
ClaimInv ==
  /\ config.since <= config.version
  /\ \A c \in claims :
       /\ c.since <= config.since
       /\ config.enabled /\ c.since = config.since => c.at + SyncInterval <= config.next

\* A scheduler reads a sheet that somebody configured.
SheetInv ==
  /\ content \in [Spreadsheets -> Contents]
  /\ config.enabled => config.sheet \in Spreadsheets
  /\ \A r \in Syncers :
       /\ sync[r].phase \in {"claiming", "claimed"} => config.sheet \in Spreadsheets
       /\ sync[r].phase = "fetching" => sync[r].sheet \in Spreadsheets

SyncInv == SyncTypes /\ SheetInv /\ NextExactlyIfEnabled /\ ConfigLockInv /\ ClaimInv /\ SyncsAreSpaced

\* Steps that leave configuration, clock and claims alone keep the invariant,
\* if no scheduler takes the lock in them.
LEMMA CallsKeep ==
  ASSUME SyncInv, UNCHANGED <<syncTime, config, claims>>,
         sync' \in [Syncers -> Calls],
         \A r \in Syncers : sync'[r].phase = "claiming" => sync'[r] = sync[r],
         SheetInv'
  PROVE  SyncInv'
<1>1. SyncTypes' /\ NextExactlyIfEnabled' /\ ClaimInv' /\ SyncsAreSpaced'
  BY Zenon DEF SyncInv, SyncTypes, NextExactlyIfEnabled, ClaimInv, SyncsAreSpaced
<1>2. ConfigLockInv'
  BY Zenon DEF SyncInv, ConfigLockInv
<1> QED
  BY <1>1, <1>2, Zenon DEF SyncInv

\* SaveConfig keeps the invariant: a new enabling has no claims yet.
LEMMA SaveKeeps ==
  ASSUME SyncInv, NEW e \in Editors, NEW s \in Spreadsheets, NEW enabled \in BOOLEAN, SaveConfig(e, s, enabled)
  PROVE  SyncInv'
<1> DEFINE since == IF enabled /\ ~config.enabled THEN config.version + 1 ELSE config.since
<1>1. /\ config' = [version |-> config.version + 1, sheet |-> s, enabled |-> enabled, next |-> NextOnSave(enabled), since |-> since]
      /\ UNCHANGED <<syncTime, content, sync, claims>>
      /\ \A r \in Syncers : sync[r].phase # "claiming"
  BY Zenon DEF SaveConfig, ConfigUnlocked
<1>2. /\ syncTime \in Nat \ {0} /\ config.version \in Nat /\ config.since \in Nat /\ config.next \in Nat
      /\ config.enabled \in BOOLEAN
  BY Zenon DEF SyncInv, SyncTypes, Configs
<1>3. /\ NextOnSave(enabled) \in Nat /\ (enabled <=> NextOnSave(enabled) # NotSet)
      /\ enabled /\ config.enabled => NextOnSave(enabled) = config.next
  BY <1>2, Zenon DEF NextOnSave, SyncInv, NextExactlyIfEnabled, NotSet
<1>4. since \in Nat /\ since <= config.version + 1 /\ (enabled /\ ~config.enabled => since > config.version)
  BY <1>2 DEF SyncInv, ClaimInv
<1> HIDE DEF since
<1>5. config' \in Configs
  BY <1>1, <1>2, <1>3, <1>4 DEF Configs
<1>6. /\ config'.version = config.version + 1 /\ config'.enabled = enabled
      /\ config'.next = NextOnSave(enabled) /\ config'.since = since /\ config'.sheet = s
  BY <1>1, Zenon
<1>7. SyncTypes' /\ ConfigLockInv' /\ SyncsAreSpaced'
  BY <1>1, <1>5, Zenon DEF SyncInv, SyncTypes, ConfigLockInv, SyncsAreSpaced
<1>10. SheetInv'
  BY <1>1, <1>6, Zenon DEF SyncInv, SheetInv
<1>8. NextExactlyIfEnabled'
  BY <1>3, <1>6, Zenon DEF NextExactlyIfEnabled, NotSet
<1>9. ClaimInv'
  <2>1. ASSUME NEW c \in claims
        PROVE  /\ c.since <= since
               /\ enabled /\ c.since = since => c.at + SyncInterval <= NextOnSave(enabled)
    <3>1. /\ c.since \in Nat /\ c.since <= config.since /\ config.since <= config.version
          /\ config.enabled /\ c.since = config.since => c.at + SyncInterval <= config.next
      BY Zenon DEF SyncInv, SyncTypes, ClaimInv
    <3>2. CASE enabled /\ ~config.enabled
      <4>1. since > config.version /\ since \in Nat
        BY <3>2, <1>4, Zenon
      <4>2. c.since <= since /\ c.since # since
        BY <4>1, <3>1, <1>2
      <4> QED
        BY <4>2, Zenon
    <3>3. CASE ~(enabled /\ ~config.enabled)
      BY <3>1, <3>3, <1>2, <1>3, Zenon DEF since
    <3> QED
      BY <3>2, <3>3, Zenon
  <2> QED
    BY <2>1, <1>1, <1>4, <1>6, Zenon DEF ClaimInv
<1> QED
  BY <1>7, <1>8, <1>9, <1>10, Zenon DEF SyncInv

\* A configuration with a new time and version is one.
LEMMA ConfigAdvanced ==
  ASSUME NEW c \in Configs, NEW n \in Nat, NEW v \in Nat
  PROVE  [c EXCEPT !.next = n, !.version = v] \in Configs
<1>1. [c EXCEPT !.next = n] \in Configs
  BY Zenon DEF Configs
<1>2. [[c EXCEPT !.next = n] EXCEPT !.version = v] \in Configs
  BY <1>1, Zenon DEF Configs
<1>3. [c EXCEPT !.next = n, !.version = v] = [[c EXCEPT !.next = n] EXCEPT !.version = v]
  BY Zenon DEF Configs
<1> QED
  BY <1>2, <1>3, Zenon

\* ClaimCommit keeps the invariant: what was due when the row was read lies an
\* interval after the last claim.
LEMMA CommitClaimKeeps ==
  ASSUME SyncInv, NEW r \in Syncers, ClaimCommit(r)
  PROVE  SyncInv'
<1> DEFINE new == [due |-> sync[r].due, at |-> syncTime, by |-> r, since |-> config.since]
           later == [config EXCEPT !.next = FromNow(r), !.version = @ + 1]
<1>1. /\ sync[r].phase = "claiming" /\ config' = later /\ claims' = claims \cup {new} /\ UNCHANGED <<syncTime, content>>
      /\ sync' = [sync EXCEPT ![r].phase = "claimed"]
  BY Zenon DEF ClaimCommit
<1>2. /\ syncTime \in Nat \ {0} /\ config \in Configs /\ config.version \in Nat /\ config.since \in Nat /\ config.next \in Nat
      /\ SyncInterval \in Nat \ {0}
  BY SheetSyncAssumption, Zenon DEF SyncInv, SyncTypes, Configs
<1>3. config.enabled /\ config.next <= syncTime /\ \A q \in Syncers : sync[q].phase = "claiming" => q = r
  BY <1>1, Zenon DEF SyncInv, ConfigLockInv
<1>4. /\ later \in Configs /\ later.enabled = config.enabled /\ later.since = config.since /\ later.sheet = config.sheet
      /\ later.next = syncTime + SyncInterval /\ later.version = config.version + 1
  <2>1. FromNow(r) \in Nat /\ FromNow(r) = syncTime + SyncInterval /\ config.version + 1 \in Nat
    BY <1>2 DEF FromNow
  <2> HIDE DEF FromNow
  <2>2. later \in Configs
    BY <1>2, <2>1, ConfigAdvanced, Zenon
  <2>3. later.enabled = config.enabled /\ later.since = config.since /\ later.sheet = config.sheet
    BY <1>2, Zenon DEF Configs
  <2>4. later.next = FromNow(r) /\ later.version = config.version + 1
    BY <1>2, Zenon DEF Configs
  <2> QED
    BY <2>1, <2>2, <2>3, <2>4, Zenon
<1>5. new.at = syncTime /\ new.since = config.since
  BY Zenon
<1>6. ASSUME NEW c \in claims, c.since = config.since
      PROVE  c.at + SyncInterval <= syncTime
  <2>1. c.at \in Nat /\ c.at + SyncInterval <= config.next
    BY <1>3, <1>6, Zenon DEF SyncInv, SyncTypes, ClaimInv
  <2> QED
    BY <2>1, <1>2, <1>3
<1> HIDE DEF new, later
<1>7. /\ sync' \in [Syncers -> Calls]
      /\ \A q \in Syncers : sync'[q].phase # "claiming"
      /\ \A q \in Syncers : sync'[q].phase = "fetching" => sync'[q] = sync[q]
  <2>1. sync[r] \in Calls
    BY Zenon DEF SyncInv, SyncTypes
  <2>2. [sync[r] EXCEPT !.phase = "claimed"] \in Calls /\ [sync[r] EXCEPT !.phase = "claimed"].phase = "claimed"
    BY <2>1, Zenon DEF Calls
  <2> QED
    BY <1>1, <1>3, <2>2, Zenon DEF SyncInv, SyncTypes
<1>8. SyncTypes'
  BY <1>1, <1>2, <1>4, <1>5, <1>7, Zenon DEF SyncInv, SyncTypes
<1>9. NextExactlyIfEnabled'
  BY <1>1, <1>2, <1>3, <1>4 DEF NextExactlyIfEnabled, NotSet
<1>10. ConfigLockInv'
  BY <1>7, Zenon DEF ConfigLockInv
<1>11. ClaimInv'
  <2>1. ASSUME NEW c \in claims
        PROVE  c.since <= config.since /\ (c.since = config.since => c.at + SyncInterval <= syncTime + SyncInterval)
    <3>1. c.since <= config.since /\ c.at \in Nat
      BY Zenon DEF SyncInv, SyncTypes, ClaimInv
    <3> QED
      BY <3>1, <1>2, <1>6
  <2>2. config.since <= config.version + 1
    BY <1>2 DEF SyncInv, ClaimInv
  <2> QED
    BY <2>1, <2>2, <1>1, <1>2, <1>4, <1>5 DEF ClaimInv
<1>12. SyncsAreSpaced'
  <2>1. ASSUME NEW c \in claims', NEW d \in claims', c # d, c.since = d.since
        PROVE  c.at >= d.at + SyncInterval \/ d.at >= c.at + SyncInterval
    <3>1. CASE c \in claims /\ d \in claims
      BY <2>1, <3>1, Zenon DEF SyncInv, SyncsAreSpaced
    <3>2. CASE c = new /\ d \in claims
      BY <2>1, <3>2, <1>5, <1>6, <1>2, Zenon DEF SyncInv, SyncTypes
    <3>3. CASE d = new /\ c \in claims
      BY <2>1, <3>3, <1>5, <1>6, <1>2, Zenon DEF SyncInv, SyncTypes
    <3> QED
      BY <2>1, <3>1, <3>2, <3>3, <1>1, Zenon
  <2> QED
    BY <2>1, Zenon DEF SyncsAreSpaced
<1>13. SheetInv'
  BY <1>1, <1>3, <1>4, <1>7, Zenon DEF SyncInv, SheetInv
<1> QED
  BY <1>8, <1>9, <1>10, <1>11, <1>12, <1>13, Zenon DEF SyncInv

\* ClaimRead keeps the invariant: it finds the row unlocked and due.
LEMMA ReadClaimKeeps ==
  ASSUME SyncInv, NEW r \in Syncers, ClaimRead(r)
  PROVE  SyncInv'
<1> DEFINE call == [NoSync EXCEPT !.phase = "claiming", !.due = config.next]
<1>1. /\ sync' = [sync EXCEPT ![r] = call] /\ UNCHANGED <<syncTime, config, content, claims>>
      /\ config.enabled /\ config.next # NotSet /\ config.next <= syncTime
      /\ \A q \in Syncers : sync[q].phase # "claiming"
  BY Zenon DEF ClaimRead, ConfigUnlocked
<1>2. config.next \in Nat
  BY Zenon DEF SyncInv, SyncTypes, Configs
<1>3. call \in Calls /\ call.phase = "claiming" /\ call.due = config.next
  BY <1>2, Zenon DEF Calls, NoSync, NotSet
<1> HIDE DEF call
<1>4. sync' \in [Syncers -> Calls] /\ sync'[r] = call /\ \A q \in Syncers \ {r} : sync'[q] = sync[q]
  BY <1>1, <1>3, Zenon DEF SyncInv, SyncTypes
<1>5. SyncTypes' /\ NextExactlyIfEnabled' /\ ClaimInv' /\ SyncsAreSpaced'
  BY <1>1, <1>4, Zenon DEF SyncInv, SyncTypes, NextExactlyIfEnabled, ClaimInv, SyncsAreSpaced
<1>6. ConfigLockInv'
  BY <1>1, <1>3, <1>4, Zenon DEF ConfigLockInv
<1>7. SheetInv'
  BY <1>1, <1>3, <1>4, Zenon DEF SyncInv, SheetInv
<1> QED
  BY <1>5, <1>6, <1>7, Zenon DEF SyncInv

\* The other steps of ScheduleDue touch only the call.
LEMMA OtherCallsKeep ==
  ASSUME SyncInv, NEW r \in Syncers, ReadConfig(r) \/ Fetch(r) \/ StorePreview(r) \/ SyncFails(r)
  PROVE  SyncInv'
<1>1. sync \in [Syncers -> Calls] /\ sync[r] \in Calls
  BY Zenon DEF SyncInv, SyncTypes
<1>2. NoSync \in Calls /\ NoSync.phase = "idle"
  BY Zenon DEF NoSync, Calls, NotSet
<1>3. UNCHANGED <<syncTime, config, content, claims>>
  BY Zenon DEF ReadConfig, Fetch, StorePreview, SyncFails
<1>4. \E call \in Calls :
        /\ sync' = [sync EXCEPT ![r] = call]
        /\ call.phase \notin {"claiming", "claimed"} /\ (call.phase = "fetching" => call.sheet \in Spreadsheets)
  <2>1. CASE ReadConfig(r)
    <3> DEFINE call == [sync[r] EXCEPT !.phase = "fetching", !.sheet = config.sheet]
    <3>1. sync' = [sync EXCEPT ![r] = call]
      BY <2>1, <1>1, Zenon DEF ReadConfig
    <3>2. config.sheet \in Spreadsheets
      BY <2>1, Zenon DEF ReadConfig, SyncInv, SheetInv
    <3>3. call \in Calls
      <4>1. [sync[r] EXCEPT !.phase = "fetching"] \in Calls
        BY <1>1, Zenon DEF Calls
      <4>2. [[sync[r] EXCEPT !.phase = "fetching"] EXCEPT !.sheet = config.sheet] \in Calls
        BY <4>1, <3>2, Zenon DEF Calls
      <4>3. call = [[sync[r] EXCEPT !.phase = "fetching"] EXCEPT !.sheet = config.sheet]
        BY <1>1, Zenon DEF Calls
      <4> QED
        BY <4>2, <4>3, Zenon
    <3>4. call.phase = "fetching" /\ call.sheet = config.sheet
      BY <1>1, Zenon DEF Calls
    <3> QED
      BY <3>1, <3>2, <3>3, <3>4, Zenon
  <2>2. CASE Fetch(r)
    <3> DEFINE hash == content[sync[r].sheet]
               call == [sync[r] EXCEPT !.phase = "storing", !.hash = hash]
    <3>1. hash \in Contents
      BY <2>2, Zenon DEF Fetch, SyncInv, SheetInv
    <3>2. call \in Calls
      <4>1. [sync[r] EXCEPT !.phase = "storing"] \in Calls
        BY <1>1, Zenon DEF Calls
      <4>2. [[sync[r] EXCEPT !.phase = "storing"] EXCEPT !.hash = hash] \in Calls
        BY <4>1, <3>1, Zenon DEF Calls
      <4>3. call = [[sync[r] EXCEPT !.phase = "storing"] EXCEPT !.hash = hash]
        BY <1>1, Zenon DEF Calls
      <4> QED
        BY <4>2, <4>3, Zenon
    <3>3. call.phase = "storing"
      BY <1>1, Zenon DEF Calls
    <3>4. sync' = [sync EXCEPT ![r] = NoSync] \/ sync' = [sync EXCEPT ![r] = call]
      BY <2>2, Zenon DEF Fetch
    <3> QED
      BY <3>2, <3>3, <3>4, <1>2, Zenon
  <2>3. CASE StorePreview(r) \/ SyncFails(r)
    BY <2>3, <1>2, Zenon DEF StorePreview, SyncFails
  <2> QED
    BY <2>1, <2>2, <2>3, Zenon
<1>5. /\ sync' \in [Syncers -> Calls]
      /\ \A q \in Syncers : sync'[q].phase \in {"claiming", "claimed"} => sync'[q] = sync[q]
      /\ \A q \in Syncers : sync'[q].phase = "fetching" => sync'[q] = sync[q] \/ sync'[q].sheet \in Spreadsheets
  <2>1. PICK call \in Calls :
          /\ sync' = [sync EXCEPT ![r] = call]
          /\ call.phase \notin {"claiming", "claimed"} /\ (call.phase = "fetching" => call.sheet \in Spreadsheets)
    BY <1>4, Zenon
  <2>2. sync' \in [Syncers -> Calls] /\ sync'[r] = call /\ \A q \in Syncers \ {r} : sync'[q] = sync[q]
    BY <1>1, <2>1, Zenon
  <2>3. \A q \in Syncers : q = r \/ q \in Syncers \ {r}
    BY Zenon
  <2> QED
    BY <2>1, <2>2, <2>3, Zenon
<1>6. SheetInv'
  BY <1>3, <1>5, Zenon DEF SyncInv, SheetInv
<1> QED
  BY <1>3, <1>5, <1>6, CallsKeep, Zenon

\* Every step keeps the invariant.
LEMMA SyncStep ==
  ASSUME SyncInv, [SheetSyncNext]_syncVars
  PROVE  SyncInv'
<1>1. CASE UNCHANGED <<syncTime, config, sync, claims>> /\ content' \in [Spreadsheets -> Contents]
  <2>1. SheetInv'
    BY <1>1, Zenon DEF SyncInv, SheetInv
  <2> QED
    BY <1>1, <2>1, CallsKeep, Zenon DEF SyncInv, SyncTypes
<1>2. CASE SyncTick
  <2>1. syncTime' = syncTime + 1 /\ UNCHANGED <<config, content, sync, claims>>
    BY <1>2, Zenon DEF SyncTick
  <2>2. syncTime \in Nat /\ config.next \in Nat
    BY Zenon DEF SyncInv, SyncTypes, Configs
  <2>3. SyncTypes'
    BY <2>1, <2>2 DEF SyncInv, SyncTypes
  <2>4. SheetInv' /\ NextExactlyIfEnabled' /\ ClaimInv' /\ SyncsAreSpaced'
    BY <2>1, Zenon DEF SyncInv, SheetInv, NextExactlyIfEnabled, ClaimInv, SyncsAreSpaced
  <2>5. config.next <= syncTime => config.next <= syncTime + 1
    BY <2>2
  <2>6. ConfigLockInv'
    BY <2>1, <2>5, Zenon DEF SyncInv, ConfigLockInv
  <2> QED
    BY <2>3, <2>4, <2>6, Zenon DEF SyncInv
<1>3. ASSUME NEW e \in Editors, OpenPage(e)
      PROVE  SyncInv'
  BY <1>1, <1>3, Zenon DEF OpenPage, SyncInv, SheetInv
<1>4. ASSUME NEW i \in imports, CloseImport(i)
      PROVE  SyncInv'
  BY <1>1, <1>4, Zenon DEF CloseImport, SyncInv, SheetInv
<1>5. ASSUME NEW s \in Spreadsheets, NEW hash \in Contents, EditSheet(s, hash)
      PROVE  SyncInv'
  BY <1>1, <1>5, Zenon DEF EditSheet, SyncInv, SheetInv
<1>6. CASE UNCHANGED syncVars
  BY <1>1, <1>6, Zenon DEF syncVars, SyncInv, SheetInv
<1> QED
  BY <1>2, <1>3, <1>4, <1>5, <1>6, SaveKeeps, ReadClaimKeeps, CommitClaimKeeps, OtherCallsKeep, Zenon DEF SheetSyncNext

\* The invariant of the configuration holds in every reachable state.
THEOREM SyncInvariance == SheetSyncSpec => []SyncInv
<1>1. SheetSyncInit => SyncInv
  <2> SUFFICES ASSUME SheetSyncInit PROVE SyncInv
    BY Zenon
  <2>1. NoSync \in Calls /\ NoSync.phase = "idle" /\ NoConfig \in Configs
    BY Zenon DEF NoSync, Calls, NotSet, NoConfig, Configs
  <2>2. config = NoConfig /\ config.enabled = FALSE /\ config.next = NotSet /\ config.since <= config.version
    BY DEF SheetSyncInit, NoConfig
  <2>3. syncTime = 1 /\ claims = {} /\ sync = [r \in Syncers |-> NoSync] /\ content \in [Spreadsheets -> Contents]
    BY Zenon DEF SheetSyncInit
  <2>4. SyncTypes /\ SheetInv
    BY <2>1, <2>2, <2>3 DEF SyncTypes, SheetInv
  <2> QED
    BY <2>1, <2>2, <2>3, <2>4, Zenon DEF SyncInv, NextExactlyIfEnabled, ConfigLockInv, ClaimInv, SyncsAreSpaced
<1> QED
  BY <1>1, SyncStep, PTL DEF SheetSyncSpec

\* SaveConfig and ScheduleDue keep a next time exactly while the schedule is enabled.
THEOREM NextCorrect == SheetSyncSpec => []NextExactlyIfEnabled
BY SyncInvariance, PTL DEF SyncInv

(***************************************************************************)
(* ScheduleDue reads the sheet at most once per interval of one enabling,  *)
(* for any number of schedulers and edits of the configuration.            *)
(***************************************************************************)
THEOREM SpacingCorrect == SheetSyncSpec => []SyncsAreSpaced
BY SyncInvariance, PTL DEF SyncInv

\* The unique indexes of google_sheet_imports leave one open preview per content.
THEOREM PreviewsCorrect == SheetSyncSpec => []OneOpenPreview
<1>1. SheetSyncInit => OneOpenPreview
  BY Zenon DEF SheetSyncInit, OneOpenPreview
<1>2. SyncInv /\ OneOpenPreview /\ [SheetSyncNext]_syncVars => OneOpenPreview'
  <2> SUFFICES ASSUME OneOpenPreview, [SheetSyncNext]_syncVars PROVE OneOpenPreview'
    BY Zenon
  <2>1. ASSUME NEW r \in Syncers, StorePreview(r)
        PROVE  OneOpenPreview'
    <3> DEFINE new == [key |-> sync[r].due, sheet |-> sync[r].sheet, hash |-> sync[r].hash, open |-> TRUE]
    <3>1. imports' = imports \/ (imports' = imports \cup {new} /\ ~Existing(r, sync[r].hash))
      BY <2>1, Zenon DEF StorePreview, Refused
    <3>2. ~Existing(r, sync[r].hash) => \A i \in imports : i.key # new.key /\ ~(i.open /\ i.sheet = new.sheet /\ i.hash = new.hash)
      BY Zenon DEF Existing
    <3> HIDE DEF new
    <3> QED
      BY <3>1, <3>2 DEF OneOpenPreview
  <2>2. ASSUME NEW i \in imports, CloseImport(i)
        PROVE  OneOpenPreview'
    <3> DEFINE closed == [i EXCEPT !.open = FALSE]
    <3>1. imports' = (imports \ {i}) \cup {closed}
      BY <2>2, Zenon DEF CloseImport
    <3>2. closed.key = i.key /\ ~closed.open
      OBVIOUS
    <3> HIDE DEF closed
    <3> QED
      BY <3>1, <3>2 DEF OneOpenPreview
  <2>3. CASE imports' = imports
    BY <2>3, Zenon DEF OneOpenPreview
  <2> QED
    BY <2>1, <2>2, <2>3, Zenon
    DEF SheetSyncNext, syncVars, OpenPage, SaveConfig, ClaimRead, ClaimCommit, ReadConfig, Fetch, SyncFails, EditSheet, SyncTick
<1> QED
  BY <1>1, <1>2, SyncInvariance, PTL DEF SheetSyncSpec
=============================================================================
