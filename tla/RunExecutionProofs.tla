------------------------- MODULE RunExecutionProofs -------------------------
(***************************************************************************)
(* Proofs about RunExecution, for every number of runs, domains, entries,  *)
(* processes and goroutines and for every lease, timeout and bound.        *)
(***************************************************************************)
EXTENDS RunExecution, TLAPS

\* The module is large: every leaf may take longer than the default of the provers.
USE SMTT(15), ZenonT(15)

-----------------------------------------------------------------------------
(* The inductive invariant.                                                *)

\* An entry exists only for an existing run, and a process holds existing ones.
DeliveryInv ==
  /\ \A m \in Entries : entry[m].state # "absent" => run[RunOf[m]].status # "absent"
  /\ \A p \in Processes : \A i \in 1 .. Len(backlog[p]) : entry[backlog[p][i]].state # "absent"

\* While a claim transaction is open, what it has read stays true.
ClaimInv ==
  /\ \A w \in Workers : pc[w] = "locked" =>
       /\ run[RunAt(w)].status \notin {"absent", "completed"}
       /\ ~Expired(RunAt(w))
       /\ ~AnotherRunActive(RunAt(w))
  /\ \A v, w \in Workers :
       v # w /\ pc[v] = "locked" /\ pc[w] = "locked" => DomainOf[RunAt(v)] # DomainOf[RunAt(w)]

\* What the columns of a run say about each other.
RowInv ==
  \A r \in Runs :
    /\ run[r].status \in {"absent", "queued"} => ~run[r].started /\ run[r].attempts = 0
    /\ run[r].status = "failed" => Expired(r) \/ Exhausted(r)

AckInv ==
  /\ \A w \in Workers : pc[w] = "acking" => run[RunAt(w)].status \in Settled
  /\ AckedOnlyWhenSettled

IInv ==
  /\ TypeOK
  /\ DeliveryInv
  /\ ClaimInv
  /\ RowInv
  /\ AckInv
  /\ EvidenceExactlyOnce
  /\ OneFreshRunPerDomain

\* What QueueLease > RunTimeout adds: a run is executed once, and its lease is
\* fresh until it expires.
RowTimely(r) ==
  /\ run[r].status = "running" /\ ~Expired(r) => run[r].beat + run[r].left <= RunTimeout
  /\ run[r].status = "failed" => Expired(r)
  /\ run[r].attempts <= 1

WorkerTimely(w) ==
  /\ pc[w] = "locked" => run[RunAt(w)].status = "queued"
  /\ pc[w] = "checking" => run[RunAt(w)].status \in {"running", "failed"}
  /\ pc[w] = "completing" => run[RunAt(w)].status \notin {"absent", "queued"}

Executing(w) == pc[w] \in {"checking", "completing"}

TimelyInv ==
  /\ \A r \in Runs : RowTimely(r)
  /\ \A w \in Workers : WorkerTimely(w)
  /\ \A v, w \in Workers : v # w /\ Executing(v) /\ Executing(w) => RunAt(v) # RunAt(w)

-----------------------------------------------------------------------------
(* Types.                                                                  *)

(***************************************************************************)
(* Taking a message leaves the goroutine with an entry of its process.     *)
(***************************************************************************)
LEMMA TakeType ==
  ASSUME TypeOK, NEW w \in Workers, NEW to \in Pcs,
         backlog[ProcessOf[w]] # <<>>, Take(w, to)
  PROVE  /\ NextMessage(w) \in Entries
         /\ backlog' \in [Processes -> Seq(Entries)]
         /\ pc' \in [Workers -> Pcs]
         /\ taken' \in [Workers -> Entries \cup {NoEntry}]
         /\ \A v \in Workers : pc'[v] # "idle" => taken'[v] \in Entries
<1> DEFINE p == ProcessOf[w]
<1>1. p \in Processes /\ backlog[p] \in Seq(Entries) /\ backlog[p] # <<>>
  BY ShapeAssumption, Zenon DEF TypeOK
<1>2. Head(backlog[p]) \in Entries /\ Tail(backlog[p]) \in Seq(Entries)
  BY <1>1
<1>3. backlog' = [backlog EXCEPT ![p] = Tail(backlog[p])]
  BY Zenon DEF Take
<1>4. taken' = [taken EXCEPT ![w] = IF to = "idle" THEN NoEntry ELSE Head(backlog[p])]
  BY Zenon DEF Take, NextMessage
<1>5. pc' = [pc EXCEPT ![w] = to]
  BY Zenon DEF Take
<1> HIDE DEF p
<1>6. NextMessage(w) \in Entries
  BY <1>2, Zenon DEF NextMessage, p
<1> QED BY <1>1, <1>2, <1>3, <1>4, <1>5, <1>6, Zenon DEF TypeOK

(***************************************************************************)
(* The three UPDATEs of a run row give a run row.                          *)
(***************************************************************************)
LEMMA RowType ==
  ASSUME NEW row \in RunRows
  PROVE  /\ [row EXCEPT !.status = "failed", !.beat = QueueLease] \in RunRows
         /\ [row EXCEPT !.status = "failed"] \in RunRows
         /\ [row EXCEPT !.status = "completed", !.beat = QueueLease] \in RunRows
         /\ row.attempts < MaxAttempts =>
              [row EXCEPT !.status = "running", !.started = TRUE,
                          !.beat = 0, !.attempts = @ + 1] \in RunRows
<1>0. /\ QueueLease \in 0 .. QueueLease /\ 0 \in 0 .. QueueLease
      /\ {"running", "completed", "failed"} \subseteq Statuses
  BY NumberAssumption DEF Statuses, Settled
<1>1. [row EXCEPT !.status = "failed", !.beat = QueueLease] \in RunRows
  BY <1>0, Zenon DEF RunRows
<1>2. [row EXCEPT !.status = "failed"] \in RunRows
  BY <1>0, Zenon DEF RunRows
<1>3. [row EXCEPT !.status = "completed", !.beat = QueueLease] \in RunRows
  BY <1>0, Zenon DEF RunRows
<1>4. ASSUME row.attempts < MaxAttempts
      PROVE  [row EXCEPT !.status = "running", !.started = TRUE,
                         !.beat = 0, !.attempts = @ + 1] \in RunRows
  <2>1. row.attempts + 1 \in 0 .. MaxAttempts
    BY <1>4, NumberAssumption DEF RunRows
  <2> QED BY <1>0, <2>1, Zenon DEF RunRows
<1> QED BY <1>1, <1>2, <1>3, <1>4, Zenon

(***************************************************************************)
(* Every step keeps the types.                                             *)
(***************************************************************************)
LEMMA TypeStep == TypeOK /\ [Next]_vars => TypeOK'
<1> SUFFICES ASSUME TypeOK, [Next]_vars PROVE TypeOK'
  BY Zenon
<1> USE NumberAssumption, ShapeAssumption
<1>1. ASSUME NEW r \in Runs, CreateRun(r) PROVE TypeOK'
  BY <1>1, ZenonT(60) DEF TypeOK, RunRows, CreateRun, Statuses
<1>2. ASSUME NEW m \in Entries, XAdd(m) PROVE TypeOK'
  BY <1>2, Zenon DEF TypeOK, XAdd
<1>3. ASSUME NEW p \in Processes, NEW m \in Entries, Receive(p, m) PROVE TypeOK'
  <2>1. backlog' \in [Processes -> Seq(Entries)]
    BY <1>3 DEF TypeOK, Receive
  <2>2. entry' \in [Entries -> [state : {"absent", "new", "pending", "acked"}, idle : 0 .. QueueLease]]
    BY <1>3 DEF TypeOK, Receive
  <2> QED BY <1>3, <2>1, <2>2, Zenon DEF TypeOK, Receive
<1>4. ASSUME NEW w \in Workers, ClaimBegin(w) PROVE TypeOK'
  <2> DEFINE r == RunOf[NextMessage(w)]
  <2>1. PICK to \in Pcs : Take(w, to)
    BY <1>4, Zenon DEF ClaimBegin, Pcs, OnBusy, OnCompleted
  <2>2. backlog[ProcessOf[w]] # <<>>
    BY <1>4, Zenon DEF ClaimBegin
  <2>3. r \in Runs
    BY <2>1, <2>2, TakeType, Zenon
  <2>4. run' = run \/ run' = [run EXCEPT ![r] = [run[r] EXCEPT !.status = "failed", !.beat = QueueLease]]
    BY <1>4, Zenon DEF ClaimBegin
  <2>5. run' \in [Runs -> RunRows]
    <3> DEFINE new == [run[r] EXCEPT !.status = "failed", !.beat = QueueLease]
    <3>1. run' = run \/ run' = [run EXCEPT ![r] = new]
      BY <2>4, Zenon
    <3>2. new \in RunRows
      BY <2>3, RowType, Zenon DEF TypeOK
    <3> HIDE DEF new, r
    <3> QED BY <2>3, <3>1, <3>2, Zenon DEF TypeOK
  <2>6. UNCHANGED <<results, entry, faults>>
    BY <1>4, Zenon DEF ClaimBegin
  <2> QED BY <2>1, <2>2, <2>5, <2>6, TakeType, Zenon DEF TypeOK
<1>5. ASSUME NEW w \in Workers, ClaimCommit(w) PROVE TypeOK'
  <2> DEFINE r == RunAt(w)
  <2>1. r \in Runs
    BY <1>5, Zenon DEF ClaimCommit, TypeOK, RunAt
  <2>2. CASE Exhausted(r) /\ GoTo(w, "acking") /\ run' = [run EXCEPT ![r].status = "failed"]
    <3> HIDE DEF r
    <3>1. run' \in [Runs -> RunRows]
      BY <2>1, <2>2, RowType, Zenon DEF TypeOK
    <3> QED BY <1>5, <2>2, <3>1, Zenon DEF ClaimCommit, TypeOK, GoTo, Pcs
  <2>3. CASE /\ ~Exhausted(r) /\ GoTo(w, "checking")
             /\ run' = [run EXCEPT ![r] = [run[r] EXCEPT !.status = "running", !.started = TRUE,
                                                    !.beat = 0, !.attempts = @ + 1]]
    <3> HIDE DEF r
    <3>1. run[r].attempts < MaxAttempts
      BY <2>1, <2>3 DEF TypeOK, RunRows, Exhausted
    <3> DEFINE new == [run[r] EXCEPT !.status = "running", !.started = TRUE,
                                     !.beat = 0, !.attempts = @ + 1]
    <3>2. new \in RunRows
      <4>1. run[r] \in RunRows
        BY <2>1, Zenon DEF TypeOK
      <4> QED BY <3>1, <4>1, RowType, Zenon
    <3>3. run' = [run EXCEPT ![r] = new]
      BY <2>3, Zenon
    <3> HIDE DEF new
    <3>4. run' \in [Runs -> RunRows]
      BY <2>1, <3>2, <3>3, Zenon DEF TypeOK
    <3> QED BY <1>5, <2>3, <3>4, Zenon DEF ClaimCommit, TypeOK, GoTo, Pcs
  <2> QED BY <1>5, <2>2, <2>3, Zenon DEF ClaimCommit
<1>6. ASSUME NEW w \in Workers, FinishChecks(w) PROVE TypeOK'
  BY <1>6, Zenon DEF FinishChecks, GoTo, TypeOK, Pcs
<1>7. ASSUME NEW w \in Workers, CompleteRun(w) PROVE TypeOK'
  <2> DEFINE r == RunAt(w)
  <2>1. r \in Runs
    BY <1>7, Zenon DEF CompleteRun, TypeOK, RunAt
  <2>2. CASE /\ run' = [run EXCEPT ![r] = [run[r] EXCEPT !.status = "completed", !.beat = QueueLease]]
             /\ results' = [results EXCEPT ![r] = @ + 1]
             /\ GoTo(w, "acking")
    <3> HIDE DEF r
    <3>1. run' \in [Runs -> RunRows]
      BY <2>1, <2>2, RowType, Zenon DEF TypeOK
    <3>2. results' \in [Runs -> Nat]
      BY <2>1, <2>2 DEF TypeOK
    <3> QED BY <1>7, <2>2, <3>1, <3>2, Zenon DEF CompleteRun, TypeOK, GoTo, Pcs
  <2>3. CASE Release(w) /\ UNCHANGED <<run, results>>
    BY <1>7, <2>3, Zenon DEF CompleteRun, TypeOK, Release, Pcs
  <2> QED BY <1>7, <2>2, <2>3, Zenon DEF CompleteRun
<1>8. ASSUME NEW w \in Workers, XAck(w) PROVE TypeOK'
  BY <1>8, ZenonT(40) DEF XAck, Release, TypeOK, Pcs
<1>9. ASSUME NEW p \in Processes, Crash(p) PROVE TypeOK'
  BY <1>9 DEF Crash, TypeOK, Pcs
<1>10. ASSUME NEW w \in Workers, HandlerError(w) PROVE TypeOK'
  BY <1>10 DEF HandlerError, Release, TypeOK, Pcs
<1>11. CASE Tick
  <2>1. \A a \in 0 .. QueueLease : Older(a) \in 0 .. QueueLease
    BY DEF Older
  <2>2. entry' \in [Entries -> [state : {"absent", "new", "pending", "acked"}, idle : 0 .. QueueLease]]
    BY <1>11, <2>1, Zenon DEF Tick, TypeOK
  <2>3. run' \in [Runs -> RunRows]
    <3>1. \A l \in 0 .. RunTimeout : Sooner(l) \in 0 .. RunTimeout
      BY DEF Sooner
    <3>2. ASSUME NEW r \in Runs PROVE run'[r] \in RunRows
      BY <1>11, <2>1, <3>1, ZenonT(60) DEF Tick, TypeOK, RunRows
    <3> QED BY <1>11, <3>2, Zenon DEF Tick
  <2> QED BY <1>11, <2>2, <2>3, Zenon DEF Tick, TypeOK
<1>12. CASE UNCHANGED vars
  BY <1>12, Zenon DEF vars, TypeOK
<1> QED BY <1>1, <1>2, <1>3, <1>4, <1>5, <1>6, <1>7, <1>8, <1>9, <1>10, <1>11, <1>12, Zenon
        DEF Next, Work, XReadGroup, XAutoClaim

-----------------------------------------------------------------------------
(* Frame lemmas: what a step leaves alone.                                 *)

(***************************************************************************)
(* A goroutine that is not idle works on a message of an existing run.     *)
(***************************************************************************)
LEMMA RunAtType ==
  ASSUME TypeOK, NEW w \in Workers, pc[w] # "idle"
  PROVE  taken[w] \in Entries /\ RunAt(w) \in Runs
BY ShapeAssumption, Zenon DEF TypeOK, RunAt

(***************************************************************************)
(* If no execution lease becomes fresh, at most one stays fresh.           *)
(***************************************************************************)
LEMMA FreshFrame ==
  ASSUME OneFreshRunPerDomain, \A q \in Runs : Fresh(q)' => Fresh(q)
  PROVE  /\ OneFreshRunPerDomain'
         /\ \A q \in Runs : AnotherRunActive(q)' => AnotherRunActive(q)
BY Zenon DEF OneFreshRunPerDomain, AnotherRunActive

(***************************************************************************)
(* Open claims stay valid if no claim is opened, the rows they locked keep *)
(* their status and deadline, and no execution lease becomes fresh.        *)
(***************************************************************************)
LEMMA ClaimFrame ==
  ASSUME TypeOK, ClaimInv, OneFreshRunPerDomain,
         \A q \in Runs : Fresh(q)' => Fresh(q),
         \A w \in Workers : pc'[w] = "locked" =>
           /\ pc[w] = "locked"
           /\ taken'[w] = taken[w]
           /\ run'[RunAt(w)].status = run[RunAt(w)].status
           /\ run'[RunAt(w)].left = run[RunAt(w)].left
  PROVE  ClaimInv'
<1>1. \A w \in Workers : pc'[w] = "locked" => RunAt(w)' = RunAt(w) /\ RunAt(w) \in Runs
  BY RunAtType, Zenon DEF RunAt
<1>2. \A q \in Runs : AnotherRunActive(q)' => AnotherRunActive(q)
  BY FreshFrame, Zenon
<1>3. ASSUME NEW w \in Workers, pc'[w] = "locked"
      PROVE  /\ run'[RunAt(w)'].status \notin {"absent", "completed"}
             /\ ~Expired(RunAt(w))'
             /\ ~AnotherRunActive(RunAt(w))'
  <2>1. run'[RunAt(w)'].status \notin {"absent", "completed"}
    BY <1>1, <1>3 DEF ClaimInv
  <2>2. ~Expired(RunAt(w))'
    BY <1>1, <1>3 DEF ClaimInv, Expired
  <2>3. ~AnotherRunActive(RunAt(w))'
    BY <1>1, <1>2, <1>3 DEF ClaimInv, AnotherRunActive
  <2> QED BY <2>1, <2>2, <2>3, Zenon
<1>4. \A v, w \in Workers :
        v # w /\ pc'[v] = "locked" /\ pc'[w] = "locked"
          => DomainOf[RunAt(v)'] # DomainOf[RunAt(w)']
  BY <1>1 DEF ClaimInv
<1> QED BY <1>3, <1>4, Zenon DEF ClaimInv

(***************************************************************************)
(* Acknowledgements stay justified if settled runs stay settled and no     *)
(* goroutine goes on to acknowledge.                                       *)
(***************************************************************************)
LEMMA AckFrame ==
  ASSUME TypeOK, AckInv,
         \A q \in Runs : run[q].status \in Settled => run'[q].status \in Settled,
         \A w \in Workers : pc'[w] = "acking" =>
           \/ pc[w] = "acking" /\ taken'[w] = taken[w]
           \/ run'[RunOf[taken'[w]]].status \in Settled,
         \A m \in Entries : entry'[m].state = "acked" =>
           \/ entry[m].state = "acked"
           \/ run'[RunOf[m]].status \in Settled
  PROVE  AckInv'
<1>1. \A w \in Workers : pc[w] = "acking" => RunAt(w) = RunOf[taken[w]] /\ RunAt(w) \in Runs
  BY RunAtType, Zenon DEF RunAt
<1>2. \A w \in Workers : pc'[w] = "acking" => run'[RunOf[taken'[w]]].status \in Settled
  BY <1>1, Zenon DEF AckInv
<1>3. \A w \in Workers : RunAt(w)' = RunOf[taken'[w]]
  BY Zenon DEF RunAt
<1>4. AckedOnlyWhenSettled'
  BY ShapeAssumption, Zenon DEF AckInv, AckedOnlyWhenSettled
<1> QED BY <1>2, <1>3, <1>4, Zenon DEF AckInv

(***************************************************************************)
(* Deliveries stay justified if runs and entries do not disappear and a    *)
(* process holds no entry it did not hold before.                          *)
(***************************************************************************)
LEMMA DeliveryFrame ==
  ASSUME TypeOK, DeliveryInv,
         \A q \in Runs : run[q].status # "absent" => run'[q].status # "absent",
         \A m \in Entries : entry'[m].state # "absent" <=> entry[m].state # "absent",
         \A p \in Processes : \/ backlog'[p] = backlog[p]
                              \/ backlog'[p] = <<>>
                              \/ backlog[p] # <<>> /\ backlog'[p] = Tail(backlog[p])
  PROVE  DeliveryInv'
<1>1. \A m \in Entries : entry'[m].state # "absent" => run'[RunOf[m]].status # "absent"
  BY ShapeAssumption, Zenon DEF DeliveryInv
<1>2. ASSUME NEW p \in Processes, NEW i \in 1 .. Len(backlog'[p])
      PROVE  entry'[backlog'[p][i]].state # "absent"
  <2>1. backlog[p] \in Seq(Entries)
    BY Zenon DEF TypeOK
  <2>2. PICK j \in 1 .. Len(backlog[p]) : backlog'[p][i] = backlog[p][j]
    <3>1. CASE backlog'[p] = backlog[p]
      BY <1>2, <3>1, Zenon
    <3>2. CASE backlog'[p] = <<>>
      BY <1>2, <3>2
    <3>3. CASE backlog[p] # <<>> /\ backlog'[p] = Tail(backlog[p])
      <4>1. i + 1 \in 1 .. Len(backlog[p]) /\ Tail(backlog[p])[i] = backlog[p][i + 1]
        BY <1>2, <2>1, <3>3
      <4> QED BY <3>3, <4>1, Zenon
    <3> QED BY <3>1, <3>2, <3>3, Zenon
  <2>3. backlog[p][j] \in Entries
    BY <2>1
  <2> QED BY <2>2, <2>3, Zenon DEF DeliveryInv
<1> QED BY <1>1, <1>2, Zenon DEF DeliveryInv

-----------------------------------------------------------------------------
(* The invariant is inductive.                                             *)

(***************************************************************************)
(* Initially there is nothing.                                             *)
(***************************************************************************)
LEMMA InitIInv == Init => IInv
<1> SUFFICES ASSUME Init PROVE IInv
  BY Zenon
<1> USE NumberAssumption, ShapeAssumption DEF Init
<1>1. TypeOK
  <2>1. run \in [Runs -> RunRows]
    BY DEF RunRows, Statuses
  <2>2. backlog \in [Processes -> Seq(Entries)]
    OBVIOUS
  <2>3. entry \in [Entries -> [state : {"absent", "new", "pending", "acked"}, idle : 0 .. QueueLease]]
    OBVIOUS
  <2>4. pc \in [Workers -> Pcs] /\ \A w \in Workers : pc[w] = "idle"
    BY Zenon DEF Pcs
  <2>5. /\ results \in [Runs -> Nat] /\ taken \in [Workers -> Entries \cup {NoEntry}]
        /\ faults \in 0 .. MaxFaults
    OBVIOUS
  <2> QED BY <2>1, <2>2, <2>3, <2>4, <2>5, Zenon DEF TypeOK
<1>2. DeliveryInv
  BY DEF DeliveryInv
<1>3. ClaimInv
  BY Zenon DEF ClaimInv
<1>4. RowInv
  BY Zenon DEF RowInv
<1>5. AckInv
  BY Zenon DEF AckInv, AckedOnlyWhenSettled
<1>6. EvidenceExactlyOnce /\ OneFreshRunPerDomain
  BY Zenon DEF EvidenceExactlyOnce, OneFreshRunPerDomain, Fresh
<1> QED BY <1>1, <1>2, <1>3, <1>4, <1>5, <1>6, Zenon DEF IInv

(***************************************************************************)
(* Creating a run.                                                         *)
(***************************************************************************)
LEMMA CreateRunIInv ==
  ASSUME IInv, TypeOK', NEW r \in Runs, CreateRun(r)
  PROVE  IInv'
<1> USE DEF IInv
<1>1. /\ run[r].status = "absent" /\ run'[r] = [run[r] EXCEPT !.status = "queued"]
      /\ \A q \in Runs : q # r => run'[q] = run[q]
      /\ UNCHANGED <<results, entry, backlog, pc, taken>>
  BY Zenon DEF CreateRun, TypeOK
<1>2. /\ run'[r].status = "queued" /\ run'[r].left = run[r].left
      /\ run'[r].started = run[r].started /\ run'[r].attempts = run[r].attempts
  BY <1>1 DEF TypeOK, RunRows
<1>3. \A q \in Runs : Fresh(q)' => Fresh(q)
  BY <1>1, <1>2, Zenon DEF Fresh
<1>4. ClaimInv'
  <2>1. ASSUME NEW w \in Workers, pc[w] = "locked" PROVE RunAt(w) # r
    BY <1>1, <2>1, Zenon DEF ClaimInv
  <2>2. \A w \in Workers : pc[w] = "locked" => run'[RunAt(w)] = run[RunAt(w)]
    BY <1>1, <2>1, RunAtType, Zenon
  <2> QED BY <1>1, <1>3, <2>2, ClaimFrame, Zenon
<1>5. RowInv'
  <2>1. ASSUME NEW q \in Runs
        PROVE  /\ run'[q].status \in {"absent", "queued"} => ~run'[q].started /\ run'[q].attempts = 0
               /\ run'[q].status = "failed" => Expired(q)' \/ Exhausted(q)'
    <3>1. CASE q = r
      BY <1>1, <1>2, <3>1, Zenon DEF RowInv
    <3>2. CASE q # r
      BY <1>1, <3>2, Zenon DEF RowInv, Expired, Exhausted
    <3> QED BY <3>1, <3>2, Zenon
  <2> QED BY <2>1, Zenon DEF RowInv
<1>6. AckInv'
  BY <1>1, <1>2, AckFrame, Zenon DEF Settled
<1>7. DeliveryInv'
  BY <1>1, <1>2, DeliveryFrame, Zenon
<1>8. EvidenceExactlyOnce'
  BY <1>1, <1>2, ZenonT(40) DEF EvidenceExactlyOnce
<1> QED BY <1>3, <1>4, <1>5, <1>6, <1>7, <1>8, FreshFrame, Zenon

(***************************************************************************)
(* XADD, XREADGROUP and XAUTOCLAIM touch entries and backlogs only.        *)
(***************************************************************************)
LEMMA XAddIInv ==
  ASSUME IInv, TypeOK', NEW m \in Entries, XAdd(m)
  PROVE  IInv'
<1> USE DEF IInv
<1>1. UNCHANGED <<run, results, backlog, pc, taken>>
  BY Zenon DEF XAdd
<1>2. \A n \in Entries : /\ n # m => entry'[n] = entry[n]
                         /\ entry'[m].state = "new"
  BY Zenon DEF XAdd, TypeOK
<1>3. ClaimInv' /\ RowInv' /\ EvidenceExactlyOnce' /\ OneFreshRunPerDomain'
  BY <1>1, Zenon DEF ClaimInv, RunAt, Expired, Exhausted, AnotherRunActive, Fresh, RowInv,
              EvidenceExactlyOnce, OneFreshRunPerDomain
<1>4. AckInv'
  BY <1>1, <1>2, AckFrame, Zenon
<1>5. DeliveryInv'
  <2>1. \A n \in Entries : entry'[n].state # "absent" => run'[RunOf[n]].status # "absent"
    BY <1>1, <1>2, Zenon DEF XAdd, DeliveryInv
  <2>2. ASSUME NEW p \in Processes, NEW i \in 1 .. Len(backlog'[p])
        PROVE  entry'[backlog'[p][i]].state # "absent"
    <3>1. backlog[p][i] \in Entries /\ entry[backlog[p][i]].state # "absent"
      BY <1>1, <2>2 DEF TypeOK, DeliveryInv
    <3> QED BY <1>1, <1>2, <3>1, Zenon
  <2> QED BY <2>1, <2>2, Zenon DEF DeliveryInv
<1> QED BY <1>3, <1>4, <1>5, Zenon

(***************************************************************************)
(* Receiving an entry.                                                     *)
(***************************************************************************)
LEMMA ReceiveIInv ==
  ASSUME IInv, TypeOK', NEW p \in Processes, NEW m \in Entries,
         entry[m].state \in {"new", "pending"}, Receive(p, m)
  PROVE  IInv'
<1> USE DEF IInv
<1>1. UNCHANGED <<run, results, pc, taken>>
  BY Zenon DEF Receive
<1>2. \A n \in Entries : /\ n # m => entry'[n] = entry[n]
                         /\ entry'[m].state = "pending"
  BY Zenon DEF Receive, TypeOK
<1>3. ClaimInv' /\ RowInv' /\ EvidenceExactlyOnce' /\ OneFreshRunPerDomain'
  BY <1>1, Zenon DEF ClaimInv, RunAt, Expired, Exhausted, AnotherRunActive, Fresh, RowInv,
              EvidenceExactlyOnce, OneFreshRunPerDomain
<1>4. AckInv'
  BY <1>1, <1>2, AckFrame, Zenon
<1>5. DeliveryInv'
  <2>1. \A n \in Entries : entry'[n].state # "absent" <=> entry[n].state # "absent"
    BY <1>2, Zenon
  <2>2. \A n \in Entries : entry'[n].state # "absent" => run'[RunOf[n]].status # "absent"
    BY <1>1, <2>1, Zenon DEF DeliveryInv
  <2>3. ASSUME NEW o \in Processes, NEW i \in 1 .. Len(backlog'[o])
        PROVE  entry'[backlog'[o][i]].state # "absent"
    <3>1. backlog[o] \in Seq(Entries)
      BY Zenon DEF TypeOK
    <3>2. CASE o # p
      <4>1. backlog'[o] = backlog[o]
        BY <3>2, Zenon DEF Receive, TypeOK
      <4>2. backlog[o][i] \in Entries /\ entry[backlog[o][i]].state # "absent"
        BY <2>3, <3>1, <4>1 DEF DeliveryInv
      <4> QED BY <2>1, <4>1, <4>2, Zenon
    <3>3. CASE o = p
      <4>1. backlog'[o] = Append(backlog[o], m)
        BY <3>3, Zenon DEF Receive, TypeOK
      <4>2. CASE i = Len(backlog[o]) + 1
        BY <1>2, <3>1, <4>1, <4>2
      <4>3. CASE i # Len(backlog[o]) + 1
        <5>1. i \in 1 .. Len(backlog[o]) /\ backlog'[o][i] = backlog[o][i]
          BY <2>3, <3>1, <4>1, <4>3
        <5>2. backlog[o][i] \in Entries /\ entry[backlog[o][i]].state # "absent"
          BY <3>1, <5>1 DEF DeliveryInv
        <5> QED BY <2>1, <5>1, <5>2, Zenon
      <4> QED BY <4>2, <4>3, Zenon
    <3> QED BY <3>2, <3>3, Zenon
  <2> QED BY <2>2, <2>3, Zenon DEF DeliveryInv
<1> QED BY <1>3, <1>4, <1>5, Zenon

(***************************************************************************)
(* What taking a message does to the goroutines and the backlogs.          *)
(***************************************************************************)
LEMMA TakeFrame ==
  ASSUME TypeOK, DeliveryInv, NEW w \in Workers, NEW to \in Pcs,
         backlog[ProcessOf[w]] # <<>>, Take(w, to)
  PROVE  /\ pc'[w] = to
         /\ to # "idle" => taken'[w] = NextMessage(w)
         /\ \A v \in Workers : v # w => pc'[v] = pc[v] /\ taken'[v] = taken[v]
         /\ \A p \in Processes : \/ backlog'[p] = backlog[p]
                                 \/ backlog[p] # <<>> /\ backlog'[p] = Tail(backlog[p])
         /\ RunOf[NextMessage(w)] \in Runs
         /\ run[RunOf[NextMessage(w)]].status # "absent"
<1> DEFINE p == ProcessOf[w]
<1>1. p \in Processes /\ backlog[p] \in Seq(Entries) /\ backlog[p] # <<>>
  BY ShapeAssumption, Zenon DEF TypeOK
<1>2. 1 \in 1 .. Len(backlog[p]) /\ NextMessage(w) = backlog[p][1] /\ NextMessage(w) \in Entries
  BY <1>1 DEF NextMessage
<1>3. RunOf[NextMessage(w)] \in Runs /\ run[RunOf[NextMessage(w)]].status # "absent"
  BY <1>1, <1>2, ShapeAssumption, Zenon DEF DeliveryInv
<1>4. /\ pc'[w] = to
      /\ to # "idle" => taken'[w] = NextMessage(w)
      /\ \A v \in Workers : v # w => pc'[v] = pc[v] /\ taken'[v] = taken[v]
  BY Zenon DEF Take, TypeOK
<1>5. \A q \in Processes : \/ backlog'[q] = backlog[q]
                           \/ backlog[q] # <<>> /\ backlog'[q] = Tail(backlog[q])
  <2>1. backlog' = [backlog EXCEPT ![p] = Tail(backlog[p])]
    BY Zenon DEF Take
  <2>2. \A q \in Processes : q # p => backlog'[q] = backlog[q]
    BY <2>1, Zenon DEF TypeOK
  <2>3. backlog'[p] = Tail(backlog[p])
    BY <1>1, <2>1, Zenon DEF TypeOK
  <2> HIDE DEF p
  <2> QED BY <1>1, <2>2, <2>3, Zenon
<1> QED BY <1>3, <1>4, <1>5, Zenon

(***************************************************************************)
(* Opening a claim: the four early returns and the locks.                  *)
(***************************************************************************)
LEMMA ClaimBeginIInv ==
  ASSUME IInv, TypeOK', NEW w \in Workers, ClaimBegin(w)
  PROVE  IInv'
<1> USE DEF IInv
<1> DEFINE r == RunOf[NextMessage(w)]
<1>1. /\ pc[w] = "idle" /\ backlog[ProcessOf[w]] # <<>> /\ ~RowLocked(r)
      /\ UNCHANGED <<results, entry>>
  BY Zenon DEF ClaimBegin
<1>2. \A v \in Workers : pc[v] = "locked" => RunAt(v) # r
  BY <1>1, Zenon DEF RowLocked
<1> HIDE DEF r
<1>3. ASSUME NEW to \in Pcs, Take(w, to), UNCHANGED run, to # "locked",
             to = "acking" => run[r].status \in Settled
      PROVE  IInv'
  <2>1. /\ pc'[w] = to
        /\ to # "idle" => taken'[w] = NextMessage(w)
        /\ \A v \in Workers : v # w => pc'[v] = pc[v] /\ taken'[v] = taken[v]
        /\ \A p \in Processes : \/ backlog'[p] = backlog[p]
                                \/ backlog[p] # <<>> /\ backlog'[p] = Tail(backlog[p])
    BY <1>1, <1>3, TakeFrame, Zenon
  <2>2. \A q \in Runs : Fresh(q)' <=> Fresh(q)
    BY <1>3, Zenon DEF Fresh
  <2>3. ClaimInv'
    BY <1>3, <2>1, <2>2, ClaimFrame, Zenon
  <2>4. AckInv'
    BY <1>1, <1>3, <2>1, AckFrame, Zenon DEF r
  <2>5. DeliveryInv'
    BY <1>1, <1>3, <2>1, DeliveryFrame, Zenon
  <2>6. RowInv' /\ EvidenceExactlyOnce'
    BY <1>1, <1>3, Zenon DEF RowInv, Expired, Exhausted, EvidenceExactlyOnce
  <2> QED BY <2>2, <2>3, <2>4, <2>5, <2>6, FreshFrame, Zenon
<1>4. CASE run[r].status = "completed" /\ Take(w, OnCompleted) /\ UNCHANGED run
  BY <1>3, <1>4, Zenon DEF OnCompleted, Pcs, Settled
<1>5. CASE Take(w, "idle") /\ UNCHANGED run
  BY <1>3, <1>5, Zenon DEF Pcs
<1>6. CASE /\ run[r].status # "completed" /\ Expired(r) /\ MayComplete(r) /\ Take(w, "acking")
           /\ run' = [run EXCEPT ![r] = [run[r] EXCEPT !.status = "failed", !.beat = QueueLease]]
  <2>1. /\ pc'[w] = "acking" /\ taken'[w] = NextMessage(w)
        /\ \A v \in Workers : v # w => pc'[v] = pc[v] /\ taken'[v] = taken[v]
        /\ \A p \in Processes : \/ backlog'[p] = backlog[p]
                                \/ backlog[p] # <<>> /\ backlog'[p] = Tail(backlog[p])
        /\ r \in Runs
    BY <1>1, <1>6, TakeFrame, Zenon DEF r, Pcs
  <2>2. /\ run'[r].status = "failed" /\ run'[r].left = 0 /\ run[r].status # "completed"
        /\ \A q \in Runs : q # r => run'[q] = run[q]
    BY <1>6, <2>1 DEF TypeOK, RunRows, Expired
  <2>3. \A q \in Runs : Fresh(q)' => Fresh(q)
    BY <2>2, Zenon DEF Fresh
  <2>4. ClaimInv'
    <3>1. \A v \in Workers : pc'[v] = "locked" => /\ pc[v] = "locked"
                                                  /\ taken'[v] = taken[v]
                                                  /\ run'[RunAt(v)] = run[RunAt(v)]
      BY <1>2, <2>1, <2>2, RunAtType, Zenon
    <3> QED BY <2>3, <3>1, ClaimFrame, Zenon
  <2>5. AckInv'
    BY <1>1, <2>1, <2>2, AckFrame, Zenon DEF r, Settled
  <2>6. DeliveryInv'
    BY <1>1, <2>1, <2>2, DeliveryFrame, Zenon
  <2>7. RowInv'
    BY <2>2, Zenon DEF RowInv, Expired, Exhausted
  <2>8. EvidenceExactlyOnce'
    BY <1>1, <2>2, Zenon DEF EvidenceExactlyOnce
  <2> QED BY <2>3, <2>4, <2>5, <2>6, <2>7, <2>8, FreshFrame, Zenon
<1>7. CASE /\ run[r].status # "completed" /\ ~Expired(r)
           /\ ~Fresh(r) /\ DomainFree(DomainOf[r]) /\ ~AnotherRunActive(r)
           /\ Take(w, "locked") /\ UNCHANGED run
  <2>1. /\ pc'[w] = "locked" /\ taken'[w] = NextMessage(w)
        /\ \A v \in Workers : v # w => pc'[v] = pc[v] /\ taken'[v] = taken[v]
        /\ \A p \in Processes : \/ backlog'[p] = backlog[p]
                                \/ backlog[p] # <<>> /\ backlog'[p] = Tail(backlog[p])
        /\ r \in Runs /\ run[r].status # "absent"
    BY <1>1, <1>7, TakeFrame, Zenon DEF r, Pcs
  <2>2. \A q \in Runs : (Fresh(q)' <=> Fresh(q)) /\ (Expired(q)' <=> Expired(q))
    BY <1>7, Zenon DEF Fresh, Expired
  <2>7. OneFreshRunPerDomain' /\ \A q \in Runs : AnotherRunActive(q)' => AnotherRunActive(q)
    BY <2>2, FreshFrame, Zenon
  <2>3. ClaimInv'
    <3>1. RunAt(w)' = r
      BY <2>1, Zenon DEF RunAt, r
    <3>2. \A v \in Workers : v # w => RunAt(v)' = RunAt(v)
      BY <2>1, Zenon DEF RunAt
    <3>3. \A v \in Workers : pc[v] = "locked" => RunAt(v) \in Runs /\ DomainOf[RunAt(v)] # DomainOf[r]
      BY <1>7, RunAtType, Zenon DEF DomainFree
    <3>4. ASSUME NEW v \in Workers, pc'[v] = "locked"
          PROVE  /\ run'[RunAt(v)'].status \notin {"absent", "completed"}
                 /\ ~Expired(RunAt(v))'
                 /\ ~AnotherRunActive(RunAt(v))'
      <4>1. CASE v = w
        BY <1>7, <2>1, <2>2, <2>7, <3>1, <4>1, Zenon DEF Expired, AnotherRunActive, Fresh
      <4>2. CASE v # w
        <5>1. pc[v] = "locked" /\ RunAt(v)' = RunAt(v) /\ run' = run
          BY <1>7, <2>1, <3>2, <3>4, <4>2, Zenon
        <5>2. /\ run[RunAt(v)].status \notin {"absent", "completed"}
              /\ ~Expired(RunAt(v))
              /\ ~AnotherRunActive(RunAt(v))
          BY <5>1, Zenon DEF ClaimInv
        <5>3. ~AnotherRunActive(RunAt(v))'
          BY <5>1, <5>2, Zenon DEF AnotherRunActive, Fresh
        <5> QED BY <5>1, <5>2, <5>3, Zenon DEF Expired
      <4> QED BY <4>1, <4>2, Zenon
    <3>5. ASSUME NEW u \in Workers, NEW v \in Workers, u # v, pc'[u] = "locked", pc'[v] = "locked"
          PROVE  DomainOf[RunAt(u)'] # DomainOf[RunAt(v)']
      BY <2>1, <3>1, <3>2, <3>3, <3>5 DEF ClaimInv
    <3> QED BY <3>4, <3>5, Zenon DEF ClaimInv
  <2>4. AckInv'
    BY <1>1, <1>7, <2>1, AckFrame, Zenon
  <2>5. DeliveryInv'
    BY <1>1, <1>7, <2>1, DeliveryFrame, Zenon
  <2>6. RowInv' /\ EvidenceExactlyOnce'
    BY <1>1, <1>7, Zenon DEF RowInv, Expired, Exhausted, EvidenceExactlyOnce
  <2> QED BY <2>3, <2>4, <2>5, <2>6, <2>7, Zenon
<1> QED BY <1>4, <1>5, <1>6, <1>7, Zenon DEF ClaimBegin, OnBusy, r

(***************************************************************************)
(* Committing a claim.  The lease becomes fresh: the advisory lock keeps   *)
(* every other claim of the domain out, and what this claim read about the *)
(* other runs is still true.                                               *)
(***************************************************************************)
LEMMA ClaimCommitIInv ==
  ASSUME IInv, TypeOK', NEW w \in Workers, ClaimCommit(w)
  PROVE  IInv'
<1> USE DEF IInv
<1> DEFINE r == RunAt(w)
<1>1. /\ pc[w] = "locked" /\ r \in Runs /\ UNCHANGED <<results, entry, backlog, taken>>
      /\ r = RunOf[taken[w]]
  BY RunAtType, Zenon DEF ClaimCommit, GoTo, RunAt
<1>2. /\ run[r].status \notin {"absent", "completed"} /\ ~Expired(r) /\ ~AnotherRunActive(r)
      /\ \A v \in Workers : v # w /\ pc[v] = "locked" => DomainOf[RunAt(v)] # DomainOf[r]
  BY <1>1, Zenon DEF ClaimInv
<1>3. \A v \in Workers : RunAt(v)' = RunAt(v)
  BY <1>1, Zenon DEF RunAt
<1>4. CASE /\ Exhausted(r) /\ pc' = [pc EXCEPT ![w] = "acking"]
           /\ run' = [run EXCEPT ![r].status = "failed"]
  <2> HIDE DEF r
  <2>1. /\ run'[r].status = "failed" /\ run'[r].attempts = run[r].attempts
        /\ \A q \in Runs : q # r => run'[q] = run[q]
    BY <1>1, <1>4, Zenon DEF TypeOK, RunRows
  <2>2. /\ pc'[w] = "acking" /\ \A v \in Workers : v # w => pc'[v] = pc[v]
    BY <1>4, Zenon DEF TypeOK
  <2>3. \A q \in Runs : Fresh(q)' => Fresh(q)
    BY <2>1, Zenon DEF Fresh
  <2>4. ClaimInv'
    <3>1. \A v \in Workers : pc'[v] = "locked" => /\ pc[v] = "locked"
                                                  /\ taken'[v] = taken[v]
                                                  /\ run'[RunAt(v)] = run[RunAt(v)]
      BY <1>1, <1>2, <2>1, <2>2, RunAtType, Zenon
    <3> QED BY <2>3, <3>1, ClaimFrame, Zenon
  <2>5. AckInv'
    BY <1>1, <2>1, <2>2, AckFrame, Zenon DEF Settled
  <2>6. DeliveryInv'
    BY <1>1, <2>1, DeliveryFrame, Zenon
  <2>7. RowInv'
    BY <1>4, <2>1, Zenon DEF RowInv, Expired, Exhausted
  <2>8. EvidenceExactlyOnce'
    BY <1>1, <1>2, <2>1, Zenon DEF EvidenceExactlyOnce
  <2> QED BY <2>3, <2>4, <2>5, <2>6, <2>7, <2>8, FreshFrame, Zenon
<1>5. CASE /\ ~Exhausted(r) /\ pc' = [pc EXCEPT ![w] = "checking"]
           /\ run' = [run EXCEPT ![r] = [run[r] EXCEPT !.status = "running", !.started = TRUE,
                                                       !.beat = 0, !.attempts = @ + 1]]
  <2> HIDE DEF r
  <2>1. /\ run'[r].status = "running"
        /\ \A q \in Runs : q # r => run'[q] = run[q]
    BY <1>1, <1>5, Zenon DEF TypeOK, RunRows
  <2>2. /\ pc'[w] = "checking" /\ \A v \in Workers : v # w => pc'[v] = pc[v]
    BY <1>5, Zenon DEF TypeOK
  <2>3. run[r].status # "failed"
    BY <1>1, <1>2, <1>5, Zenon DEF RowInv
  <2>4. \A q \in Runs : q # r /\ Fresh(q)' => Fresh(q) /\ DomainOf[q] # DomainOf[r]
    BY <1>1, <1>2, <2>1, Zenon DEF Fresh, AnotherRunActive
  <2>5. OneFreshRunPerDomain'
    BY <1>1, <2>4, Zenon DEF OneFreshRunPerDomain
  <2>6. ClaimInv'
    <3>1. ASSUME NEW v \in Workers, pc'[v] = "locked"
          PROVE  /\ v # w /\ pc[v] = "locked" /\ RunAt(v) \in Runs /\ RunAt(v) # r
                 /\ run'[RunAt(v)] = run[RunAt(v)]
                 /\ DomainOf[RunAt(v)] # DomainOf[r]
      BY <1>1, <1>2, <2>1, <2>2, <3>1, RunAtType, Zenon
    <3>2. ASSUME NEW v \in Workers, pc'[v] = "locked" PROVE ~AnotherRunActive(RunAt(v))'
      <4>1. ~AnotherRunActive(RunAt(v))
        BY <3>1, <3>2, Zenon DEF ClaimInv
      <4>2. ASSUME NEW o \in Runs \ {RunAt(v)}, DomainOf[o] = DomainOf[RunAt(v)], Fresh(o)'
            PROVE  FALSE
        BY <2>4, <3>1, <3>2, <4>1, <4>2, Zenon DEF AnotherRunActive
      <4> QED BY <1>3, <4>2, Zenon DEF AnotherRunActive
    <3>3. ASSUME NEW v \in Workers, pc'[v] = "locked"
          PROVE  /\ run'[RunAt(v)'].status \notin {"absent", "completed"}
                 /\ ~Expired(RunAt(v))'
      BY <1>3, <3>1, <3>3 DEF ClaimInv, Expired
    <3>4. ASSUME NEW u \in Workers, NEW v \in Workers, u # v, pc'[u] = "locked", pc'[v] = "locked"
          PROVE  DomainOf[RunAt(u)'] # DomainOf[RunAt(v)']
      BY <1>3, <3>1, <3>4, ZenonT(40) DEF ClaimInv
    <3> QED BY <3>2, <3>3, <3>4, Zenon DEF ClaimInv
  <2>7. AckInv'
    <3>1. \A q \in Runs : run[q].status \in Settled => run'[q].status \in Settled
      BY <1>2, <2>1, <2>3, Zenon DEF Settled
    <3> QED BY <1>1, <2>2, <3>1, AckFrame, Zenon
  <2>8. DeliveryInv'
    BY <1>1, <2>1, DeliveryFrame, Zenon
  <2>9. RowInv'
    BY <2>1, Zenon DEF RowInv, Expired, Exhausted
  <2>10. EvidenceExactlyOnce'
    BY <1>1, <1>2, <2>1, Zenon DEF EvidenceExactlyOnce
  <2> QED BY <2>5, <2>6, <2>7, <2>8, <2>9, <2>10, Zenon
<1> QED BY <1>4, <1>5, Zenon DEF ClaimCommit, GoTo

(***************************************************************************)
(* The steps that touch no row: the end of the checks, a failed call and a *)
(* crash.  Goroutines go on outside a claim, or drop what they have.       *)
(***************************************************************************)
LEMMA QuietIInv ==
  ASSUME IInv, TypeOK', UNCHANGED <<run, results, entry>>,
         \A v \in Workers : pc'[v] \in {"locked", "acking"} => pc'[v] = pc[v] /\ taken'[v] = taken[v],
         \A p \in Processes : backlog'[p] = backlog[p] \/ backlog'[p] = <<>>
  PROVE  IInv'
<1> USE DEF IInv
<1>1. \A q \in Runs : Fresh(q)' => Fresh(q)
  BY Zenon DEF Fresh
<1>2. ClaimInv'
  BY <1>1, ClaimFrame, Zenon
<1>3. AckInv'
  BY AckFrame, Zenon
<1>4. DeliveryInv'
  BY DeliveryFrame, Zenon
<1>5. RowInv' /\ EvidenceExactlyOnce'
  BY Zenon DEF RowInv, Expired, Exhausted, EvidenceExactlyOnce
<1> QED BY <1>1, <1>2, <1>3, <1>4, <1>5, FreshFrame, Zenon

(***************************************************************************)
(* The end of the checks.                                                  *)
(***************************************************************************)
LEMMA FinishChecksIInv ==
  ASSUME IInv, TypeOK', NEW w \in Workers, FinishChecks(w)
  PROVE  IInv'
<1>1. /\ UNCHANGED <<run, results, entry, backlog, taken>>
      /\ pc'[w] = "completing" /\ \A v \in Workers : v # w => pc'[v] = pc[v]
  BY Zenon DEF FinishChecks, GoTo, IInv, TypeOK
<1> QED BY <1>1, QuietIInv, Zenon

(***************************************************************************)
(* A failed call.                                                          *)
(***************************************************************************)
LEMMA HandlerErrorIInv ==
  ASSUME IInv, TypeOK', NEW w \in Workers, HandlerError(w)
  PROVE  IInv'
<1>1. /\ UNCHANGED <<run, results, entry, backlog>> /\ pc'[w] = "idle"
      /\ \A v \in Workers : v # w => pc'[v] = pc[v] /\ taken'[v] = taken[v]
  BY Zenon DEF HandlerError, Release, IInv, TypeOK
<1> QED BY <1>1, QuietIInv, Zenon

(***************************************************************************)
(* A crash.                                                                *)
(***************************************************************************)
LEMMA CrashIInv ==
  ASSUME IInv, TypeOK', NEW p \in Processes, Crash(p)
  PROVE  IInv'
<1>1. /\ UNCHANGED <<run, results, entry>>
      /\ \A v \in Workers : pc'[v] = "idle" \/ (pc'[v] = pc[v] /\ taken'[v] = taken[v])
  <2>1. \A v \in Workers : ProcessOf[v] = p => pc'[v] = "idle"
    BY Zenon DEF Crash
  <2>2. \A v \in Workers : ProcessOf[v] # p => pc'[v] = pc[v] /\ taken'[v] = taken[v]
    BY Zenon DEF Crash
  <2>3. UNCHANGED <<run, results, entry>>
    BY Zenon DEF Crash
  <2> QED BY <2>1, <2>2, <2>3, Zenon
<1>2. \A q \in Processes : backlog'[q] = backlog[q] \/ backlog'[q] = <<>>
  <2>1. backlog'[p] = <<>> /\ \A q \in Processes : q # p => backlog'[q] = backlog[q]
    BY Zenon DEF Crash, IInv, TypeOK
  <2> QED BY <2>1, Zenon
<1> QED BY <1>1, <1>2, QuietIInv, Zenon

(***************************************************************************)
(* Committing a result: it needs a running run without one.                *)
(***************************************************************************)
LEMMA CompleteRunIInv ==
  ASSUME IInv, TypeOK', NEW w \in Workers, CompleteRun(w)
  PROVE  IInv'
<1> USE DEF IInv
<1> DEFINE r == RunAt(w)
<1>1. /\ pc[w] = "completing" /\ r \in Runs /\ ~RowLocked(r) /\ UNCHANGED <<entry, backlog>>
      /\ r = RunOf[taken[w]]
  BY RunAtType, Zenon DEF CompleteRun, RunAt
<1>2. \A v \in Workers : pc[v] = "locked" => RunAt(v) # r
  BY <1>1, Zenon DEF RowLocked
<1>3. CASE Release(w) /\ UNCHANGED <<run, results>>
  <2>1. /\ pc'[w] = "idle"
        /\ \A v \in Workers : v # w => pc'[v] = pc[v] /\ taken'[v] = taken[v]
    BY <1>3, Zenon DEF Release, TypeOK
  <2> QED BY <1>1, <1>3, <2>1, QuietIInv, Zenon
<1>4. CASE /\ Persistable(r) /\ GoTo(w, "acking")
           /\ run' = [run EXCEPT ![r] = [run[r] EXCEPT !.status = "completed", !.beat = QueueLease]]
           /\ results' = [results EXCEPT ![r] = @ + 1]
  <2> HIDE DEF r
  <2>1. /\ run'[r].status = "completed" /\ \A q \in Runs : q # r => run'[q] = run[q]
    BY <1>1, <1>4, Zenon DEF TypeOK, RunRows
  <2>2. /\ pc'[w] = "acking" /\ \A v \in Workers : v # w => pc'[v] = pc[v]
        /\ UNCHANGED taken
    BY <1>4, Zenon DEF GoTo, TypeOK
  <2>3. \A q \in Runs : Fresh(q)' => Fresh(q)
    BY <2>1, Zenon DEF Fresh
  <2>4. ClaimInv'
    <3>1. \A v \in Workers : pc'[v] = "locked" => /\ pc[v] = "locked"
                                                  /\ taken'[v] = taken[v]
                                                  /\ run'[RunAt(v)] = run[RunAt(v)]
      BY <1>2, <2>1, <2>2, RunAtType, Zenon
    <3> QED BY <2>3, <3>1, ClaimFrame, Zenon
  <2>5. AckInv'
    BY <1>1, <2>1, <2>2, AckFrame, Zenon DEF Settled
  <2>6. DeliveryInv'
    BY <1>1, <2>1, DeliveryFrame, Zenon
  <2>7. RowInv'
    BY <2>1, Zenon DEF RowInv, Expired, Exhausted
  <2>8. EvidenceExactlyOnce'
    <3>1. results'[r] = 1 /\ \A q \in Runs : q # r => results'[q] = results[q]
      BY <1>1, <1>4 DEF Persistable, TypeOK
    <3> QED BY <2>1, <3>1, Zenon DEF EvidenceExactlyOnce
  <2> QED BY <2>3, <2>4, <2>5, <2>6, <2>7, <2>8, FreshFrame, Zenon
<1> QED BY <1>3, <1>4, Zenon DEF CompleteRun

(***************************************************************************)
(* Acknowledging: the run of the message is settled.                       *)
(***************************************************************************)
LEMMA XAckIInv ==
  ASSUME IInv, TypeOK', NEW w \in Workers, XAck(w)
  PROVE  IInv'
<1> USE DEF IInv
<1> DEFINE m == taken[w]
<1>1. /\ pc[w] = "acking" /\ m \in Entries /\ UNCHANGED <<run, results, backlog>>
      /\ pc'[w] = "idle" /\ \A v \in Workers : v # w => pc'[v] = pc[v] /\ taken'[v] = taken[v]
  BY Zenon DEF XAck, Release, TypeOK
<1>2. run[RunOf[m]].status \in Settled /\ RunOf[m] \in Runs
  BY <1>1, ShapeAssumption, Zenon DEF AckInv, RunAt
<1>3. entry'[m].state = "acked" /\ \A n \in Entries : n # m => entry'[n] = entry[n]
  BY <1>1 DEF XAck, TypeOK
<1> HIDE DEF m
<1>4. \A q \in Runs : Fresh(q)' => Fresh(q)
  BY <1>1, Zenon DEF Fresh
<1>5. ClaimInv'
  BY <1>1, <1>4, ClaimFrame, Zenon
<1>6. AckInv'
  BY <1>1, <1>2, <1>3, AckFrame, Zenon
<1>7. DeliveryInv'
  <2>1. run[RunOf[m]].status # "absent"
    BY <1>2, Zenon DEF Settled
  <2>2. \A n \in Entries : entry'[n].state # "absent" => run'[RunOf[n]].status # "absent"
    BY <1>1, <1>3, <2>1, Zenon DEF DeliveryInv
  <2>3. ASSUME NEW p \in Processes, NEW i \in 1 .. Len(backlog'[p])
        PROVE  entry'[backlog'[p][i]].state # "absent"
    <3>1. backlog[p][i] \in Entries /\ entry[backlog[p][i]].state # "absent"
      BY <1>1, <2>3 DEF TypeOK, DeliveryInv
    <3> QED BY <1>1, <1>3, <3>1, Zenon
  <2> QED BY <2>2, <2>3, Zenon DEF DeliveryInv
<1>8. RowInv' /\ EvidenceExactlyOnce'
  BY <1>1, Zenon DEF RowInv, Expired, Exhausted, EvidenceExactlyOnce
<1> QED BY <1>4, <1>5, <1>6, <1>7, <1>8, FreshFrame, Zenon

(***************************************************************************)
(* Time passes: leases get old, deadlines come, no claim is open.          *)
(***************************************************************************)
LEMMA TickIInv ==
  ASSUME IInv, TypeOK', Tick
  PROVE  IInv'
<1> USE DEF IInv
<1>1. ASSUME NEW q \in Runs
      PROVE  /\ run'[q].status = run[q].status /\ run'[q].started = run[q].started
             /\ run'[q].attempts = run[q].attempts
             /\ Expired(q) => Expired(q)'
             /\ Fresh(q)' => Fresh(q)
  <2>1. run[q] \in RunRows
    BY Zenon DEF TypeOK
  <2>2. run'[q] = [run[q] EXCEPT !.left = IF run[q].status # "absent" THEN Sooner(@) ELSE @,
                                 !.beat = IF run[q].status = "running" THEN Older(@) ELSE @]
    BY Zenon DEF Tick
  <2>3. /\ run'[q].status = run[q].status /\ run'[q].started = run[q].started
        /\ run'[q].attempts = run[q].attempts
        /\ run'[q].left = IF run[q].status # "absent" THEN Sooner(run[q].left) ELSE run[q].left
        /\ run'[q].beat = IF run[q].status = "running" THEN Older(run[q].beat) ELSE run[q].beat
    BY <2>1, <2>2, Zenon DEF RunRows
  <2> QED BY <2>1, <2>3, NumberAssumption DEF RunRows, Expired, Fresh, Sooner, Older
<1>2. /\ \A v \in Workers : pc[v] # "locked"
      /\ UNCHANGED <<results, backlog, pc, taken>>
  BY Zenon DEF Tick
<1>3. ClaimInv'
  BY <1>1, <1>2, ClaimFrame, Zenon
<1>4. \A n \in Entries : entry'[n].state = entry[n].state
  BY Zenon DEF Tick, TypeOK
<1>5. AckInv'
  BY <1>1, <1>2, <1>4, AckFrame, Zenon
<1>6. DeliveryInv'
  BY <1>1, <1>2, <1>4, DeliveryFrame, Zenon
<1>7. RowInv'
  BY <1>1, Zenon DEF RowInv, Exhausted
<1>8. EvidenceExactlyOnce'
  BY <1>1, <1>2, Zenon DEF EvidenceExactlyOnce
<1> QED BY <1>1, <1>3, <1>5, <1>6, <1>7, <1>8, FreshFrame, Zenon

(***************************************************************************)
(* Every step preserves the invariant.                                     *)
(***************************************************************************)
LEMMA NextIInv == IInv /\ [Next]_vars => IInv'
<1> SUFFICES ASSUME IInv, [Next]_vars PROVE IInv'
  BY Zenon
<1>0. TypeOK'
  BY TypeStep, Zenon DEF IInv
<1>1. CASE \E r \in Runs : CreateRun(r)
  BY <1>0, <1>1, CreateRunIInv, Zenon
<1>2. CASE \E m \in Entries : XAdd(m)
  BY <1>0, <1>2, XAddIInv, Zenon
<1>3. CASE \E p \in Processes, m \in Entries : XReadGroup(p, m) \/ XAutoClaim(p, m)
  BY <1>0, <1>3, ReceiveIInv, Zenon DEF XReadGroup, XAutoClaim
<1>4. CASE \E w \in Workers : Work(w)
  BY <1>0, <1>4, ClaimBeginIInv, ClaimCommitIInv, FinishChecksIInv, CompleteRunIInv, XAckIInv, Zenon DEF Work
<1>5. CASE \E p \in Processes : Crash(p)
  BY <1>0, <1>5, CrashIInv, Zenon
<1>6. CASE \E w \in Workers : HandlerError(w)
  BY <1>0, <1>6, HandlerErrorIInv, Zenon
<1>7. CASE Tick
  BY <1>0, <1>7, TickIInv, Zenon
<1>8. CASE UNCHANGED vars
  BY <1>0, <1>8, QuietIInv, Zenon DEF vars
<1> QED BY <1>1, <1>2, <1>3, <1>4, <1>5, <1>6, <1>7, <1>8, Zenon DEF Next

-----------------------------------------------------------------------------
(* The safety theorems.                                                    *)

(***************************************************************************)
(* The invariant holds in every reachable state.                           *)
(***************************************************************************)
THEOREM Invariance == Spec => []IInv
BY InitIInv, NextIInv, PTL DEF Spec

(***************************************************************************)
(* Type correctness; in particular execution_attempts never exceeds its    *)
(* limit.                                                                  *)
(***************************************************************************)
THEOREM TypeCorrect == Spec => []TypeOK
<1>1. IInv => TypeOK
  BY Zenon DEF IInv
<1> QED BY <1>1, Invariance, PTL

(***************************************************************************)
(* ClaimExecution gives a fresh lease to one run of a domain at a time.    *)
(***************************************************************************)
THEOREM ClaimCorrect == Spec => []OneFreshRunPerDomain
<1>1. IInv => OneFreshRunPerDomain
  BY Zenon DEF IInv
<1> QED BY <1>1, Invariance, PTL

(***************************************************************************)
(* CompleteRun stores evidence exactly once.                               *)
(***************************************************************************)
THEOREM EvidenceCorrect == Spec => []EvidenceExactlyOnce
<1>1. IInv => EvidenceExactlyOnce
  BY Zenon DEF IInv
<1> QED BY <1>1, Invariance, PTL

(***************************************************************************)
(* The consumer acknowledges only what is settled.                         *)
(***************************************************************************)
THEOREM AckCorrect == Spec => []AckedOnlyWhenSettled
<1>1. IInv => AckedOnlyWhenSettled
  BY Zenon DEF IInv, AckInv
<1> QED BY <1>1, Invariance, PTL

-----------------------------------------------------------------------------
(* Refinement and finality.                                                *)

\* One run changes its status, the others keep theirs.
Move(r, from, to) ==
  /\ run[r].status = from
  /\ run'[r].status = to
  /\ \A q \in Runs \ {r} : run'[q].status = run[q].status

Keep == UNCHANGED results /\ \A q \in Runs : run'[q].status = run[q].status

(***************************************************************************)
(* What a claim and a completion can do to the status of a run.            *)
(***************************************************************************)
LEMMA WorkStatus ==
  ASSUME IInv, NEW w \in Workers, Work(w)
  PROVE  \/ Keep
         \/ \E r \in Runs :
              \/ UNCHANGED results /\ Move(r, "queued", "running")
              \/ UNCHANGED results /\ Move(r, "running", "failed")
              \/ results' = [results EXCEPT ![r] = @ + 1] /\ Move(r, "running", "completed")
<1> USE DEF IInv
<1>1. CASE FinishChecks(w) \/ XAck(w)
  BY <1>1, Zenon DEF FinishChecks, XAck, Keep
<1>2. CASE ClaimBegin(w)
  <2>1. CASE UNCHANGED run
    BY <1>2, <2>1, Zenon DEF ClaimBegin, Keep
  <2>2. CASE ~ UNCHANGED run
    <3> DEFINE r == RunOf[NextMessage(w)]
    <3>1. /\ run[r].status # "completed" /\ run[r].started /\ UNCHANGED results
          /\ backlog[ProcessOf[w]] # <<>> /\ Take(w, "acking")
          /\ run' = [run EXCEPT ![r] = [run[r] EXCEPT !.status = "failed", !.beat = QueueLease]]
      BY <1>2, <2>2, Zenon DEF ClaimBegin, MayComplete
    <3>2. r \in Runs /\ run[r].status # "absent"
      BY <3>1, TakeFrame, Zenon DEF Pcs
    <3> HIDE DEF r
    <3>3. run[r].status \in {"running", "failed"}
      BY <3>1, <3>2, Zenon DEF RowInv, TypeOK, RunRows, Statuses, Settled
    <3>4. run'[r].status = "failed" /\ \A q \in Runs : q # r => run'[q] = run[q]
      BY <3>1, <3>2, Zenon DEF TypeOK, RunRows
    <3> QED BY <3>1, <3>2, <3>3, <3>4, Zenon DEF Move, Keep
  <2> QED BY <2>1, <2>2, Zenon
<1>3. CASE ClaimCommit(w)
  <2> DEFINE r == RunAt(w)
  <2>1. pc[w] = "locked" /\ r \in Runs /\ UNCHANGED results
    BY <1>3, RunAtType, Zenon DEF ClaimCommit
  <2>2. run[r].status \notin {"absent", "completed"} /\ ~Expired(r)
    BY <2>1, Zenon DEF ClaimInv
  <2>3. CASE Exhausted(r) /\ run' = [run EXCEPT ![r].status = "failed"]
    <3> HIDE DEF r
    <3>1. run[r].attempts # 0
      BY <2>1, <2>3, NumberAssumption DEF Exhausted, TypeOK, RunRows
    <3>2. run[r].status \in {"running", "failed"}
      BY <2>1, <2>2, <3>1, Zenon DEF RowInv, TypeOK, RunRows, Statuses, Settled
    <3>3. run'[r].status = "failed" /\ \A q \in Runs : q # r => run'[q] = run[q]
      BY <2>1, <2>3, Zenon DEF TypeOK, RunRows
    <3> QED BY <2>1, <3>2, <3>3, Zenon DEF Move, Keep
  <2>4. CASE /\ ~Exhausted(r)
             /\ run' = [run EXCEPT ![r] = [run[r] EXCEPT !.status = "running", !.started = TRUE,
                                                         !.beat = 0, !.attempts = @ + 1]]
    <3> HIDE DEF r
    <3>1. run[r].status \in {"queued", "running"}
      BY <2>1, <2>2, <2>4, Zenon DEF RowInv, TypeOK, RunRows, Statuses, Settled
    <3>2. run'[r].status = "running" /\ \A q \in Runs : q # r => run'[q] = run[q]
      BY <2>1, <2>4, Zenon DEF TypeOK, RunRows
    <3> QED BY <2>1, <3>1, <3>2, Zenon DEF Move, Keep
  <2> QED BY <1>3, <2>3, <2>4, Zenon DEF ClaimCommit
<1>4. CASE CompleteRun(w)
  <2> DEFINE r == RunAt(w)
  <2>1. r \in Runs
    BY <1>4, RunAtType, Zenon DEF CompleteRun
  <2>2. CASE UNCHANGED <<run, results>>
    BY <2>2, Zenon DEF Keep
  <2>3. CASE /\ Persistable(r)
             /\ run' = [run EXCEPT ![r] = [run[r] EXCEPT !.status = "completed", !.beat = QueueLease]]
             /\ results' = [results EXCEPT ![r] = @ + 1]
    <3> HIDE DEF r
    <3>1. run'[r].status = "completed" /\ \A q \in Runs : q # r => run'[q] = run[q]
      BY <2>1, <2>3, Zenon DEF TypeOK, RunRows
    <3> QED BY <2>1, <2>3, <3>1, Zenon DEF Move, Persistable
  <2> QED BY <1>4, <2>2, <2>3, Zenon DEF CompleteRun
<1> QED BY <1>1, <1>2, <1>3, <1>4, Zenon DEF Work

(***************************************************************************)
(* What any step can do to the status of a run.                            *)
(***************************************************************************)
LEMMA StatusStep ==
  ASSUME IInv, [Next]_vars
  PROVE  \/ Keep
         \/ \E r \in Runs :
              \/ UNCHANGED results /\ Move(r, "absent", "queued")
              \/ UNCHANGED results /\ Move(r, "queued", "running")
              \/ UNCHANGED results /\ Move(r, "running", "failed")
              \/ results' = [results EXCEPT ![r] = @ + 1] /\ Move(r, "running", "completed")
<1>1. ASSUME NEW r \in Runs, CreateRun(r)
      PROVE  UNCHANGED results /\ Move(r, "absent", "queued")
  BY <1>1, Zenon DEF CreateRun, Move, IInv, TypeOK, RunRows
<1>2. CASE \E m \in Entries : XAdd(m)
  BY <1>2, Zenon DEF XAdd, Keep
<1>3. CASE \E p \in Processes, m \in Entries : XReadGroup(p, m) \/ XAutoClaim(p, m)
  BY <1>3, Zenon DEF XReadGroup, XAutoClaim, Receive, Keep
<1>4. CASE \E w \in Workers : Work(w)
  BY <1>4, WorkStatus, Zenon
<1>5. CASE \E p \in Processes : Crash(p)
  BY <1>5, Zenon DEF Crash, Keep
<1>6. CASE \E w \in Workers : HandlerError(w)
  BY <1>6, Zenon DEF HandlerError, Keep
<1>7. CASE Tick
  BY <1>7, ZenonT(60) DEF Tick, Keep, IInv, TypeOK, RunRows
<1>8. CASE UNCHANGED vars
  BY <1>8, Zenon DEF vars, Keep
<1> QED BY <1>1, <1>2, <1>3, <1>4, <1>5, <1>6, <1>7, <1>8, Zenon DEF Next

(***************************************************************************)
(* A settled run keeps its status whatever workers do late.                *)
(***************************************************************************)
THEOREM SettledCorrect == Spec => SettledIsFinal
<1> DEFINE Final == \A r \in Runs : run[r].status \in Settled => run'[r].status = run[r].status
<1>1. IInv /\ [Next]_vars => [Final]_vars
  BY StatusStep, Zenon DEF Move, Keep, Settled
<1> HIDE DEF Final
<1>2. Spec => [][Final]_vars
  BY <1>1, Invariance, PTL DEF Spec
<1> QED BY <1>2, Zenon DEF Final, SettledIsFinal

\* The refinement mapping.
Mapped == [r \in Runs |-> LedgerState(r)]
Evidence == {r \in Runs : results[r] > 0}

(***************************************************************************)
(* A change of one run's status changes one entry of the mapped ledger.    *)
(***************************************************************************)
LEMMA MoveMapped ==
  ASSUME NEW r \in Runs, NEW from, NEW to \in Statuses, Move(r, from, to)
  PROVE  Mapped' = [Mapped EXCEPT ![r] = CASE to = "queued" -> "accepted"
                                           [] to = "running" -> "started"
                                           [] OTHER -> to]
<1>1. LedgerState(r)' = CASE to = "queued" -> "accepted"
                          [] to = "running" -> "started"
                          [] OTHER -> to
  BY Zenon DEF Move, LedgerState
<1>2. \A q \in Runs \ {r} : LedgerState(q)' = LedgerState(q)
  BY Zenon DEF Move, LedgerState
<1> QED BY <1>1, <1>2, Zenon DEF Mapped

(***************************************************************************)
(* Every step is a step of the ledger or none.                             *)
(***************************************************************************)
LEMMA LedgerStep == IInv /\ [Next]_vars => [Ledger!Next]_(Ledger!vars)
<1> SUFFICES ASSUME IInv, [Next]_vars
             PROVE  (\E r \in Runs : Ledger!Accept(r) \/ Ledger!Start(r) \/ Ledger!Settle(r))
                    \/ (Mapped' = Mapped /\ Evidence' = Evidence)
  BY Zenon DEF Ledger!Next, Ledger!vars, Mapped, Evidence
<1>0. UNCHANGED results => Evidence' = Evidence
  BY Zenon DEF Evidence
<1>1. CASE Keep
  <2>1. \A q \in Runs : LedgerState(q)' = LedgerState(q)
    BY <1>1, Zenon DEF Keep, LedgerState
  <2> QED BY <1>0, <1>1, <2>1, Zenon DEF Keep, Mapped
<1>2. ASSUME NEW r \in Runs, UNCHANGED results, Move(r, "absent", "queued")
      PROVE  Ledger!Accept(r)
  <2>1. Mapped[r] = "absent"
    BY <1>2, Zenon DEF Mapped, LedgerState, Move
  <2>2. Mapped' = [Mapped EXCEPT ![r] = "accepted"]
    BY <1>2, MoveMapped, Zenon DEF Statuses
  <2> QED BY <1>0, <1>2, <2>1, <2>2, Zenon DEF Ledger!Accept, Mapped, Evidence
<1>3. ASSUME NEW r \in Runs, UNCHANGED results, Move(r, "queued", "running")
      PROVE  Ledger!Start(r)
  <2>1. Mapped[r] = "accepted"
    BY <1>3, Zenon DEF Mapped, LedgerState, Move
  <2>2. Mapped' = [Mapped EXCEPT ![r] = "started"]
    BY <1>3, MoveMapped, Zenon DEF Statuses
  <2> QED BY <1>0, <1>3, <2>1, <2>2, Zenon DEF Ledger!Start, Mapped, Evidence
<1>4. ASSUME NEW r \in Runs, UNCHANGED results, Move(r, "running", "failed")
      PROVE  Ledger!Settle(r)
  <2>1. Mapped[r] = "started"
    BY <1>4, Zenon DEF Mapped, LedgerState, Move
  <2>2. Mapped' = [Mapped EXCEPT ![r] = "failed"]
    BY <1>4, MoveMapped, Zenon DEF Statuses, Settled
  <2> QED BY <1>0, <1>4, <2>1, <2>2, Zenon DEF Ledger!Settle, Ledger!Abandon, Mapped, Evidence
<1>5. ASSUME NEW r \in Runs, results' = [results EXCEPT ![r] = @ + 1], Move(r, "running", "completed")
      PROVE  Ledger!Settle(r)
  <2>1. Mapped[r] = "started"
    BY <1>5, Zenon DEF Mapped, LedgerState, Move
  <2>2. Mapped' = [Mapped EXCEPT ![r] = "completed"]
    BY <1>5, MoveMapped, Zenon DEF Statuses, Settled
  <2>3. Evidence' = Evidence \cup {r}
    <3>1. results \in [Runs -> Nat]
      BY Zenon DEF IInv, TypeOK
    <3> QED BY <1>5, <3>1 DEF Evidence
  <2> QED BY <1>5, <2>1, <2>2, <2>3, Zenon DEF Ledger!Settle, Ledger!Record, Mapped, Evidence
<1> QED BY <1>1, <1>2, <1>3, <1>4, <1>5, StatusStep, Zenon

(***************************************************************************)
(* Executing runs implements the abstract ledger.                          *)
(***************************************************************************)
THEOREM LedgerImplemented == Spec => ImplementsLedger
<1>1. Init => Ledger!Init
  BY DEF Init, Ledger!Init, LedgerState
<1> QED BY <1>1, LedgerStep, Invariance, PTL DEF Spec, ImplementsLedger, Ledger!Spec

-----------------------------------------------------------------------------
(* A queue lease longer than the run timeout.                              *)

(***************************************************************************)
(* Goroutines stay timely if none starts to execute and the rows they work *)
(* on keep a status that suits them.                                       *)
(***************************************************************************)
LEMMA TimelyFrame ==
  ASSUME TypeOK, TimelyInv,
         \A w \in Workers : pc'[w] \in {"locked", "checking", "completing"} =>
           /\ taken'[w] = taken[w]
           /\ pc[w] = IF pc'[w] = "completing" /\ pc[w] = "checking" THEN "checking" ELSE pc'[w]
           /\ \/ run'[RunAt(w)].status = run[RunAt(w)].status
              \/ Executing(w) /\ run'[RunAt(w)].status = "failed",
         \A r \in Runs : RowTimely(r)'
  PROVE  TimelyInv'
<1>1. \A w \in Workers : pc'[w] \in {"locked", "checking", "completing"} => RunAt(w)' = RunAt(w)
  BY Zenon DEF RunAt
<1>2. \A w \in Workers : Executing(w)' => Executing(w)
  BY Zenon DEF Executing
<1>3. ASSUME NEW w \in Workers PROVE WorkerTimely(w)'
  <2>1. WorkerTimely(w)
    BY Zenon DEF TimelyInv
  <2>2. CASE pc'[w] = "locked"
    BY <1>1, <2>1, <2>2, Zenon DEF WorkerTimely, Executing
  <2>3. CASE pc'[w] = "checking"
    BY <1>1, <2>1, <2>3, Zenon DEF WorkerTimely
  <2>4. CASE pc'[w] = "completing"
    BY <1>1, <2>1, <2>4, Zenon DEF WorkerTimely
  <2> QED BY <2>2, <2>3, <2>4, Zenon DEF WorkerTimely
<1>4. \A v, w \in Workers : v # w /\ Executing(v)' /\ Executing(w)' => RunAt(v)' # RunAt(w)'
  <2> SUFFICES ASSUME NEW v \in Workers, NEW w \in Workers, v # w, Executing(v)', Executing(w)'
               PROVE  RunAt(v)' # RunAt(w)'
    BY Zenon
  <2>1. RunAt(v)' = RunAt(v) /\ RunAt(w)' = RunAt(w)
    BY <1>1, Zenon DEF Executing
  <2>2. RunAt(v) # RunAt(w)
    BY <1>2, Zenon DEF TimelyInv
  <2> QED BY <2>1, <2>2, Zenon
<1> QED BY <1>3, <1>4, Zenon DEF TimelyInv

(***************************************************************************)
(* A running run that is not expired has a fresh lease.                    *)
(***************************************************************************)
LEMMA RunningIsFresh ==
  ASSUME QueueLease > RunTimeout, TypeOK, NEW r \in Runs, RowTimely(r),
         run[r].status = "running", ~Expired(r)
  PROVE  Fresh(r)
<1>1. run[r].beat \in Nat /\ run[r].left \in Nat /\ run[r].beat + run[r].left <= RunTimeout
  BY NumberAssumption DEF TypeOK, RunRows, RowTimely
<1> QED BY <1>1, NumberAssumption DEF Fresh

(***************************************************************************)
(* Claims keep runs timely: only a queued run is ever claimed.             *)
(***************************************************************************)
LEMMA ClaimBeginTimely ==
  ASSUME QueueLease > RunTimeout, IInv, TimelyInv, NEW w \in Workers, ClaimBegin(w)
  PROVE  TimelyInv'
<1> USE DEF IInv
<1> DEFINE r == RunOf[NextMessage(w)]
<1>1. pc[w] = "idle" /\ backlog[ProcessOf[w]] # <<>> /\ ~RowLocked(r)
  BY Zenon DEF ClaimBegin
<1>2. \A v \in Workers : pc[v] = "locked" => RunAt(v) # r
  BY <1>1, Zenon DEF RowLocked
<1> HIDE DEF r
<1>3. ASSUME NEW to \in {"idle", "acking"}, Take(w, to), UNCHANGED run
      PROVE  TimelyInv'
  <2>1. pc'[w] = to /\ \A v \in Workers : v # w => pc'[v] = pc[v] /\ taken'[v] = taken[v]
    BY <1>1, <1>3, TakeFrame, Zenon DEF Pcs
  <2>2. \A q \in Runs : RowTimely(q)'
    BY <1>3, Zenon DEF TimelyInv, RowTimely, Expired
  <2> QED BY <1>3, <2>1, <2>2, TimelyFrame, Zenon
<1>4. CASE /\ Expired(r) /\ MayComplete(r) /\ Take(w, "acking")
           /\ run[r].status # "completed"
           /\ run' = [run EXCEPT ![r] = [run[r] EXCEPT !.status = "failed", !.beat = QueueLease]]
  <2>1. /\ pc'[w] = "acking" /\ \A v \in Workers : v # w => pc'[v] = pc[v] /\ taken'[v] = taken[v]
        /\ r \in Runs
    BY <1>1, <1>4, TakeFrame, Zenon DEF Pcs, r
  <2>2. /\ run'[r].status = "failed" /\ run'[r].left = 0 /\ run'[r].attempts = run[r].attempts
        /\ \A q \in Runs : q # r => run'[q] = run[q]
    BY <1>4, <2>1 DEF TypeOK, RunRows, Expired
  <2>3. \A q \in Runs : RowTimely(q)'
    BY <2>2, Zenon DEF TimelyInv, RowTimely, Expired
  <2>4. \A v \in Workers : pc'[v] \in {"locked", "checking", "completing"} =>
          /\ v # w /\ RunAt(v) \in Runs
          /\ \/ run'[RunAt(v)].status = run[RunAt(v)].status
             \/ Executing(v) /\ run'[RunAt(v)].status = "failed"
    BY <1>2, <2>1, <2>2, RunAtType, Zenon DEF Executing
  <2> QED BY <2>1, <2>3, <2>4, TimelyFrame, Zenon
<1>5. CASE /\ run[r].status # "completed" /\ ~Expired(r) /\ ~Fresh(r)
           /\ Take(w, "locked") /\ UNCHANGED run
  <2>1. /\ pc'[w] = "locked" /\ taken'[w] = NextMessage(w)
        /\ \A v \in Workers : v # w => pc'[v] = pc[v] /\ taken'[v] = taken[v]
        /\ r \in Runs /\ run[r].status # "absent"
    BY <1>1, <1>5, TakeFrame, Zenon DEF Pcs, r
  <2>2. RowTimely(r) /\ run[r].status \in Statuses
    BY <2>1, Zenon DEF TimelyInv, TypeOK, RunRows
  <2>3. run[r].status = "queued"
    BY <1>5, <2>1, <2>2, RunningIsFresh, Zenon DEF RowTimely, Statuses, Settled
  <2>4. RunAt(w)' = r /\ \A v \in Workers : v # w => RunAt(v)' = RunAt(v)
    BY <2>1, Zenon DEF RunAt, r
  <2>5. \A v \in Workers : WorkerTimely(v)'
    BY <1>5, <2>1, <2>3, <2>4, Zenon DEF TimelyInv, WorkerTimely
  <2>6. \A q \in Runs : RowTimely(q)'
    BY <1>5, Zenon DEF TimelyInv, RowTimely, Expired
  <2>7. \A v \in Workers : Executing(v)' => v # w /\ Executing(v)
    BY <2>1, Zenon DEF Executing
  <2> QED BY <2>4, <2>5, <2>6, <2>7, Zenon DEF TimelyInv
<1> QED BY <1>3, <1>4, <1>5, Zenon DEF ClaimBegin, OnBusy, OnCompleted, r

(***************************************************************************)
(* Committing a claim: the run was queued, and nobody else executes it.    *)
(***************************************************************************)
LEMMA ClaimCommitTimely ==
  ASSUME IInv, TimelyInv, NEW w \in Workers, ClaimCommit(w)
  PROVE  TimelyInv'
<1> USE DEF IInv
<1> DEFINE r == RunAt(w)
<1>1. pc[w] = "locked" /\ r \in Runs /\ UNCHANGED taken
  BY RunAtType, Zenon DEF ClaimCommit, GoTo
<1>2. run[r].status = "queued"
  BY <1>1, Zenon DEF TimelyInv, WorkerTimely
<1>3. run[r].attempts = 0 /\ ~Exhausted(r) /\ run[r].left \in 0 .. RunTimeout
  BY <1>1, <1>2, NumberAssumption DEF RowInv, Exhausted, TypeOK, RunRows
<1>4. /\ pc' = [pc EXCEPT ![w] = "checking"]
      /\ run' = [run EXCEPT ![r] = [run[r] EXCEPT !.status = "running", !.started = TRUE,
                                                  !.beat = 0, !.attempts = @ + 1]]
  BY <1>3, Zenon DEF ClaimCommit, GoTo
<1>5. \A v \in Workers : RunAt(v)' = RunAt(v)
  BY <1>1, Zenon DEF RunAt
<1>6. \A v \in Workers : Executing(v) => RunAt(v) # r
  BY <1>2, Zenon DEF TimelyInv, WorkerTimely, Executing
<1>7. \A v \in Workers : v # w /\ pc[v] = "locked" => RunAt(v) # r
  BY <1>1, Zenon DEF ClaimInv
<1> HIDE DEF r
<1>8. /\ run'[r].status = "running" /\ run'[r].beat = 0 /\ run'[r].left = run[r].left
      /\ run'[r].attempts = 1
      /\ \A q \in Runs : q # r => run'[q] = run[q]
  BY <1>1, <1>3, <1>4 DEF TypeOK, RunRows
<1>9. pc'[w] = "checking" /\ \A v \in Workers : v # w => pc'[v] = pc[v]
  BY <1>4, Zenon DEF TypeOK
<1>10. ASSUME NEW q \in Runs PROVE RowTimely(q)'
  <2>1. CASE q = r
    BY <1>3, <1>8, <2>1, NumberAssumption DEF RowTimely
  <2>2. CASE q # r
    BY <1>8, <2>2, Zenon DEF TimelyInv, RowTimely, Expired
  <2> QED BY <2>1, <2>2, Zenon
<1>11. ASSUME NEW v \in Workers PROVE WorkerTimely(v)'
  <2>1. CASE v = w
    BY <1>5, <1>8, <1>9, <2>1, Zenon DEF WorkerTimely, r
  <2>2. CASE v # w
    <3>1. pc'[v] = pc[v] /\ RunAt(v)' = RunAt(v) /\ WorkerTimely(v)
      BY <1>5, <1>9, <2>2, Zenon DEF TimelyInv
    <3>2. CASE pc[v] \in {"locked", "checking", "completing"}
      <4>1. RunAt(v) \in Runs /\ RunAt(v) # r
        BY <1>6, <1>7, <2>2, <3>2, RunAtType, Zenon DEF Executing
      <4>2. run'[RunAt(v)'] = run[RunAt(v)]
        BY <1>8, <3>1, <4>1, Zenon
      <4> QED
        BY <3>1, <4>2, Zenon DEF WorkerTimely
    <3>3. CASE pc[v] \notin {"locked", "checking", "completing"}
      BY <3>1, <3>3, Zenon DEF WorkerTimely
    <3> QED BY <3>2, <3>3, Zenon
  <2> QED BY <2>1, <2>2, Zenon
<1>12. ASSUME NEW u \in Workers, NEW v \in Workers, u # v, Executing(u)', Executing(v)'
       PROVE  RunAt(u)' # RunAt(v)'
  <2>1. \A x \in Workers : x # w => (Executing(x)' <=> Executing(x))
    BY <1>9, Zenon DEF Executing
  <2> QED BY <1>5, <1>6, <1>12, <2>1, Zenon DEF TimelyInv, r
<1> QED BY <1>10, <1>11, <1>12, Zenon DEF TimelyInv

(***************************************************************************)
(* Completing a run: nobody else executes it.                              *)
(***************************************************************************)
LEMMA CompleteRunTimely ==
  ASSUME IInv, TimelyInv, NEW w \in Workers, CompleteRun(w)
  PROVE  TimelyInv'
<1> USE DEF IInv
<1> DEFINE r == RunAt(w)
<1>1. pc[w] = "completing" /\ r \in Runs /\ ~RowLocked(r)
  BY RunAtType, Zenon DEF CompleteRun
<1>2. CASE Release(w) /\ UNCHANGED run
  <2>1. pc'[w] = "idle" /\ \A v \in Workers : v # w => pc'[v] = pc[v] /\ taken'[v] = taken[v]
    BY <1>2, Zenon DEF Release, TypeOK
  <2>2. \A q \in Runs : RowTimely(q)'
    BY <1>2, Zenon DEF TimelyInv, RowTimely, Expired
  <2> QED BY <1>2, <2>1, <2>2, TimelyFrame, Zenon
<1>3. CASE /\ Persistable(r) /\ GoTo(w, "acking")
           /\ run' = [run EXCEPT ![r] = [run[r] EXCEPT !.status = "completed", !.beat = QueueLease]]
  <2>1. \A v \in Workers : v # w /\ pc[v] \in {"locked", "checking", "completing"} => RunAt(v) # r
    BY <1>1, Zenon DEF RowLocked, TimelyInv, Executing
  <2> HIDE DEF r
  <2>2. /\ run'[r].status = "completed" /\ run'[r].attempts = run[r].attempts
        /\ \A q \in Runs : q # r => run'[q] = run[q]
    BY <1>1, <1>3, Zenon DEF TypeOK, RunRows
  <2>3. /\ pc'[w] = "acking" /\ UNCHANGED taken
        /\ \A v \in Workers : v # w => pc'[v] = pc[v]
    BY <1>3, Zenon DEF GoTo, TypeOK
  <2>4. \A q \in Runs : RowTimely(q)'
    BY <2>2, Zenon DEF TimelyInv, RowTimely, Expired
  <2>5. \A v \in Workers : pc'[v] \in {"locked", "checking", "completing"} =>
          v # w /\ run'[RunAt(v)] = run[RunAt(v)]
    BY <2>1, <2>2, <2>3, RunAtType, Zenon
  <2> QED BY <2>3, <2>4, <2>5, TimelyFrame, Zenon
<1> QED BY <1>2, <1>3, Zenon DEF CompleteRun

(***************************************************************************)
(* Time: the heartbeat ages as fast as the deadline comes.                 *)
(***************************************************************************)
LEMMA TickTimely ==
  ASSUME QueueLease > RunTimeout, IInv, TimelyInv, Tick
  PROVE  TimelyInv'
<1> USE DEF IInv
<1>1. ASSUME NEW q \in Runs
      PROVE  run'[q].status = run[q].status /\ RowTimely(q)'
  <2>1. run[q] \in RunRows /\ RowTimely(q)
    BY Zenon DEF TypeOK, TimelyInv
  <2>2. run'[q] = [run[q] EXCEPT !.left = IF run[q].status # "absent" THEN Sooner(@) ELSE @,
                                 !.beat = IF run[q].status = "running" THEN Older(@) ELSE @]
    BY Zenon DEF Tick
  <2>3. /\ run'[q].status = run[q].status /\ run'[q].attempts = run[q].attempts
        /\ run'[q].left = IF run[q].status # "absent" THEN Sooner(run[q].left) ELSE run[q].left
        /\ run'[q].beat = IF run[q].status = "running" THEN Older(run[q].beat) ELSE run[q].beat
    BY <2>1, <2>2, Zenon DEF RunRows
  <2>4. run[q].left \in 0 .. RunTimeout /\ run[q].beat \in 0 .. QueueLease
    BY <2>1, Zenon DEF RunRows
  <2>5. ASSUME run'[q].status = "running", run'[q].left # 0
        PROVE  run'[q].beat + run'[q].left <= RunTimeout
    <3>1. run[q].beat + run[q].left <= RunTimeout /\ run[q].left # 0
      BY <2>1, <2>3, <2>4, <2>5 DEF RowTimely, Expired, Sooner
    <3>2. run'[q].left = run[q].left - 1 /\ run'[q].beat <= run[q].beat + 1 /\ run'[q].beat \in Nat
      BY <2>3, <2>4, <2>5, <3>1, NumberAssumption DEF Sooner, Older
    <3> QED BY <2>4, <3>1, <3>2, NumberAssumption
  <2>6. run'[q].status = "failed" => run'[q].left = 0
    BY <2>1, <2>3 DEF RowTimely, Expired, Sooner
  <2> QED BY <2>1, <2>3, <2>5, <2>6, Zenon DEF RowTimely, Expired
<1>2. UNCHANGED <<pc, taken>>
  BY Zenon DEF Tick
<1>3. \A w \in Workers : pc[w] # "idle" => RunAt(w) \in Runs
  BY RunAtType, Zenon
<1> QED BY <1>1, <1>2, <1>3, TimelyFrame, Zenon

(***************************************************************************)
(* With the invariant, every step keeps runs timely.                       *)
(***************************************************************************)
LEMMA NextTimely ==
  ASSUME QueueLease > RunTimeout
  PROVE  IInv /\ TimelyInv /\ [Next]_vars => TimelyInv'
<1> SUFFICES ASSUME IInv, TimelyInv, [Next]_vars PROVE TimelyInv'
  BY Zenon
<1>0. ASSUME UNCHANGED run,
             \A w \in Workers : pc'[w] \in {"locked", "checking", "completing"} =>
               /\ taken'[w] = taken[w]
               /\ pc'[w] = pc[w] \/ (pc[w] = "checking" /\ pc'[w] = "completing")
      PROVE  TimelyInv'
  <2>1. \A r \in Runs : RowTimely(r)'
    BY <1>0, Zenon DEF TimelyInv, RowTimely, Expired
  <2> QED BY <1>0, <2>1, TimelyFrame, Zenon DEF IInv
<1>1. ASSUME NEW r \in Runs, CreateRun(r) PROVE TimelyInv'
  <2>1. /\ run[r].status = "absent" /\ run'[r] = [run[r] EXCEPT !.status = "queued"]
        /\ \A q \in Runs : q # r => run'[q] = run[q]
        /\ UNCHANGED <<pc, taken>>
    BY <1>1, Zenon DEF CreateRun, IInv, TypeOK
  <2>2. run'[r].status = "queued" /\ run'[r].attempts = run[r].attempts
    BY <2>1 DEF IInv, TypeOK, RunRows
  <2>3. \A q \in Runs : RowTimely(q)'
    BY <2>1, <2>2, Zenon DEF TimelyInv, RowTimely, Expired
  <2>4. \A w \in Workers : pc[w] \in {"locked", "checking", "completing"} =>
          RunAt(w) \in Runs /\ RunAt(w) # r
    BY <2>1, RunAtType, Zenon DEF IInv, TimelyInv, WorkerTimely
  <2> QED BY <2>1, <2>3, <2>4, TimelyFrame, Zenon DEF IInv
<1>2. CASE \E m \in Entries : XAdd(m)
  BY <1>0, <1>2, Zenon DEF XAdd
<1>3. CASE \E p \in Processes, m \in Entries : XReadGroup(p, m) \/ XAutoClaim(p, m)
  BY <1>0, <1>3, Zenon DEF XReadGroup, XAutoClaim, Receive
<1>4. ASSUME NEW w \in Workers, Work(w) PROVE TimelyInv'
  <2>1. CASE FinishChecks(w)
    BY <1>0, <2>1, Zenon DEF FinishChecks, GoTo, IInv, TypeOK
  <2>2. CASE XAck(w)
    BY <1>0, <2>2, Zenon DEF XAck, Release, IInv, TypeOK
  <2> QED BY <1>4, <2>1, <2>2, ClaimBeginTimely, ClaimCommitTimely, CompleteRunTimely, Zenon DEF Work
<1>5. ASSUME NEW p \in Processes, Crash(p) PROVE TimelyInv'
  <2>1. \A w \in Workers : ProcessOf[w] = p => pc'[w] = "idle"
    BY <1>5, Zenon DEF Crash
  <2>2. \A w \in Workers : ProcessOf[w] # p => pc'[w] = pc[w] /\ taken'[w] = taken[w]
    BY <1>5, Zenon DEF Crash
  <2> QED BY <1>0, <1>5, <2>1, <2>2, Zenon DEF Crash
<1>6. CASE \E w \in Workers : HandlerError(w)
  BY <1>0, <1>6, Zenon DEF HandlerError, Release, IInv, TypeOK
<1>7. CASE Tick
  BY <1>7, TickTimely, Zenon
<1>8. CASE UNCHANGED vars
  BY <1>0, <1>8, Zenon DEF vars
<1> QED BY <1>1, <1>2, <1>3, <1>4, <1>5, <1>6, <1>7, <1>8, Zenon DEF Next

(***************************************************************************)
(* If the queue lease is longer than the run timeout, no two goroutines    *)
(* check one domain at the same time ...                                   *)
(***************************************************************************)
THEOREM ChecksExclusive ==
  ASSUME QueueLease > RunTimeout
  PROVE  Spec => []NoSimultaneousChecks
<1>1. Init => TimelyInv
  BY NumberAssumption DEF Init, TimelyInv, RowTimely, WorkerTimely, Executing
<1>2. IInv /\ TimelyInv => NoSimultaneousChecks
  <2> SUFFICES ASSUME IInv, TimelyInv, NEW v \in Workers, NEW w \in Workers,
                      v # w, Checking(v), Checking(w)
               PROVE  DomainOf[RunAt(v)] # DomainOf[RunAt(w)]
    BY Zenon DEF NoSimultaneousChecks
  <2>1. /\ RunAt(v) # RunAt(w) /\ RunAt(v) \in Runs /\ RunAt(w) \in Runs
        /\ RowTimely(RunAt(v)) /\ RowTimely(RunAt(w))
    BY RunAtType, Zenon DEF IInv, TimelyInv, Executing, Checking
  <2>2. /\ run[RunAt(v)].status = "running" /\ ~Expired(RunAt(v))
        /\ run[RunAt(w)].status = "running" /\ ~Expired(RunAt(w))
    BY <2>1, Zenon DEF TimelyInv, WorkerTimely, RowTimely, Checking
  <2>3. Fresh(RunAt(v)) /\ Fresh(RunAt(w))
    BY <2>1, <2>2, RunningIsFresh, Zenon DEF IInv
  <2> QED BY <2>1, <2>3, Zenon DEF IInv, OneFreshRunPerDomain
<1> QED BY <1>1, <1>2, NextTimely, Invariance, PTL DEF Spec

(***************************************************************************)
(* ... and no run is executed twice: redelivery only settles it.           *)
(***************************************************************************)
THEOREM ExecutedOnce ==
  ASSUME QueueLease > RunTimeout
  PROVE  Spec => []ExecutedAtMostOnce
<1>1. Init => TimelyInv
  BY NumberAssumption DEF Init, TimelyInv, RowTimely, WorkerTimely, Executing
<1>2. TimelyInv => ExecutedAtMostOnce
  BY Zenon DEF TimelyInv, RowTimely, ExecutedAtMostOnce
<1> QED BY <1>1, <1>2, NextTimely, Invariance, PTL DEF Spec
=============================================================================
