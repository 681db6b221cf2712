-------------------------- MODULE TimetableProofs ---------------------------
(***************************************************************************)
(* Proofs about what is done on a timetable, for any number of schedulers, *)
(* domains and requests and any intervals: the schedules of domains        *)
(* (Scheduler) and the import of the rows of a sheet (SheetRows).          *)
(*                                                                         *)
(* Scheduler rests on the row locks a scheduler holds between its read and *)
(* its commit: what it read is still so when it commits.                   *)
(***************************************************************************)
EXTENDS Scheduler, SheetRows, Integers, FiniteSetTheorems, TLAPS

\* The module is large: every leaf may take longer than the default of the provers.
USE SMTT(15), ZenonT(15)

-----------------------------------------------------------------------------
(* Schedules of domains                                                    *)

\* What a pass found when it took its locks holds as long as it keeps them.
PassInv ==
  /\ life \in [Monitored -> BOOLEAN] /\ watched \in [Monitored -> BOOLEAN]
  /\ schedule \in [Monitored -> [enabled : BOOLEAN, due : Int]]
  /\ pass \in [Replicas -> SUBSET Monitored]
  /\ \A p \in Replicas : \A d \in pass[p] : watched[d] /\ life[d] /\ schedule[d].enabled

\* The due times an operation writes are numbers, whatever the clocks.
LEMMA DueTimes ==
  ASSUME clock \in Int, NEW d \in Monitored, NEW lag \in 0 .. MaxSkew
  PROVE  NextDue(d, lag) \in Int
BY ScheduleAssumption, SMTT(30) DEF NextDue

\* Steps of ScheduleDue keep the invariant.
LEMMA PassStep ==
  ASSUME clock \in 0 .. Horizon, PassInv, [SchedulerNext]_schedulerVars
  PROVE  PassInv'
<1>1. ASSUME NEW p \in Replicas, NEW batch \in SUBSET Monitored, ClaimDue(p, batch)
      PROVE  PassInv'
  <2>1. \A d \in batch : watched[d] /\ life[d] /\ schedule[d].enabled
    BY <1>1, Zenon DEF ClaimDue, DueNow
  <2> QED
    BY <1>1, <2>1, Zenon DEF ClaimDue, PassInv
<1>2. ASSUME NEW p \in Replicas, NEW lag \in 0 .. MaxSkew, CommitDue(p, lag)
      PROVE  PassInv'
  <2>1. ASSUME NEW d \in Monitored
        PROVE  /\ schedule'[d] \in [enabled : BOOLEAN, due : Int]
               /\ schedule'[d].enabled = schedule[d].enabled
    <3>1. NextDue(d, lag) \in Int
      BY DueTimes, ScheduleAssumption
    <3> QED
      BY <1>2, <3>1, Zenon DEF CommitDue, PassInv
  <2>2. schedule' \in [Monitored -> [enabled : BOOLEAN, due : Int]]
    BY <1>2, <2>1, Zenon DEF CommitDue
  <2>3. pass' \in [Replicas -> SUBSET Monitored] /\ \A q \in Replicas : pass'[q] \subseteq pass[q]
    BY <1>2, Zenon DEF CommitDue, PassInv
  <2> QED
    BY <1>2, <2>1, <2>2, <2>3 DEF CommitDue, PassInv
<1>3. ASSUME NEW p \in Replicas, RollbackDue(p)
      PROVE  PassInv'
  BY <1>3, Zenon DEF RollbackDue, PassInv
<1>4. ASSUME NEW d \in Monitored, NEW alive \in BOOLEAN, NEW mon \in BOOLEAN, ChangeDomain(d, alive, mon)
      PROVE  PassInv'
  <2>1. \A p \in Replicas : d \notin pass[p]
    BY <1>4, Zenon DEF ChangeDomain, ScheduleFree, Locked
  <2>2. EnsuredDue(d, alive /\ mon) \in Int
    BY ScheduleAssumption DEF EnsuredDue, PassInv
  <2>3. [enabled |-> alive /\ mon, due |-> EnsuredDue(d, alive /\ mon)] \in [enabled : BOOLEAN, due : Int]
    BY <2>2, Zenon
  <2>4. schedule' = [schedule EXCEPT ![d] = [enabled |-> alive /\ mon, due |-> EnsuredDue(d, alive /\ mon)]]
    BY <1>4, Zenon DEF ChangeDomain
  <2>5. schedule' \in [Monitored -> [enabled : BOOLEAN, due : Int]] /\ \A e \in Monitored \ {d} : schedule'[e] = schedule[e]
    BY <2>3, <2>4, Zenon DEF PassInv
  <2>6. /\ life' \in [Monitored -> BOOLEAN] /\ watched' \in [Monitored -> BOOLEAN] /\ pass' = pass
        /\ \A e \in Monitored \ {d} : life'[e] = life[e] /\ watched'[e] = watched[e]
    BY <1>4, Zenon DEF ChangeDomain, PassInv
  <2> QED
    BY <2>1, <2>5, <2>6 DEF PassInv
<1>5. ASSUME NEW u \in Users, NEW d \in Monitored, NEW k \in Keys, CreateManualRun(u, d, k)
      PROVE  PassInv'
  BY <1>5, Zenon DEF CreateManualRun, PassInv
<1>6. CASE SchedulerTick
  BY <1>6, Zenon DEF SchedulerTick, PassInv
<1>7. CASE UNCHANGED schedulerVars
  BY <1>7, Zenon DEF schedulerVars, PassInv
<1> QED
  BY <1>1, <1>2, <1>3, <1>4, <1>5, <1>6, <1>7, Zenon DEF SchedulerNext

\* The clock stays within its bound.
LEMMA ClockStep ==
  ASSUME clock \in 0 .. Horizon, [SchedulerNext]_schedulerVars
  PROVE  clock' \in 0 .. Horizon
<1>1. clock' = clock \/ SchedulerTick
  BY ZenonT(60) DEF SchedulerNext, schedulerVars, ClaimDue, CommitDue, RollbackDue, ChangeDomain, CreateManualRun
<1>2. SchedulerTick => clock' = clock + 1 /\ clock < Horizon
  BY Zenon DEF SchedulerTick
<1> QED
  BY <1>1, <1>2, ScheduleAssumption

\* Passes hold only what they found, in every reachable state.
THEOREM PassesHoldWatched == SchedulerSpec => [](clock \in 0 .. Horizon /\ PassInv)
<1>1. SchedulerInit => clock \in 0 .. Horizon /\ PassInv
  BY ScheduleAssumption DEF SchedulerInit, PassInv
<1>2. clock \in 0 .. Horizon /\ PassInv /\ [SchedulerNext]_schedulerVars => (clock \in 0 .. Horizon /\ PassInv)'
  BY PassStep, ClockStep, Zenon
<1> QED
  BY <1>1, <1>2, PTL DEF SchedulerSpec

(***************************************************************************)
(* ScheduleDue gives no run to a domain that is archived, inactive or not  *)
(* monitored, even one that an administrator changes during the pass.      *)
(***************************************************************************)
THEOREM WatchedOnly == SchedulerSpec => OnlyWatchedAreScheduled
<1> DEFINE Due == \A d \in Monitored, t \in Instants :
                    <<d, t>> \in slots' \ slots => watched[d] /\ life[d] /\ schedule[d].enabled
<1>1. PassInv /\ [SchedulerNext]_schedulerVars => [Due]_schedulerVars
  <2> SUFFICES ASSUME PassInv, SchedulerNext, NEW d \in Monitored, NEW t \in Instants, <<d, t>> \in slots' \ slots
               PROVE  watched[d] /\ life[d] /\ schedule[d].enabled
    BY Zenon
  <2>1. PICK p \in Replicas, lag \in 0 .. MaxSkew : CommitDue(p, lag)
    BY Zenon DEF SchedulerNext, ClaimDue, RollbackDue, ChangeDomain, CreateManualRun, SchedulerTick
  <2>2. d \in pass[p]
    BY <2>1, Zenon DEF CommitDue
  <2> QED
    BY <2>2, Zenon DEF PassInv
<1> QED
  BY <1>1, PassesHoldWatched, PTL DEF SchedulerSpec, OnlyWatchedAreScheduled

\* Every answer is a run, and no two runs have one user, domain and key.
KeyInv ==
  /\ answers \subseteq manual
  /\ \A a, b \in manual : a[2] = b[2] /\ a[3] = b[3] /\ a[4] = b[4] => a = b

(***************************************************************************)
(* A request that is repeated with its Idempotency-Key gets the run of the *)
(* first one, for any number of users, keys and repetitions.               *)
(***************************************************************************)
THEOREM RetriesCorrect == SchedulerSpec => []RetriesGetTheirRun
<1>1. SchedulerInit => KeyInv
  BY Zenon DEF SchedulerInit, KeyInv
<1>2. KeyInv /\ [SchedulerNext]_schedulerVars => KeyInv'
  <2> SUFFICES ASSUME KeyInv, [SchedulerNext]_schedulerVars PROVE KeyInv'
    BY Zenon
  <2>1. ASSUME NEW u \in Users, NEW d \in Monitored, NEW k \in Keys, CreateManualRun(u, d, k)
        PROVE  KeyInv'
    <3> DEFINE fresh == <<Cardinality(manual), d, u, k>>
    <3>1. fresh[2] = d /\ fresh[3] = u /\ fresh[4] = k
      BY Zenon
    <3> HIDE DEF fresh
    <3>2. CASE RunsOfKey(d, u, k) = {}
      <4>1. manual' = manual \cup {fresh} /\ answers' = answers \cup {fresh}
        BY <2>1, <3>2, Zenon DEF CreateManualRun, fresh
      <4>2. \A a \in manual : ~(a[2] = d /\ a[3] = u /\ a[4] = k)
        BY <3>2, Zenon DEF RunsOfKey
      <4> QED
        BY <4>1, <4>2, <3>1 DEF KeyInv
    <3>3. CASE RunsOfKey(d, u, k) # {}
      <4>1. manual' = manual \cup RunsOfKey(d, u, k) /\ answers' = answers \cup RunsOfKey(d, u, k)
        BY <2>1, <3>3, Zenon DEF CreateManualRun
      <4>2. RunsOfKey(d, u, k) \subseteq manual
        BY Zenon DEF RunsOfKey
      <4> QED
        BY <4>1, <4>2, Zenon DEF KeyInv
    <3> QED
      BY <3>2, <3>3, Zenon
  <2>2. CASE UNCHANGED <<manual, answers>>
    BY <2>2, Zenon DEF KeyInv
  <2> QED
    BY <2>1, <2>2, Zenon DEF SchedulerNext, schedulerVars, ClaimDue, CommitDue, RollbackDue, ChangeDomain, SchedulerTick
<1>3. KeyInv => RetriesGetTheirRun
  BY Zenon DEF KeyInv, RetriesGetTheirRun
<1> QED
  BY <1>1, <1>2, <1>3, PTL DEF SchedulerSpec

-----------------------------------------------------------------------------
(***************************************************************************)
(* Scheduler: the slots of a domain.  A run is scheduled for a time        *)
(* truncated to its slot, so two passes that see the same due time agree on *)
(* the slot; the invariant says how far the schedule has moved on.         *)
(***************************************************************************)
\* Truncation to seconds, for any length of a second: it goes back by less than one and keeps the order.
LEMMA Truncation ==
  ASSUME NEW i \in Int
  PROVE  /\ Slot(i) \in Int /\ Slot(i) <= i /\ Slot(i) + Second > i
         /\ i % Second \in Int /\ i \div Second \in Int
         /\ Slot(i) = Second * (i \div Second)
<1>0. Second \in Int /\ Second > 0
  BY ScheduleAssumption
<1>1. i % Second \in Int /\ i % Second >= 0 /\ i % Second < Second
  BY <1>0
<1>2. i \div Second \in Int
  BY <1>0
<1>3. i = Second * (i \div Second) + (i % Second)
  BY <1>0
<1>4. Second * (i \div Second) \in Int
  BY <1>0, <1>2
<1> QED
  BY <1>0, <1>1, <1>2, <1>3, <1>4 DEF Slot

\* Multiples of a number are that number apart.
LEMMA Multiples ==
  ASSUME NEW m \in Int, m > 0, NEW p \in Int, NEW q \in Int, m * p < m * q
  PROVE  m * p + m <= m * q
<1>1. p + 1 <= q
  OBVIOUS
<1>2. m * (p + 1) <= m * q
  BY <1>1
<1>3. m * (p + 1) = m * p + m
  OBVIOUS
<1> QED
  BY <1>2, <1>3, Zenon

\* Truncation to a slot keeps the order of times.
LEMMA TruncationKeepsOrder ==
  ASSUME NEW i \in Int, NEW j \in Int, i <= j
  PROVE  Slot(i) <= Slot(j)
<1>1. Second \in Int /\ Second > 0
  BY ScheduleAssumption
<1>2. /\ Slot(i) \in Int /\ Slot(i) <= i /\ i \div Second \in Int /\ Slot(i) = Second * (i \div Second)
      /\ Slot(j) \in Int /\ Slot(j) + Second > j /\ j \div Second \in Int /\ Slot(j) = Second * (j \div Second)
  BY Truncation, Zenon
<1>3. ASSUME Slot(j) < Slot(i)
      PROVE  Slot(j) + Second <= Slot(i)
  <2>1. Second * (j \div Second) < Second * (i \div Second)
    BY <1>2, <1>3, Zenon
  <2>2. Second * (j \div Second) + Second <= Second * (i \div Second)
    BY <1>1, <1>2, <2>1, Multiples, Zenon
  <2> QED
    BY <1>2, <2>2, Zenon
<1> QED
  BY <1>1, <1>2, <1>3

\* A slot came from a due time that has passed; since then the schedule has moved on by an
\* interval, or was enabled again.
MovedOn(d, e) ==
  \/ schedule[d].due + MaxSkew >= e + Interval
  \/ \E t \in enabledAt[d] : e <= t /\ t <= schedule[d].due

\* The inductive invariant: what a pass holds is due and held by it alone, and the slots of every
\* domain are spaced, the last one moved on from.
SlotInv ==
  /\ enabledAt \in [Monitored -> SUBSET Int]
  /\ \A p \in Replicas : \A d \in pass[p] : schedule[d].due <= clock
  /\ \A p, q \in Replicas : p # q => pass[p] \cap pass[q] = {}
  /\ \A a \in slots : \E d \in Monitored, e \in Int : a = <<d, Slot(e)>> /\ e <= clock /\ MovedOn(d, e)
  /\ SlotsAreSpaced

\* Steps that leave slots, schedules and enablings alone, while time does not go back.
LEMMA SlotsKept ==
  ASSUME SlotInv, clock \in Int, clock' \in Int, clock <= clock', UNCHANGED <<slots, schedule, enabledAt>>,
         \A p \in Replicas : \A d \in pass'[p] : schedule[d].due <= clock',
         \A p, q \in Replicas : p # q => pass'[p] \cap pass'[q] = {}
  PROVE  SlotInv'
<1>1. \A d, e : MovedOn(d, e) => MovedOn(d, e)'
  BY Zenon DEF MovedOn
<1>2. \A a \in slots' : \E d \in Monitored, e \in Int : a = <<d, Slot(e)>> /\ e <= clock' /\ MovedOn(d, e)'
  BY <1>1 DEF SlotInv
<1>3. SlotsAreSpaced'
  BY Zenon DEF SlotInv, SlotsAreSpaced
<1> QED
  BY <1>2, <1>3, Zenon DEF SlotInv

\* A new slot of d, from a due time the older ones have moved on to, keeps its distance from them.
LEMMA NewSlotSpaced ==
  ASSUME PassInv, SlotInv, NEW d \in Monitored, NEW e \in Int, e <= clock, MovedOn(d, e)
  PROVE  LET b == Slot(schedule[d].due)
             a == Slot(e)
         IN /\ a < b => \/ b + MaxSkew + Second > a + Interval
                        \/ \E t \in enabledAt[d] : a <= t /\ Slot(t) <= b
            /\ b < a => a + MaxSkew + Second > b + Interval
<1> DEFINE due == schedule[d].due
           b == Slot(due)
           a == Slot(e)
<1>1. due \in Int /\ MaxSkew \in Int /\ Second \in Int /\ Interval \in Int
  BY ScheduleAssumption DEF PassInv
<1>2. b \in Int /\ b <= due /\ b + Second > due /\ a \in Int /\ a <= e /\ a + Second > e
  BY <1>1, Truncation, Zenon
<1>3. CASE due + MaxSkew >= e + Interval
  <2>1. due + MaxSkew >= e + Interval
    BY <1>3, Zenon
  <2> HIDE DEF due, a, b
  <2>2. b + MaxSkew + Second > a + Interval
    BY <1>1, <1>2, <2>1
  <2>3. b < a => a + MaxSkew + Second > b + Interval
    BY <1>1, <1>2, <2>2
  <2> QED
    BY <2>2, <2>3, Zenon DEF a, b, due
<1>4. CASE \E t \in enabledAt[d] : e <= t /\ t <= due
  <2>1. PICK t \in enabledAt[d] : e <= t /\ t <= due
    BY <1>4, Zenon
  <2>2. t \in Int
    BY Zenon DEF SlotInv
  <2>3. Slot(t) <= b /\ a <= t
    BY <1>1, <1>2, <2>1, <2>2, TruncationKeepsOrder
  <2>4. a <= b
    BY <1>1, <2>1, <2>2, TruncationKeepsOrder
  <2> HIDE DEF due, a, b
  <2>5. ~(b < a)
    BY <1>2, <2>4
  <2> QED
    BY <2>1, <2>3, <2>5, Zenon DEF a, b, due
<1> QED
  BY <1>3, <1>4, Zenon DEF MovedOn

\* Passes that commit or roll back, changes of a domain, manual runs and the clock keep SlotInv.
LEMMA SlotStep ==
  ASSUME clock \in 0 .. Horizon, PassInv, SlotInv, [SchedulerNext]_schedulerVars
  PROVE  SlotInv'
<1>0. clock \in Int /\ MaxSkew \in Nat /\ Interval \in Nat /\ \A d \in Monitored : Jitter[d] \in Nat
  BY ScheduleAssumption
<1>1. ASSUME NEW p \in Replicas, NEW batch \in SUBSET Monitored, ClaimDue(p, batch)
      PROVE  SlotInv'
  <2>1. /\ pass' = [pass EXCEPT ![p] = batch] /\ UNCHANGED <<slots, schedule, enabledAt, clock>>
        /\ \A d \in batch : schedule[d].due <= clock /\ \A q \in Replicas : d \notin pass[q]
    BY <1>1, Zenon DEF ClaimDue, DueNow, Locked
  <2>2. \A q \in Replicas : pass'[q] = IF q = p THEN batch ELSE pass[q]
    BY <2>1, Zenon DEF PassInv
  <2>3. \A q, r \in Replicas : q # r => pass'[q] \cap pass'[r] = {}
    BY <2>1, <2>2 DEF SlotInv
  <2>4. \A q \in Replicas : \A d \in pass'[q] : schedule[d].due <= clock'
    BY <2>1, <2>2 DEF SlotInv
  <2> QED
    BY <1>0, <2>1, <2>3, <2>4, SlotsKept
<1>2. ASSUME NEW p \in Replicas, NEW lag \in 0 .. MaxSkew, CommitDue(p, lag)
      PROVE  SlotInv'
  <2>1. /\ slots' = slots \cup {<<d, Slot(schedule[d].due)>> : d \in pass[p]}
        /\ UNCHANGED <<clock, enabledAt>>
        /\ \A q \in Replicas : pass'[q] = IF q = p THEN {} ELSE pass[q]
        /\ pass[p] \subseteq Monitored
    BY <1>2, Zenon DEF CommitDue, PassInv
  <2>2. \A d \in Monitored : schedule'[d].due = IF d \in pass[p] THEN NextDue(d, lag) ELSE schedule[d].due
    BY <1>2, Zenon DEF CommitDue, PassInv
  <2>3. ASSUME NEW d \in pass[p], NEW e \in Int, e <= clock
        PROVE  MovedOn(d, e)'
    <3>1. NextDue(d, lag) + MaxSkew >= e + Interval
      BY <1>0, <2>1, <2>3 DEF NextDue
    <3> QED
      BY <2>1, <2>2, <3>1, Zenon DEF MovedOn
  <2>4. ASSUME NEW d \in Monitored \ pass[p], NEW e \in Int, MovedOn(d, e)
        PROVE  MovedOn(d, e)'
    BY <2>1, <2>2, <2>4, Zenon DEF MovedOn
  <2>5. \A d \in pass[p] : schedule[d].due \in Int /\ schedule[d].due <= clock
    BY <2>1, Zenon DEF SlotInv, PassInv
  <2>6. \A a \in slots' : \E d \in Monitored, e \in Int : a = <<d, Slot(e)>> /\ e <= clock' /\ MovedOn(d, e)'
    BY <2>1, <2>3, <2>4, <2>5, Zenon DEF SlotInv
  <2>7. \A q, r \in Replicas : q # r => pass'[q] \cap pass'[r] = {}
    BY <2>1, Zenon DEF SlotInv
  <2>8. \A q \in Replicas : \A d \in pass'[q] : schedule'[d].due <= clock'
    <3>1. \A q \in Replicas : \A d \in pass'[q] : d \in Monitored /\ d \notin pass[p] /\ schedule[d].due <= clock
      BY <2>1, Zenon DEF SlotInv, PassInv
    <3> QED
      BY <2>1, <2>2, <3>1, Zenon
  <2>9. SlotsAreSpaced'
    <3> SUFFICES ASSUME NEW a \in slots', NEW b \in slots', a[1] = b[1], a[2] < b[2]
                 PROVE  \/ b[2] + MaxSkew + Second > a[2] + Interval
                        \/ \E t \in enabledAt[a[1]] : a[2] <= t /\ Slot(t) <= b[2]
      BY <2>1, Zenon DEF SlotsAreSpaced
    <3>1. CASE a \in slots /\ b \in slots
      BY <3>1, Zenon DEF SlotInv, SlotsAreSpaced
    <3>2. CASE a \in slots /\ b \notin slots
      <4>1. PICK d \in pass[p] : b = <<d, Slot(schedule[d].due)>>
        BY <2>1, <3>2, Zenon
      <4>2. PICK f \in Monitored, e \in Int : a = <<f, Slot(e)>> /\ e <= clock /\ MovedOn(f, e)
        BY <3>2, Zenon DEF SlotInv
      <4>3. f = d /\ a[2] = Slot(e) /\ b[2] = Slot(schedule[d].due) /\ a[1] = d
        BY <4>1, <4>2, Zenon
      <4> QED
        BY <2>1, <4>2, <4>3, NewSlotSpaced
    <3>3. CASE a \notin slots /\ b \in slots
      <4>1. PICK d \in pass[p] : a = <<d, Slot(schedule[d].due)>>
        BY <2>1, <3>3, Zenon
      <4>2. PICK f \in Monitored, e \in Int : b = <<f, Slot(e)>> /\ e <= clock /\ MovedOn(f, e)
        BY <3>3, Zenon DEF SlotInv
      <4>3. f = d /\ b[2] = Slot(e) /\ a[2] = Slot(schedule[d].due)
        BY <4>1, <4>2, Zenon
      <4> QED
        BY <2>1, <4>2, <4>3, NewSlotSpaced, Zenon
    <3>4. CASE a \notin slots /\ b \notin slots
      <4>1. a = b
        BY <2>1, <3>4
      <4>2. a[2] \in Int
        BY <2>1, <2>5, <3>4, Truncation
      <4> QED
        BY <4>1, <4>2
    <3> QED
      BY <3>1, <3>2, <3>3, <3>4, Zenon
  <2> QED
    BY <2>1, <2>6, <2>7, <2>8, <2>9, Zenon DEF SlotInv
<1>3. ASSUME NEW p \in Replicas, RollbackDue(p)
      PROVE  SlotInv'
  <2>1. /\ UNCHANGED <<slots, schedule, enabledAt, clock>>
        /\ \A q \in Replicas : pass'[q] = IF q = p THEN {} ELSE pass[q]
    BY <1>3, Zenon DEF RollbackDue, PassInv
  <2>2. /\ \A r \in Replicas : \A e \in pass[r] : schedule[e].due <= clock
        /\ \A r, q \in Replicas : r # q => pass[r] \cap pass[q] = {}
    BY Zenon DEF SlotInv
  <2> QED
    BY <1>0, <2>1, <2>2, SlotsKept
<1>4. ASSUME NEW d \in Monitored, NEW alive \in BOOLEAN, NEW mon \in BOOLEAN, ChangeDomain(d, alive, mon)
      PROVE  SlotInv'
  <2> DEFINE on == alive /\ mon
  <2>1. /\ \A p \in Replicas : d \notin pass[p]
        /\ UNCHANGED <<clock, pass, slots>>
    BY <1>4, Zenon DEF ChangeDomain, ScheduleFree, Locked
  <2>2. /\ \A f \in Monitored : schedule'[f].due = IF f = d THEN EnsuredDue(d, on) ELSE schedule[f].due
        /\ enabledAt' = [enabledAt EXCEPT ![d] = IF on /\ ~schedule[d].enabled THEN enabledAt[d] \cup {clock} ELSE enabledAt[d]]
    BY <1>4, Zenon DEF ChangeDomain, PassInv, SlotInv
  <2>3. /\ enabledAt' \in [Monitored -> SUBSET Int]
        /\ \A f \in Monitored : enabledAt[f] \subseteq enabledAt'[f]
        /\ on /\ ~schedule[d].enabled => clock \in enabledAt'[d]
    BY <1>0, <2>2, Zenon DEF SlotInv
  <2>4. ASSUME NEW f \in Monitored, NEW e \in Int, e <= clock, MovedOn(f, e)
        PROVE  MovedOn(f, e)'
    <3>1. CASE f = d /\ on /\ ~schedule[d].enabled
      <4>1. schedule'[f].due = clock
        BY <2>2, <3>1, Zenon DEF EnsuredDue
      <4> QED
        BY <1>0, <2>3, <2>4, <3>1, <4>1 DEF MovedOn
    <3>2. CASE ~(f = d /\ on /\ ~schedule[d].enabled)
      <4>1. schedule'[f].due = schedule[f].due
        BY <2>2, <3>2, Zenon DEF EnsuredDue
      <4> QED
        BY <2>3, <2>4, <4>1, Zenon DEF MovedOn
    <3> QED
      BY <3>1, <3>2, Zenon
  <2>5. \A a \in slots' : \E f \in Monitored, e \in Int : a = <<f, Slot(e)>> /\ e <= clock' /\ MovedOn(f, e)'
    BY <2>1, <2>4, Zenon DEF SlotInv
  <2>6. \A p \in Replicas : \A f \in pass'[p] : schedule'[f].due <= clock'
    BY <2>1, <2>2, Zenon DEF SlotInv, PassInv
  <2>7. SlotsAreSpaced'
    <3>1. \A a \in slots : a[1] \in Monitored
      BY DEF SlotInv
    <3> QED
      BY <2>1, <2>3, <3>1, Zenon DEF SlotInv, SlotsAreSpaced
  <2> QED
    BY <2>1, <2>3, <2>5, <2>6, <2>7, Zenon DEF SlotInv
<1>5. ASSUME NEW u \in Users, NEW d \in Monitored, NEW k \in Keys, CreateManualRun(u, d, k)
      PROVE  SlotInv'
  <2>1. UNCHANGED <<slots, schedule, enabledAt, clock, pass>>
    BY <1>5, Zenon DEF CreateManualRun
  <2>2. /\ \A r \in Replicas : \A e \in pass[r] : schedule[e].due <= clock
        /\ \A r, q \in Replicas : r # q => pass[r] \cap pass[q] = {}
    BY Zenon DEF SlotInv
  <2> QED
    BY <1>0, <2>1, <2>2, SlotsKept
<1>6. CASE SchedulerTick
  <2>1. UNCHANGED <<slots, schedule, enabledAt, pass>> /\ clock' = clock + 1 /\ \A p \in Replicas : pass[p] = {}
    BY <1>6, Zenon DEF SchedulerTick
  <2>2. /\ \A r \in Replicas : \A e \in pass[r] : schedule[e].due <= clock
        /\ \A r, q \in Replicas : r # q => pass[r] \cap pass[q] = {}
    BY Zenon DEF SlotInv
  <2> QED
    BY <1>0, <2>1, <2>2, SlotsKept
<1>7. CASE UNCHANGED schedulerVars
  <2>1. UNCHANGED <<slots, schedule, enabledAt, clock, pass>>
    BY <1>7, Zenon DEF schedulerVars
  <2>2. /\ \A r \in Replicas : \A e \in pass[r] : schedule[e].due <= clock
        /\ \A r, q \in Replicas : r # q => pass[r] \cap pass[q] = {}
    BY Zenon DEF SlotInv
  <2> QED
    BY <1>0, <2>1, <2>2, SlotsKept
<1> QED
  BY <1>1, <1>2, <1>3, <1>4, <1>5, <1>6, <1>7, Zenon DEF SchedulerNext

\* Two scheduled slots of a domain are an interval apart, less the lag of a clock and the truncation,
\* unless the schedule was enabled again in between, however many replicas pass over it.
THEOREM SlotsCorrect == SchedulerSpec => []SlotsAreSpaced
<1>1. SchedulerInit => SlotInv
  BY Zenon DEF SchedulerInit, SlotInv, SlotsAreSpaced
<1>2. clock \in 0 .. Horizon /\ PassInv /\ SlotInv /\ [SchedulerNext]_schedulerVars => SlotInv'
  BY SlotStep, Zenon
<1>3. SlotInv => SlotsAreSpaced
  BY Zenon DEF SlotInv
<1> QED
  BY <1>1, <1>2, <1>3, PassesHoldWatched, PTL DEF SchedulerSpec

-----------------------------------------------------------------------------
(***************************************************************************)
(* Scheduler: lateness.  NeverLate counts ticks, but a tick is worth a     *)
(* batch only if no pass fails and no domain changes in it; the invariant  *)
(* counts the rows ahead of a schedule, of which a tick takes a batch.     *)
(***************************************************************************)
\* The other schedules a pass may take before that of d.
Ahead(d) == {e \in Monitored \ {d} : schedule[e].due <= schedule[d].due}

Overdue(d) == schedule[d].enabled /\ schedule[d].due <= clock

\* Time counted in rows: a tick takes a batch of the rows ahead of d, or a pass fails, or a domain
\* changes.  With a rows ahead at the time c, a schedule that is due at t is on time if it will be
\* taken before its allowance is used up.
Excuses == rollbacks + toggles
WithinAllowance(c, a, t, k) == c * ScheduleBatch + a < (t + k) * ScheduleBatch + Cardinality(Monitored)

OnTime(d) == WithinAllowance(clock, Cardinality(Ahead(d)), schedule[d].due, Excuses)

\* The pass of this tick counts for d: it will be on time after the tick, too.
Served(d) == WithinAllowance(clock, Cardinality(Ahead(d)) + ScheduleBatch, schedule[d].due, Excuses)

\* The pass of p, if it commits, takes a full batch of rows ahead of d.
TakesBatchAhead(p, d) ==
  Cardinality(pass[p]) = ScheduleBatch /\ \A e \in pass[p] : schedule[e].due <= schedule[d].due

\* The inductive invariant.  A schedule nobody holds is served in this tick, or every pass that is
\* open will serve it.
LateInv ==
  /\ rollbacks \in Nat /\ toggles \in Nat /\ passed \in BOOLEAN
  /\ \A d \in Monitored : schedule[d].enabled => watched[d] /\ life[d]
  /\ \A d \in Monitored : Overdue(d) => OnTime(d)
  /\ \A d \in Monitored \ Locked : Overdue(d) =>
       \/ Served(d)
       \/ ~passed /\ \A p \in Replicas : pass[p] # {} => TakesBatchAhead(p, d)

\* The rows ahead of one are finitely many, and fewer than all.
LEMMA AheadIsLess ==
  ASSUME NEW d \in Monitored, NEW S, S \subseteq Monitored \ {d}
  PROVE  /\ IsFiniteSet(S) /\ Cardinality(S) \in Nat /\ Cardinality(Monitored) \in Nat
         /\ Cardinality(S) < Cardinality(Monitored)
<1>1. IsFiniteSet(Monitored) /\ Cardinality(Monitored) \in Nat
  BY ScheduleAssumption, FS_CardinalityType, Zenon
<1>2. IsFiniteSet(Monitored \ {d}) /\ Cardinality(Monitored \ {d}) = Cardinality(Monitored) - 1
  BY <1>1, FS_RemoveElement, Zenon
<1>3. IsFiniteSet(S) /\ Cardinality(S) <= Cardinality(Monitored \ {d})
  BY <1>2, FS_Subset, Zenon
<1>4. Cardinality(S) \in Nat
  BY <1>3, FS_CardinalityType, Zenon
<1> QED
  BY <1>1, <1>2, <1>3, <1>4

\* A product grows by its factor.
LEMMA OneMore ==
  ASSUME NEW n \in Int, NEW b \in Int
  PROVE  n * b \in Int /\ (n + 1) * b = n * b + b
OBVIOUS

\* What is due just now is on time whatever is ahead of it, and served if there was an excuse.
LEMMA JustDue ==
  ASSUME NEW c \in Int, NEW k \in Nat, NEW a \in Nat, Cardinality(Monitored) \in Nat, a < Cardinality(Monitored)
  PROVE  /\ WithinAllowance(c, a, c, k)
         /\ k >= 1 => WithinAllowance(c, a + ScheduleBatch, c, k)
<1> DEFINE b == ScheduleBatch
<1>1. b \in Nat
  BY ScheduleAssumption, Zenon
<1>2. (c + k) * b = c * b + k * b /\ c * b \in Int /\ k * b \in Nat
  BY <1>1
<1>3. k >= 1 => k * b >= b
  <2> SUFFICES ASSUME k >= 1
               PROVE  k * b >= b
    BY Zenon
  <2>1. k - 1 \in Nat /\ k = (k - 1) + 1
    OBVIOUS
  <2>2. (k - 1) * b \in Nat
    BY <1>1, <2>1
  <2>3. ((k - 1) + 1) * b = (k - 1) * b + b
    BY <1>1, <2>1, OneMore
  <2> QED
    BY <1>1, <2>1, <2>2, <2>3
<1> HIDE DEF b
<1>4. c * b + a < (c + k) * b + Cardinality(Monitored)
  BY <1>2
<1>5. k >= 1 => c * b + (a + b) < (c + k) * b + Cardinality(Monitored)
  BY <1>1, <1>2, <1>3
<1> QED
  BY <1>4, <1>5, Zenon DEF WithinAllowance, b

\* An excuse makes up for a tick.
LEMMA Excused ==
  ASSUME NEW c \in Int, NEW k \in Nat, NEW a \in Nat, NEW e \in Nat, e <= a, NEW t \in Int,
         Cardinality(Monitored) \in Nat, WithinAllowance(c, a, t, k)
  PROVE  WithinAllowance(c, e + ScheduleBatch, t, k + 1)
<1> DEFINE b == ScheduleBatch
<1>1. b \in Nat /\ t + k \in Int /\ t + (k + 1) = (t + k) + 1
  BY ScheduleAssumption
<1>2. (t + k) * b \in Int /\ ((t + k) + 1) * b = (t + k) * b + b
  BY <1>1, OneMore
<1>3. c * b \in Int
  BY <1>1
<1>4. c * b + a < (t + k) * b + Cardinality(Monitored)
  BY Zenon DEF WithinAllowance
<1> HIDE DEF b
<1>5. c * b + (e + b) < ((t + k) + 1) * b + Cardinality(Monitored)
  BY <1>1, <1>2, <1>3, <1>4
<1> QED
  BY <1>1, <1>5, Zenon DEF WithinAllowance, b

\* What is served is on time, now and after a tick, and stays so with less ahead of it.
LEMMA ServedIsOnTime ==
  ASSUME NEW c \in Int, NEW k \in Nat, NEW a \in Nat, NEW e \in Nat, e <= a, NEW t \in Int,
         Cardinality(Monitored) \in Nat
  PROVE  /\ WithinAllowance(c, a, t, k) => WithinAllowance(c, e, t, k)
         /\ WithinAllowance(c, a + ScheduleBatch, t, k) =>
              WithinAllowance(c, e + ScheduleBatch, t, k) /\ WithinAllowance(c, e, t, k) /\ WithinAllowance(c + 1, a, t, k)
<1> DEFINE b == ScheduleBatch
           r == (t + k) * b
           s == c * b
<1>1. b \in Nat /\ r \in Int /\ s \in Int /\ (c + 1) * b = s + b
  BY ScheduleAssumption
<1>2. \A x : WithinAllowance(c, x, t, k) <=> s + x < r + Cardinality(Monitored)
  BY Zenon DEF WithinAllowance
<1>3. WithinAllowance(c + 1, a, t, k) <=> (s + b) + a < r + Cardinality(Monitored)
  BY <1>1, Zenon DEF WithinAllowance
<1> HIDE DEF r, s
<1>4. ASSUME NEW x \in Nat, NEW y \in Nat, x <= y, s + y < r + Cardinality(Monitored)
      PROVE  s + x < r + Cardinality(Monitored)
  BY <1>1, <1>4
<1>5. s + (a + b) < r + Cardinality(Monitored) => (s + b) + a < r + Cardinality(Monitored)
  BY <1>1
<1>6. WithinAllowance(c, a, t, k) => WithinAllowance(c, e, t, k)
  BY <1>2, <1>4, Zenon
<1>7. ASSUME WithinAllowance(c, a + b, t, k)
      PROVE  WithinAllowance(c, e + b, t, k) /\ WithinAllowance(c, e, t, k) /\ WithinAllowance(c + 1, a, t, k)
  <2>1. a + b \in Nat /\ e + b \in Nat /\ e + b <= a + b /\ e <= a + b
    BY <1>1
  <2>2. WithinAllowance(c, e + b, t, k) /\ WithinAllowance(c, e, t, k)
    BY <1>2, <1>4, <1>7, <2>1, Zenon
  <2>3. WithinAllowance(c + 1, a, t, k)
    BY <1>2, <1>3, <1>5, <1>7, Zenon
  <2> QED
    BY <2>2, <2>3, Zenon
<1> QED
  BY <1>6, <1>7, Zenon

\* A commit makes a schedule due after now, however far the clock of the process lags.
LEMMA NextIsLater ==
  ASSUME clock \in Int, NEW d \in Monitored, NEW lag \in 0 .. MaxSkew
  PROVE  NextDue(d, lag) \in Int /\ NextDue(d, lag) > clock
<1>1. Jitter[d] \in Nat /\ Interval \in Nat /\ lag \in Nat /\ lag < Interval
  BY ScheduleAssumption
<1> QED
  BY <1>1 DEF NextDue

\* A pass that opens takes the longest due, so that it serves the ones it leaves.
LEMMA ClaimKeepsTime ==
  ASSUME PassInv, LateInv, clock \in Int, NEW p \in Replicas, NEW batch \in SUBSET Monitored, ClaimDue(p, batch)
  PROVE  LateInv'
<1> DEFINE due == {d \in Monitored \ Locked : DueNow(d)}
<1>1. /\ pass[p] = {} /\ batch \subseteq due /\ Cardinality(batch) = LeastOf(ScheduleBatch, Cardinality(due))
      /\ \A d \in batch, e \in due \ batch : ~Before(e, d)
      /\ pass' = [pass EXCEPT ![p] = batch] /\ passed' = (batch = {})
      /\ UNCHANGED <<clock, life, watched, schedule, rollbacks, toggles>>
  BY Zenon DEF ClaimDue
<1>2. \A q \in Replicas : pass'[q] = IF q = p THEN batch ELSE pass[q]
  BY <1>1, Zenon DEF PassInv
<1>3. \A d : /\ Overdue(d)' <=> Overdue(d)
             /\ OnTime(d)' <=> OnTime(d)
             /\ Served(d)' <=> Served(d)
  BY <1>1, Zenon DEF Overdue, OnTime, Served, Ahead, Excuses
<1>4. ASSUME NEW d \in Monitored \ Locked', Overdue(d)
      PROVE  /\ d \in due \ batch /\ d \notin Locked
             /\ Cardinality(batch) = ScheduleBatch /\ \A e \in batch : schedule[e].due <= schedule[d].due
  <2>1. d \notin batch /\ d \notin Locked
    BY <1>1, <1>2, <1>4 DEF Locked
  <2>2. d \in due
    BY <1>4, <2>1, Zenon DEF Overdue, DueNow, LateInv
  <2>3. IsFiniteSet(due) /\ Cardinality(due) \in Nat /\ Cardinality(batch) <= Cardinality(due) /\ Cardinality(batch) # Cardinality(due)
    <3>1. IsFiniteSet(due)
      BY ScheduleAssumption, FS_Subset, Zenon
    <3> HIDE DEF due
    <3> QED
      BY <1>1, <2>1, <2>2, <3>1, FS_Subset, FS_CardinalityType, Zenon
  <2>4. Cardinality(batch) = ScheduleBatch
    BY <1>1, <2>3, Zenon DEF LeastOf
  <2>5. \A e \in batch : ~(schedule[d].due < schedule[e].due) /\ schedule[d].due \in Int /\ schedule[e].due \in Int
    BY <1>1, <2>1, <2>2, Zenon DEF Before, PassInv
  <2>6. \A e \in batch : schedule[e].due <= schedule[d].due
    BY <2>5
  <2> QED
    BY <2>1, <2>2, <2>4, <2>6, Zenon
<1>5. ASSUME NEW d \in Monitored \ Locked', Overdue(d), ~Served(d)
      PROVE  ~passed' /\ \A q \in Replicas : pass'[q] # {} => TakesBatchAhead(q, d)'
  <2>1. d \in Monitored \ Locked
    BY <1>4, <1>5, Zenon
  <2>2. \A q \in Replicas : pass[q] # {} => TakesBatchAhead(q, d)
    BY <1>5, <2>1, Zenon DEF LateInv
  <2>3. Cardinality(batch) = ScheduleBatch /\ \A e \in batch : schedule[e].due <= schedule[d].due
    BY <1>4, <1>5, Zenon
  <2>4. batch # {}
    BY <2>3, ScheduleAssumption, FS_EmptySet, Zenon
  <2>5. \A q \in Replicas : pass'[q] # {} => TakesBatchAhead(q, d)'
    BY <1>1, <1>2, <2>2, <2>3 DEF TakesBatchAhead
  <2> QED
    BY <1>1, <2>4, <2>5, Zenon
<1>6. /\ rollbacks' \in Nat /\ toggles' \in Nat /\ passed' \in BOOLEAN
      /\ \A d \in Monitored : schedule'[d].enabled => watched'[d] /\ life'[d]
  BY <1>1, Zenon DEF LateInv
<1>7. \A d \in Monitored : Overdue(d)' => OnTime(d)'
  BY <1>3, Zenon DEF LateInv
<1> QED
  BY <1>3, <1>5, <1>6, <1>7, Zenon DEF LateInv

\* A pass that commits has served what it leaves.
LEMMA CommitKeepsTime ==
  ASSUME PassInv, LateInv, clock \in Int, NEW p \in Replicas, NEW lag \in 0 .. MaxSkew, CommitDue(p, lag)
  PROVE  LateInv'
<1>1. /\ pass[p] # {} /\ pass[p] \subseteq Monitored /\ pass' = [pass EXCEPT ![p] = {}] /\ passed' = TRUE
      /\ UNCHANGED <<clock, life, watched, rollbacks, toggles>>
  BY Zenon DEF CommitDue, PassInv
<1>2. \A q \in Replicas : pass'[q] = IF q = p THEN {} ELSE pass[q]
  BY <1>1, Zenon DEF PassInv
<1>3. \A d \in Monitored : /\ schedule'[d].enabled = schedule[d].enabled
                           /\ schedule'[d].due = IF d \in pass[p] THEN NextDue(d, lag) ELSE schedule[d].due
  BY Zenon DEF CommitDue, PassInv
<1>4. ASSUME NEW d \in Monitored, Overdue(d)'
      PROVE  d \notin pass[p] /\ schedule'[d].due = schedule[d].due /\ Overdue(d) /\ schedule[d].due \in Int
  <2>1. d \notin pass[p]
    BY <1>1, <1>3, <1>4, NextIsLater DEF Overdue
  <2> QED
    BY <1>1, <1>3, <1>4, <2>1, Zenon DEF Overdue, PassInv
<1>5. ASSUME NEW d \in Monitored, Overdue(d)'
      PROVE  Ahead(d)' = Ahead(d) \ pass[p]
  <2>1. \A e \in pass[p] : ~(schedule'[e].due <= schedule'[d].due)
    <3> SUFFICES ASSUME NEW e \in pass[p]
                 PROVE  ~(schedule'[e].due <= schedule'[d].due)
      BY Zenon
    <3>1. schedule'[e].due = NextDue(e, lag) /\ NextDue(e, lag) \in Int /\ NextDue(e, lag) > clock
      BY <1>1, <1>3, NextIsLater, Zenon
    <3>2. schedule'[d].due \in Int /\ schedule'[d].due <= clock
      BY <1>1, <1>4, <1>5, Zenon DEF Overdue
    <3> QED
      BY <3>1, <3>2
  <2> QED
    BY <1>3, <1>4, <1>5, <2>1, Zenon DEF Ahead
<1>6. ASSUME NEW d \in Monitored, Overdue(d)'
      PROVE  /\ OnTime(d)' /\ (Served(d) => Served(d)')
             /\ TakesBatchAhead(p, d) => Served(d)'
  <2> DEFINE a == Cardinality(Ahead(d))
             e == Cardinality(Ahead(d)')
             t == schedule[d].due
             k == rollbacks + toggles
  <2>1. /\ a \in Nat /\ e \in Nat /\ e = a - Cardinality(Ahead(d) \cap pass[p])
        /\ IsFiniteSet(Ahead(d)) /\ Cardinality(Monitored) \in Nat
    <3>1. Ahead(d) \subseteq Monitored \ {d}
      BY Zenon DEF Ahead
    <3>2. IsFiniteSet(Ahead(d)) /\ a \in Nat /\ Cardinality(Monitored) \in Nat
      BY <3>1, AheadIsLess, Zenon
    <3>3. IsFiniteSet(Ahead(d) \ pass[p]) /\ Cardinality(Ahead(d) \ pass[p]) = a - Cardinality(Ahead(d) \cap pass[p])
      BY <3>2, FS_Difference, Zenon
    <3>4. Cardinality(Ahead(d) \ pass[p]) \in Nat
      BY <3>3, FS_CardinalityType, Zenon
    <3> QED
      BY <1>5, <1>6, <3>2, <3>3, <3>4, Zenon
  <2>2. Cardinality(Ahead(d) \cap pass[p]) \in Nat
    BY <2>1, FS_Subset, FS_CardinalityType, Zenon
  <2>3. e <= a /\ k \in Nat /\ t \in Int
    <3> DEFINE c == Cardinality(Ahead(d) \cap pass[p])
    <3>1. rollbacks \in Nat /\ toggles \in Nat /\ t \in Int
      BY <1>4, <1>6, Zenon DEF LateInv
    <3>2. a \in Nat /\ c \in Nat /\ e = a - c
      BY <2>1, <2>2, Zenon
    <3> HIDE DEF a, c, e, t
    <3> QED
      BY <3>1, <3>2
  <2>4. OnTime(d) /\ (OnTime(d) <=> WithinAllowance(clock, a, t, k)) /\ (Served(d) <=> WithinAllowance(clock, a + ScheduleBatch, t, k))
    BY <1>4, <1>6, Zenon DEF LateInv, OnTime, Served, Excuses
  <2>5. /\ OnTime(d)' <=> WithinAllowance(clock, e, t, k)
        /\ Served(d)' <=> WithinAllowance(clock, e + ScheduleBatch, t, k)
    BY <1>1, <1>4, <1>6, Zenon DEF OnTime, Served, Excuses
  <2>6. TakesBatchAhead(p, d) => e + ScheduleBatch = a
    <3> SUFFICES ASSUME TakesBatchAhead(p, d)
                 PROVE  e + ScheduleBatch = a
      BY Zenon
    <3>1. pass[p] \subseteq Ahead(d)
      BY <1>1, <1>4, <1>6, Zenon DEF TakesBatchAhead, Ahead
    <3>2. Ahead(d) \cap pass[p] = pass[p] /\ Cardinality(pass[p]) = ScheduleBatch
      BY <3>1, Zenon DEF TakesBatchAhead
    <3>3. ScheduleBatch \in Nat
      BY ScheduleAssumption, Zenon
    <3>4. a \in Nat /\ e = a - ScheduleBatch
      BY <2>1, <3>2, Zenon
    <3> HIDE DEF a, e
    <3> QED
      BY <3>3, <3>4
  <2> HIDE DEF a, e, t, k
  <2>7. a \in Nat /\ e \in Nat /\ e <= a /\ k \in Nat /\ t \in Int /\ clock \in Int /\ Cardinality(Monitored) \in Nat
    BY <1>1, <2>1, <2>3, Zenon
  <2>8. /\ WithinAllowance(clock, a, t, k) => WithinAllowance(clock, e, t, k)
        /\ WithinAllowance(clock, a + ScheduleBatch, t, k) => WithinAllowance(clock, e + ScheduleBatch, t, k)
    BY <2>7, ServedIsOnTime, Zenon
  <2> QED
    BY <2>4, <2>5, <2>6, <2>8, Zenon
<1>7. ASSUME NEW d \in Monitored \ Locked', Overdue(d)'
      PROVE  Served(d)'
  <2>1. d \in Monitored \ Locked /\ Overdue(d)
    BY <1>2, <1>4, <1>7, Zenon DEF Locked
  <2>2. Served(d) \/ TakesBatchAhead(p, d)
    BY <1>1, <2>1, Zenon DEF LateInv
  <2> QED
    BY <1>6, <1>7, <2>2, Zenon
<1>8. /\ rollbacks' \in Nat /\ toggles' \in Nat /\ passed' \in BOOLEAN
      /\ \A d \in Monitored : schedule'[d].enabled => watched'[d] /\ life'[d]
  BY <1>1, <1>3, Zenon DEF LateInv
<1> QED
  BY <1>6, <1>7, <1>8, Zenon DEF LateInv

\* A schedule in use is that of a watched domain.
UsedAreWatched == \A d \in Monitored : schedule[d].enabled => watched[d] /\ life[d]

\* A step after which an overdue row is as it was, with no more ahead of it, or due now.
NoneFallsBack ==
  \A d \in Monitored : Overdue(d)' =>
    \/ schedule'[d].due = clock
    \/ Overdue(d) /\ schedule[d].due \in Int /\ schedule'[d].due = schedule[d].due /\ Ahead(d)' \subseteq Ahead(d)

\* A step that is one more excuse, and leaves counters of the right type.
OneMoreExcuse ==
  /\ rollbacks' \in Nat /\ toggles' \in Nat /\ passed' \in BOOLEAN
  /\ rollbacks' + toggles' = (rollbacks + toggles) + 1

\* An excuse and its successor are numbers.
LEMMA Successor ==
  ASSUME NEW a \in Nat, NEW b \in Nat
  PROVE  a + b \in Nat /\ (a + b) + 1 \in Nat /\ (a + b) + 1 >= 1
OBVIOUS

\* One more excuse serves every schedule, if none falls back.
LEMMA ExcuseKeepsTime ==
  ASSUME LateInv, clock \in Int, clock' = clock, OneMoreExcuse, UsedAreWatched', NoneFallsBack
  PROVE  LateInv'
<1>1. ASSUME NEW d \in Monitored, Overdue(d)'
      PROVE  OnTime(d)' /\ Served(d)'
  <2> DEFINE k == rollbacks + toggles
             e == Cardinality(Ahead(d)')
             b == schedule'[d].due
  <2>1. k \in Nat /\ k + 1 \in Nat /\ k + 1 >= 1
    <3>1. rollbacks \in Nat /\ toggles \in Nat
      BY Zenon DEF LateInv
    <3> QED
      BY <3>1, Successor, Zenon
  <2>2. e \in Nat /\ Cardinality(Monitored) \in Nat /\ e < Cardinality(Monitored)
    <3>1. Ahead(d)' \subseteq Monitored \ {d}
      BY Zenon DEF Ahead
    <3> QED
      BY <3>1, AheadIsLess, Zenon
  <2>3. /\ OnTime(d)' <=> WithinAllowance(clock, e, b, k + 1)
        /\ Served(d)' <=> WithinAllowance(clock, e + ScheduleBatch, b, k + 1)
    BY Zenon DEF OnTime, Served, Excuses, OneMoreExcuse
  <2>4. CASE schedule'[d].due = clock
    BY <2>1, <2>2, <2>3, <2>4, JustDue, Zenon
  <2>5. CASE Overdue(d) /\ schedule[d].due \in Int /\ schedule'[d].due = schedule[d].due /\ Ahead(d)' \subseteq Ahead(d)
    <3> DEFINE a == Cardinality(Ahead(d))
    <3>1. a \in Nat /\ e <= a
      <4>1. Ahead(d) \subseteq Monitored \ {d}
        BY Zenon DEF Ahead
      <4>2. IsFiniteSet(Ahead(d)) /\ a \in Nat
        BY <4>1, AheadIsLess, Zenon
      <4> QED
        BY <2>5, <4>2, FS_Subset, Zenon
    <3>2. WithinAllowance(clock, a, b, k)
      BY <2>5, Zenon DEF LateInv, OnTime, Excuses
    <3>3. b \in Int
      BY <2>5, Zenon
    <3> HIDE DEF a, e, b, k
    <3>4. WithinAllowance(clock, e + ScheduleBatch, b, k + 1)
      BY <2>1, <2>2, <3>1, <3>2, <3>3, Excused, Zenon
    <3>5. WithinAllowance(clock, e, b, k + 1)
      BY <2>1, <2>2, <3>3, <3>4, ServedIsOnTime
    <3> QED
      BY <2>3, <3>4, <3>5, Zenon
  <2> QED
    BY <1>1, <2>4, <2>5, Zenon DEF NoneFallsBack
<1> QED
  BY <1>1, Zenon DEF LateInv, OneMoreExcuse, UsedAreWatched

\* Every step keeps schedules on time.
LEMMA LateStep ==
  ASSUME clock \in 0 .. Horizon, PassInv, LateInv, [SchedulerNext]_schedulerVars
  PROVE  LateInv'
<1>0. clock \in Int
  BY ScheduleAssumption
<1>1. ASSUME NEW p \in Replicas, NEW batch \in SUBSET Monitored, ClaimDue(p, batch)
      PROVE  LateInv'
  BY <1>0, <1>1, ClaimKeepsTime, Zenon
<1>2. ASSUME NEW p \in Replicas, NEW lag \in 0 .. MaxSkew, CommitDue(p, lag)
      PROVE  LateInv'
  BY <1>0, <1>2, CommitKeepsTime, Zenon
<1>3. ASSUME NEW p \in Replicas, RollbackDue(p)
      PROVE  LateInv'
  <2>1. rollbacks' = rollbacks + 1 /\ passed' = TRUE /\ UNCHANGED <<clock, life, watched, schedule, toggles>>
    BY <1>3, Zenon DEF RollbackDue
  <2>2. OneMoreExcuse
    BY <2>1 DEF LateInv, OneMoreExcuse
  <2>3. UsedAreWatched'
    BY <2>1, Zenon DEF LateInv, UsedAreWatched
  <2>4. \A d \in Monitored : Overdue(d)' =>
          Overdue(d) /\ schedule[d].due \in Int /\ schedule'[d].due = schedule[d].due /\ Ahead(d)' \subseteq Ahead(d)
    BY <2>1, Zenon DEF Overdue, Ahead, PassInv
  <2> QED
    BY <1>0, <2>1, <2>2, <2>3, <2>4, ExcuseKeepsTime, Zenon DEF NoneFallsBack
<1>4. ASSUME NEW d \in Monitored, NEW alive \in BOOLEAN, NEW mon \in BOOLEAN, ChangeDomain(d, alive, mon)
      PROVE  LateInv'
  <2> DEFINE on == alive /\ mon
             row == [enabled |-> on, due |-> EnsuredDue(d, on)]
  <2>1. /\ toggles' = toggles + 1 /\ life' = [life EXCEPT ![d] = alive] /\ watched' = [watched EXCEPT ![d] = mon]
        /\ schedule' = [schedule EXCEPT ![d] = row] /\ UNCHANGED <<clock, passed, rollbacks>>
    BY <1>4, Zenon DEF ChangeDomain
  <2>2. OneMoreExcuse
    <3>1. rollbacks \in Nat /\ toggles \in Nat /\ passed \in BOOLEAN
      BY Zenon DEF LateInv
    <3>2. rollbacks' = rollbacks /\ toggles' = toggles + 1 /\ passed' = passed
      BY <2>1, Zenon
    <3> QED
      BY <3>1, <3>2 DEF OneMoreExcuse
  <2>3. row.enabled = on /\ row.due = EnsuredDue(d, on)
    BY Zenon
  <2> HIDE DEF row
  <2>4. schedule'[d] = row /\ \A e \in Monitored \ {d} : schedule'[e] = schedule[e]
    BY <2>1, Zenon DEF PassInv
  <2>5. UsedAreWatched'
    BY <2>1, <2>3, <2>4, Zenon DEF LateInv, PassInv, UsedAreWatched
  <2>6. row.due = clock \/ (row.due = schedule[d].due /\ (on => schedule[d].enabled))
    BY <2>3, Zenon DEF EnsuredDue
  <2>7. ASSUME NEW e \in Monitored, Overdue(e)', schedule'[e].due # clock
        PROVE  Overdue(e) /\ schedule[e].due \in Int /\ schedule'[e].due = schedule[e].due /\ Ahead(e)' \subseteq Ahead(e)
    <3>1. schedule'[e].due = schedule[e].due /\ schedule[e].enabled
      BY <2>3, <2>4, <2>6, <2>7, Zenon DEF Overdue
    <3>2. schedule[e].due \in Int
      BY Zenon DEF PassInv
    <3>3. Overdue(e) /\ schedule[e].due < clock
      BY <1>0, <2>1, <2>7, <3>1, <3>2 DEF Overdue
    <3>4. \A x \in Monitored : schedule'[x].due = schedule[x].due \/ schedule'[x].due = clock
      BY <2>4, <2>6, Zenon
    <3>5. Ahead(e)' \subseteq Ahead(e)
      <4> SUFFICES ASSUME NEW x \in Monitored \ {e}, schedule'[x].due <= schedule'[e].due
                   PROVE  schedule[x].due <= schedule[e].due
        BY Zenon DEF Ahead
      <4> QED
        BY <1>0, <3>1, <3>2, <3>3, <3>4
    <3> QED
      BY <3>1, <3>2, <3>3, <3>5, Zenon
  <2>8. clock' = clock
    BY <2>1, Zenon
  <2> QED
    BY <1>0, <2>2, <2>5, <2>7, <2>8, ExcuseKeepsTime, Zenon DEF NoneFallsBack
<1>5. ASSUME NEW u \in Users, NEW d \in Monitored, NEW k \in Keys, CreateManualRun(u, d, k)
      PROVE  LateInv'
  <2>1. UNCHANGED <<clock, life, watched, schedule, pass, passed, rollbacks, toggles>>
    BY <1>5, Zenon DEF CreateManualRun
  <2> QED
    BY <2>1, Zenon DEF LateInv, Overdue, OnTime, Served, Ahead, Excuses, Locked, TakesBatchAhead
<1>6. CASE SchedulerTick
  <2>1. /\ clock' = clock + 1 /\ passed /\ passed' = FALSE /\ \A p \in Replicas : pass[p] = {}
        /\ UNCHANGED <<life, watched, schedule, pass, rollbacks, toggles>>
    BY <1>6, Zenon DEF SchedulerTick
  <2>2. ASSUME NEW d \in Monitored, Overdue(d)'
        PROVE  OnTime(d)'
    <3> DEFINE a == Cardinality(Ahead(d))
               t == schedule[d].due
               k == rollbacks + toggles
    <3>1. a \in Nat /\ Cardinality(Monitored) \in Nat /\ a < Cardinality(Monitored)
      <4>1. Ahead(d) \subseteq Monitored \ {d}
        BY Zenon DEF Ahead
      <4> QED
        BY <4>1, AheadIsLess, Zenon
    <3>2. t \in Int /\ k \in Nat
      BY DEF PassInv, LateInv
    <3>3. t <= clock + 1 /\ schedule[d].enabled
      BY <2>1, <2>2, Zenon DEF Overdue
    <3>4. OnTime(d)' <=> WithinAllowance(clock + 1, a, t, k)
      BY <2>1, Zenon DEF OnTime, Ahead, Excuses
    <3>5. CASE t = clock + 1
      <4>1. clock + 1 \in Int
        BY <1>0
      <4>2. WithinAllowance(clock + 1, a, clock + 1, k)
        BY <3>1, <3>2, <4>1, JustDue, Zenon
      <4> QED
        BY <3>4, <3>5, <4>2, Zenon
    <3>6. CASE t <= clock
      <4>1. Overdue(d) /\ d \in Monitored \ Locked
        BY <2>1, <3>3, <3>6, Zenon DEF Overdue, Locked
      <4>2. WithinAllowance(clock, a + ScheduleBatch, t, k)
        BY <2>1, <4>1, Zenon DEF LateInv, Served, Excuses
      <4> HIDE DEF a, t, k
      <4>3. a <= a
        BY <3>1
      <4> QED
        BY <1>0, <3>1, <3>2, <3>4, <4>2, <4>3, ServedIsOnTime, Zenon
    <3> HIDE DEF t
    <3> QED
      BY <1>0, <3>2, <3>3, <3>5, <3>6
  <2>3. \A p \in Replicas : pass'[p] = {}
    BY <2>1, Zenon
  <2>4. /\ rollbacks' \in Nat /\ toggles' \in Nat /\ passed' \in BOOLEAN
        /\ \A d \in Monitored : schedule'[d].enabled => watched'[d] /\ life'[d]
    BY <2>1, Zenon DEF LateInv
  <2> QED
    BY <2>1, <2>2, <2>3, <2>4, Zenon DEF LateInv
<1>7. CASE UNCHANGED schedulerVars
  BY <1>7, Zenon DEF schedulerVars, LateInv, Overdue, OnTime, Served, Ahead, Excuses, Locked, TakesBatchAhead
<1> QED
  BY <1>1, <1>2, <1>3, <1>4, <1>5, <1>6, <1>7, Zenon DEF SchedulerNext

\* Being on time in rows is being on time in ticks.
LEMMA RowsToTicks ==
  ASSUME NEW c \in Int, NEW a \in Nat, NEW t \in Int, NEW k \in Nat, Cardinality(Monitored) \in Nat,
         WithinAllowance(c, a, t, k)
  PROVE  c <= t + Cardinality(Monitored) \div ScheduleBatch + k
<1> DEFINE b == ScheduleBatch
           m == Cardinality(Monitored)
           q == m \div b
           n == c - (t + k)
<1>1. b \in Nat /\ b > 0 /\ m \in Nat
  BY ScheduleAssumption
<1>2. q \in Nat /\ m < q * b + b
  <2> HIDE DEF b, m
  <2> QED
    BY <1>1
<1>3. c * b + a < (t + k) * b + m
  BY Zenon DEF WithinAllowance
<1>4. n \in Int /\ n * b = c * b - (t + k) * b
  BY <1>1
<1>5. c * b \in Int /\ (t + k) * b \in Int /\ n * b \in Int /\ q * b \in Int
  BY <1>1, <1>2, <1>4
<1> HIDE DEF b, m, q
<1>6. n * b < q * b + b
  <2> HIDE DEF n
  <2> QED
    BY <1>1, <1>2, <1>3, <1>4, <1>5
<1>7. n <= q
  <2> HIDE DEF n
  <2> SUFFICES ASSUME n > q
               PROVE  FALSE
    BY <1>2, <1>4
  <2>1. n - (q + 1) \in Nat /\ n = (n - (q + 1)) + (q + 1)
    BY <1>2, <1>4
  <2>2. (n - (q + 1)) * b \in Nat
    BY <1>1, <2>1
  <2>3. n * b = (n - (q + 1)) * b + (q * b + b)
    BY <1>1, <1>2, <1>4
  <2> QED
    BY <1>1, <1>5, <1>6, <2>2, <2>3
<1> QED
  BY <1>2, <1>7 DEF q, b, m

\* No schedule starves, for any number of domains and replicas, batches of any size and any lag of
\* the clocks: an enabled schedule is overdue by no more ticks than all of them need batches, plus
\* one for each failed pass and each change.
THEOREM LatenessCorrect == SchedulerSpec => []NeverLate
<1>1. SchedulerInit => LateInv
  <2> SUFFICES ASSUME SchedulerInit
               PROVE  LateInv
    BY Zenon
  <2>1. ASSUME NEW d \in Monitored
        PROVE  OnTime(d)
    <3>1. Ahead(d) \subseteq Monitored \ {d} /\ clock = 0 /\ rollbacks + toggles = 0 /\ schedule[d].due = 0
      BY DEF Ahead, SchedulerInit
    <3>2. /\ Cardinality(Ahead(d)) \in Nat /\ Cardinality(Monitored) \in Nat
          /\ Cardinality(Ahead(d)) < Cardinality(Monitored)
      BY <3>1, AheadIsLess, Zenon
    <3>3. WithinAllowance(0, Cardinality(Ahead(d)), 0, 0)
      BY <3>2, JustDue
    <3> QED
      BY <3>1, <3>3, Zenon DEF OnTime, Excuses
  <2>2. /\ rollbacks \in Nat /\ toggles \in Nat /\ passed = FALSE /\ \A p \in Replicas : pass[p] = {}
        /\ \A d \in Monitored : schedule[d].enabled => watched[d] /\ life[d]
    BY Zenon DEF SchedulerInit
  <2> QED
    BY <2>1, <2>2, Zenon DEF LateInv
<1>2. clock \in 0 .. Horizon /\ PassInv /\ LateInv /\ [SchedulerNext]_schedulerVars => LateInv'
  BY LateStep, Zenon
<1>3. clock \in 0 .. Horizon /\ PassInv /\ LateInv => NeverLate
  <2> SUFFICES ASSUME clock \in 0 .. Horizon, PassInv, LateInv, NEW d \in Monitored, schedule[d].enabled
               PROVE  clock <= schedule[d].due + Cardinality(Monitored) \div ScheduleBatch + rollbacks + toggles
    BY Zenon DEF NeverLate
  <2> DEFINE q == Cardinality(Monitored) \div ScheduleBatch
             t == schedule[d].due
             k == rollbacks + toggles
  <2>1. clock \in Int /\ t \in Int /\ rollbacks \in Nat /\ toggles \in Nat
    BY ScheduleAssumption DEF PassInv, LateInv
  <2>2. Cardinality(Ahead(d)) \in Nat /\ Cardinality(Monitored) \in Nat
    <3>1. Ahead(d) \subseteq Monitored \ {d}
      BY Zenon DEF Ahead
    <3> QED
      BY <3>1, AheadIsLess, Zenon
  <2>3. q \in Nat
    BY <2>2, ScheduleAssumption
  <2>4. clock <= t + q + k
    <3>1. CASE t <= clock
      <4>1. WithinAllowance(clock, Cardinality(Ahead(d)), t, k)
        BY <3>1, Zenon DEF LateInv, Overdue, OnTime, Excuses
      <4> QED
        BY <2>1, <2>2, <4>1, RowsToTicks
    <3> HIDE DEF q, t
    <3>2. CASE ~(t <= clock)
      BY <2>1, <2>3, <3>2
    <3> QED
      BY <3>1, <3>2, Zenon
  <2> HIDE DEF q, t
  <2>5. clock <= t + q + rollbacks + toggles
    BY <2>1, <2>3, <2>4
  <2> QED
    BY <2>5, Zenon DEF q, t
<1> QED
  BY <1>1, <1>2, <1>3, PassesHoldWatched, PTL DEF SchedulerSpec

-----------------------------------------------------------------------------
(***************************************************************************)
(* SheetRows: headings give a row its fields, rows of the same name are in *)
(* conflict, and what an import stored is what the row says.               *)
(***************************************************************************)
\* A range over a finite map visits each of its names once.
LEMMA RangeOverOnce ==
  ASSUME NEW S, IsFiniteSet(S)
  PROVE  LET f == RangeOver(S) IN
         /\ f \in [1 .. Cardinality(S) -> S]
         /\ \A x \in S : \E k \in DOMAIN f : f[k] = x
         /\ \A j, k \in DOMAIN f : f[j] = f[k] => j = k
<1> DEFINE n == Cardinality(S)
           f == RangeOver(S)
<1>1. n \in Nat /\ IsFiniteSet(1 .. n) /\ Cardinality(1 .. n) = n
  BY FS_CardinalityType, FS_Interval
<1>2. PICK g : g \in Bijection(1 .. n, S)
  BY FS_CardinalityType, Zenon DEF ExistsBijection
<1>3. g \in [1 .. n -> S] /\ \A x \in S : \E k \in DOMAIN g : g[k] = x
  BY <1>2, Zenon DEF Bijection, Injection, Surjection
<1>4. f \in [1 .. n -> S] /\ \A x \in S : \E k \in DOMAIN f : f[k] = x
  BY <1>3, Zenon DEF RangeOver
<1> HIDE DEF f
<1>5. f \in Surjection(1 .. n, S)
  BY <1>4, Zenon DEF Surjection
<1>6. f \in Injection(1 .. n, S)
  BY <1>1, <1>5, FS_Surjection, Zenon
<1> QED
  BY <1>4, <1>6, Zenon DEF f, Injection, IsInjective

\* What a cell of the sheet can hold.
Texts == UNION {CellTexts[h] : h \in Headings}

\* A row of the sheet.
SheetCells == Seq(Texts)

\* The types of the sheet.
SheetRowsInv == headers \in Seq(Headings) /\ body \in Seq(SheetCells)

\* A price and its currency are stored together.
StockInv ==
  /\ stock \in [StockNames -> StockRows]
  /\ \A n \in StockNames : stock[n].price = "" => stock[n].currency = ""

\* The inductive invariant of sheet and stock.
RowsInv == SheetRowsInv /\ StockInv

\* What a sound row says.
LEMMA SoundRow ==
  ASSUME NEW i \in ValidRows
  PROVE  LET row == NormalizedRow(body[i]) IN
         /\ row.name \in StockNames /\ row.active \in BOOLEAN /\ row.price \in Decimals \cup {""}
         /\ row.price # "" => row.currency \in Currencies
<1>1. i \in DOMAIN body /\ RowIsSound(body[i])
  BY Zenon DEF ValidRows
<1>2. NormalizeName(Raw(body[i], "domain")) \in StockNames
  BY <1>1, SheetRowsAssumption, Zenon DEF RowIsSound, NormalizeName
<1>3. Raw(body[i], "active") # "" => Booleans[Raw(body[i], "active")] \in BOOLEAN
  <2>1. DOMAIN Booleans = {"yes", "no"} /\ Booleans["yes"] \in BOOLEAN /\ Booleans["no"] \in BOOLEAN
    BY Zenon DEF Booleans
  <2> QED
    BY <1>1, <2>1, Zenon DEF RowIsSound
<1> QED
  BY <1>1, <1>2, <1>3, Zenon DEF RowIsSound, NormalizedRow

\* Two sound rows that nothing repeats name different domains.
LEMMA ValidRowsDiffer ==
  ASSUME NEW i \in ValidRows, NEW j \in ValidRows, NormalizedRow(body[i]).name = NormalizedRow(body[j]).name
  PROVE  i = j
BY Zenon DEF ValidRows, Repeated, NormalizedRow

\* The rows of a preview that act: of a valid row, or of a domain that is missing.
LEMMA ActingRows ==
  ASSUME NEW goods \in [StockNames -> StockRows], NEW r \in PreviewOf(goods), r.action # "INVALID"
  PROVE  \/ \E i \in ValidRows : /\ r = RowOfSheet(i, goods) /\ r.row = NormalizedRow(body[i])
                                 /\ r.action = ActionFor(NormalizedRow(body[i]), goods[NormalizedRow(body[i]).name])
         \/ /\ r.action = "MISSING"
            /\ \E n \in MissingNames(goods) : r.row = [name |-> n]
<1> DEFINE lost == RangeOver(MissingNames(goods))
<1>1. IsFiniteSet(MissingNames(goods))
  BY SheetRowsAssumption, FS_Subset, Zenon DEF MissingNames
<1>2. lost \in [1 .. Cardinality(MissingNames(goods)) -> MissingNames(goods)]
  BY <1>1, RangeOverOnce, Zenon
<1>3. CASE \E i \in DOMAIN body : r = RowOfSheet(i, goods)
  <2>1. PICK i \in DOMAIN body : r = RowOfSheet(i, goods)
    BY <1>3, Zenon
  <2>2. i \in ValidRows
    BY <2>1, Zenon DEF RowOfSheet
  <2> QED
    BY <2>1, <2>2, Zenon DEF RowOfSheet
<1>4. CASE \E k \in DOMAIN lost : r = [number |-> (NextRowNumber + k) - 1, action |-> "MISSING", row |-> [name |-> lost[k]]]
  BY <1>2, <1>4
<1> QED
  BY <1>3, <1>4, Zenon DEF PreviewOf

\* A row that acts is known by the domain it acts on.
LEMMA OneActs ==
  ASSUME RowsInv, NEW goods \in [StockNames -> StockRows],
         NEW r \in PreviewOf(goods), NEW s \in PreviewOf(goods), r.action # "INVALID", s.action # "INVALID",
         r.row.name = s.row.name
  PROVE  r = s
<1> DEFINE lost == RangeOver(MissingNames(goods))
<1>1. IsFiniteSet(MissingNames(goods))
  BY SheetRowsAssumption, FS_Subset, Zenon DEF MissingNames
<1>2. \A j, k \in DOMAIN lost : lost[j] = lost[k] => j = k
  BY <1>1, RangeOverOnce, Zenon
<1>3. \A i \in ValidRows, n \in MissingNames(goods) : NormalizedRow(body[i]).name # n
  BY Zenon DEF MissingNames, Seen
<1> DEFINE listed(x, i) == x = RowOfSheet(i, goods) /\ x.row = NormalizedRow(body[i])
           gone(x) == x.action = "MISSING" /\ \E n \in MissingNames(goods) : x.row = [name |-> n]
<1>a. ((\E i \in ValidRows : listed(r, i)) \/ gone(r)) /\ ((\E i \in ValidRows : listed(s, i)) \/ gone(s))
  BY ActingRows, Zenon
<1>b. \A x : gone(x) => \E n \in MissingNames(goods) : x.row.name = n
  <2>1. \A n : [name |-> n].name = n
    BY Zenon
  <2> QED
    BY <2>1, Zenon
<1>4. CASE \E i \in ValidRows : listed(r, i)
  <2>1. PICK i \in ValidRows : listed(r, i)
    BY <1>4, Zenon
  <2>2. ~gone(s)
    BY <1>3, <1>b, <2>1, Zenon
  <2>3. PICK j \in ValidRows : listed(s, j)
    BY <1>a, <2>2, Zenon
  <2>4. i = j
    BY <2>1, <2>3, ValidRowsDiffer, Zenon
  <2> QED
    BY <2>1, <2>3, <2>4, Zenon
<1>5. CASE r.action = "MISSING" /\ s.action = "MISSING"
  <2>1. \A i \in DOMAIN body : RowOfSheet(i, goods).action # "MISSING"
    BY Zenon DEF RowOfSheet, ActionFor
  <2>2. PICK j \in DOMAIN lost : r = [number |-> (NextRowNumber + j) - 1, action |-> "MISSING", row |-> [name |-> lost[j]]]
    BY <1>5, <2>1, Zenon DEF PreviewOf
  <2>3. PICK k \in DOMAIN lost : s = [number |-> (NextRowNumber + k) - 1, action |-> "MISSING", row |-> [name |-> lost[k]]]
    BY <1>5, <2>1, Zenon DEF PreviewOf
  <2>4. lost[j] = lost[k]
    BY <2>2, <2>3, Zenon
  <2> QED
    BY <1>2, <2>2, <2>3, <2>4, Zenon
<1>6. CASE gone(r) /\ \E i \in ValidRows : listed(s, i)
  BY <1>3, <1>b, <1>6, Zenon
<1> QED
  BY <1>a, <1>4, <1>5, <1>6, Zenon

\* No two rows of a preview have the same number: the missing ones are numbered after the sheet's.
LEMMA NumbersDiffer ==
  ASSUME RowsInv, NEW goods \in [StockNames -> StockRows],
         NEW r \in PreviewOf(goods), NEW s \in PreviewOf(goods), r.number = s.number
  PROVE  r = s
<1> DEFINE lost == RangeOver(MissingNames(goods))
           gone(k) == [number |-> (NextRowNumber + k) - 1, action |-> "MISSING", row |-> [name |-> lost[k]]]
<1>1. IsFiniteSet(MissingNames(goods))
  BY SheetRowsAssumption, FS_Subset, Zenon DEF MissingNames
<1>2. DOMAIN lost = 1 .. Cardinality(MissingNames(goods))
  BY <1>1, RangeOverOnce, Zenon
<1>3. Len(body) \in Nat /\ DOMAIN body = 1 .. Len(body)
  BY DEF RowsInv, SheetRowsInv
<1>4. \A i \in DOMAIN body : RowOfSheet(i, goods).number = i + 1
  BY Zenon DEF RowOfSheet
<1>5. \A k \in DOMAIN lost : gone(k).number = Len(body) + k + 1
  BY <1>2, <1>3 DEF NextRowNumber
<1>6. \A x \in PreviewOf(goods) : (\E i \in DOMAIN body : x = RowOfSheet(i, goods)) \/ (\E k \in DOMAIN lost : x = gone(k))
  BY Zenon DEF PreviewOf
<1> HIDE DEF gone, lost
<1> QED
  BY <1>2, <1>3, <1>4, <1>5, <1>6

\* What an import leaves of a domain.
LEMMA RowApplied ==
  ASSUME RowsInv, NEW n \in StockNames
  PROVE  LET after == StockAfter(PreviewOf(stock)) IN
         /\ \A r \in ActingOn(n, PreviewOf(stock)) : after[n] = AppliedTo(r, stock[n])
         /\ ActingOn(n, PreviewOf(stock)) = {} => after[n] = stock[n]
<1> DEFINE rows == PreviewOf(stock)
<1>1. StockAfter(rows)[n] = IF ActingOn(n, rows) = {} THEN stock[n]
                            ELSE AppliedTo(CHOOSE r \in ActingOn(n, rows) : TRUE, stock[n])
  BY Zenon DEF StockAfter
<1>2. \A r, s \in ActingOn(n, rows) : r = s
  BY OneActs, Zenon DEF ActingOn, RowsInv, StockInv
<1> QED
  BY <1>1, <1>2, Zenon

\* An import keeps the shape of the inventory.
LEMMA ImportKeeps ==
  ASSUME RowsInv
  PROVE  LET after == StockAfter(PreviewOf(stock)) IN
         /\ after \in [StockNames -> StockRows]
         /\ \A n \in StockNames : after[n].price = "" => after[n].currency = ""
<1> DEFINE rows == PreviewOf(stock)
           after == StockAfter(rows)
<1>1. ASSUME NEW n \in StockNames
      PROVE  after[n] \in StockRows /\ (after[n].price = "" => after[n].currency = "")
  <2>1. CASE ActingOn(n, rows) = {}
    BY <2>1, RowApplied, Zenon DEF RowsInv, StockInv
  <2>2. CASE ActingOn(n, rows) # {}
    <3>1. PICK r \in rows : r.action # "INVALID" /\ r.row.name = n /\ after[n] = AppliedTo(r, stock[n])
      BY <2>2, RowApplied, Zenon DEF ActingOn
    <3>2. stock[n] \in StockRows /\ (stock[n].price = "" => stock[n].currency = "")
      BY Zenon DEF RowsInv, StockInv
    <3>3. CASE r.action = "MISSING"
      BY <3>1, <3>2, <3>3, ZenonT(40) DEF AppliedTo, StockRows
    <3>4. CASE \E i \in ValidRows : r.row = NormalizedRow(body[i]) /\ r.action = ActionFor(NormalizedRow(body[i]), stock[NormalizedRow(body[i]).name])
      <4>1. /\ r.row.active \in BOOLEAN /\ r.row.price \in Decimals \cup {""}
            /\ r.row.price # "" => r.row.currency \in Currencies
            /\ r.action \in {"ADD", "MODIFY", "UNCHANGED"}
        BY <3>4, SoundRow, Zenon DEF ActionFor
      <4>2. CASE r.action \in {"ADD", "MODIFY"}
        <5> DEFINE row == r.row
                   value == stock[n]
        <5>1. after[n] = Written(row, value)
          BY <3>1, <4>2, Zenon DEF AppliedTo
        <5> HIDE DEF after, row, value
        <5>2. value \in StockRows /\ row.active \in BOOLEAN
          BY <3>2, <4>1, Zenon DEF row, value
        <5>3. /\ after[n].price = IF row.price = "" THEN value.price ELSE row.price
              /\ after[n].currency = IF row.price = "" THEN value.currency ELSE row.currency
              /\ OnAfter(row, value) \in BOOLEAN
          BY <5>1, <5>2, Zenon DEF Written, OnAfter, StockRows
        <5>4. after[n].price \in Decimals \cup {""} /\ after[n].currency \in Currencies \cup {""}
          BY <4>1, <5>2, <5>3, Zenon DEF StockRows, row
        <5>5. after[n] \in StockRows
          BY <5>1, <5>2, <5>3, <5>4, Zenon DEF Written, StockRows
        <5>6. after[n].price = "" => after[n].currency = ""
          BY <3>2, <5>3, Zenon DEF value
        <5> QED
          BY <5>5, <5>6, Zenon
      <4>3. CASE r.action = "UNCHANGED"
        BY <3>1, <3>2, <4>3, ZenonT(40) DEF AppliedTo, StockRows
      <4> QED
        BY <4>1, <4>2, <4>3, Zenon
    <3> QED
      BY <3>1, <3>3, <3>4, ActingRows, Zenon DEF RowsInv, StockInv
  <2> QED
    BY <2>1, <2>2, Zenon
<1> QED
  BY <1>1, Zenon DEF StockAfter

\* RowsInv is an invariant.
LEMMA RowsInvariant == SheetRowsSpec => []RowsInv
<1>1. SheetRowsInit => RowsInv
  <2>1. \A g \in {NotInStock, Archived, FromElsewhere, FromHere} : g \in StockRows /\ (g.price = "" => g.currency = "")
    <3>1. NotInStock \in StockRows /\ NotInStock.currency = ""
      BY Zenon DEF NotInStock, StockRows
    <3>2. Archived \in StockRows /\ Archived.currency = ""
      BY <3>1, Zenon DEF Archived, StockRows
    <3>3. FromElsewhere \in StockRows /\ FromElsewhere.currency = ""
      BY <3>1, Zenon DEF FromElsewhere, StockRows
    <3>4. FromHere \in StockRows /\ FromHere.price = "5"
      BY <3>3, Zenon DEF FromHere, StockRows, Decimals, Currencies
    <3> QED
      BY <3>1, <3>2, <3>3, <3>4, Zenon
  <2>2. SheetRowsInit => SheetRowsInv
    <3>1. SheetRowsInit => headers = <<>> /\ body = <<>>
      BY Zenon DEF SheetRowsInit
    <3> QED
      BY <3>1 DEF SheetRowsInv
  <2>3. SheetRowsInit => StockInv
    BY <2>1, Zenon DEF SheetRowsInit, StockInv
  <2> QED
    BY <2>2, <2>3, Zenon DEF RowsInv
<1>2. RowsInv /\ [SheetRowsNext]_rowVars => RowsInv'
  <2> SUFFICES ASSUME RowsInv, [SheetRowsNext]_rowVars
               PROVE  RowsInv'
    BY Zenon
  <2>1. ASSUME NEW text \in Headings, AddColumn(text)
        PROVE  RowsInv'
    <3>1. SheetRowsInv'
      BY <2>1 DEF AddColumn, RowsInv, SheetRowsInv
    <3> QED
      BY <2>1, <3>1, Zenon DEF AddColumn, RowsInv, StockInv
  <2>2. ASSUME AddRow
        PROVE  RowsInv'
    <3>0. PICK cells \in RowCells : body' = Append(body, cells)
      BY <2>2, Zenon DEF AddRow
    <3>1. cells \in SheetCells
      <4>1. cells \in [1 .. Len(headers) -> Texts] /\ Len(headers) \in Nat
        BY DEF RowCells, Texts, RowsInv, SheetRowsInv
      <4> QED
        BY <4>1 DEF SheetCells
    <3>2. headers' = headers /\ stock' = stock
      BY <2>2, Zenon DEF AddRow
    <3>3. SheetRowsInv'
      BY <3>0, <3>1, <3>2 DEF RowsInv, SheetRowsInv
    <3> QED
      BY <3>2, <3>3, Zenon DEF RowsInv, StockInv
  <2>3. ASSUME ApplyImport
        PROVE  RowsInv'
    BY <2>3, ImportKeeps, Zenon DEF ApplyImport, RowsInv, SheetRowsInv, StockInv
  <2>4. CASE UNCHANGED rowVars
    BY <2>4, Zenon DEF rowVars, RowsInv, SheetRowsInv, StockInv
  <2> QED
    BY <2>1, <2>2, <2>3, <2>4, Zenon DEF SheetRowsNext
<1> QED
  BY <1>1, <1>2, PTL DEF SheetRowsSpec

\* The rows of a preview have different numbers, at most one acts on a domain, and exactly one on each
\* domain that the inventory has from this sheet.
THEOREM PreviewCorrect == SheetRowsSpec => []PreviewIsUnambiguous
<1>1. RowsInv => PreviewIsUnambiguous
  <2> SUFFICES ASSUME RowsInv
               PROVE  /\ \A r, s \in PreviewOf(stock) : r.number = s.number => r = s
                      /\ \A n \in StockNames :
                           /\ Cardinality(ActingOn(n, PreviewOf(stock))) <= 1
                           /\ stock[n].exists /\ stock[n].here /\ stock[n].present => ActingOn(n, PreviewOf(stock)) # {}
    BY Zenon DEF PreviewIsUnambiguous
  <2>1. \A r, s \in PreviewOf(stock) : r.number = s.number => r = s
    BY NumbersDiffer, Zenon DEF RowsInv, StockInv
  <2>2. ASSUME NEW n \in StockNames
        PROVE  Cardinality(ActingOn(n, PreviewOf(stock))) <= 1
    <3>1. \A r, s \in ActingOn(n, PreviewOf(stock)) : r = s
      BY OneActs, Zenon DEF ActingOn, RowsInv, StockInv
    <3>2. CASE ActingOn(n, PreviewOf(stock)) = {}
      BY <3>2, FS_EmptySet
    <3>3. CASE \E r : ActingOn(n, PreviewOf(stock)) = {r}
      <4>1. Cardinality(ActingOn(n, PreviewOf(stock))) = 1
        BY <3>3, FS_Singleton, Zenon
      <4> QED
        BY <4>1
    <3> QED
      BY <3>1, <3>2, <3>3, Zenon
  <2>3. ASSUME NEW n \in StockNames, stock[n].exists, stock[n].here, stock[n].present
        PROVE  ActingOn(n, PreviewOf(stock)) # {}
    <3>1. CASE n \in Seen
      <4>1. PICK i \in ValidRows : NormalizedRow(body[i]).name = n
        BY <3>1, Zenon DEF Seen
      <4>2. RowOfSheet(i, stock) \in PreviewOf(stock)
        BY <4>1, Zenon DEF PreviewOf, ValidRows
      <4>3. RowOfSheet(i, stock).action # "INVALID" /\ RowOfSheet(i, stock).row.name = n
        BY <4>1, Zenon DEF RowOfSheet, ActionFor
      <4> QED
        BY <4>2, <4>3, Zenon DEF ActingOn
    <3>2. CASE n \notin Seen
      <4> DEFINE lost == RangeOver(MissingNames(stock))
      <4>1. n \in MissingNames(stock) /\ IsFiniteSet(MissingNames(stock))
        BY <2>3, <3>2, SheetRowsAssumption, FS_Subset, Zenon DEF MissingNames
      <4>2. PICK k \in DOMAIN lost : lost[k] = n
        BY <4>1, RangeOverOnce, Zenon
      <4>3. [number |-> (NextRowNumber + k) - 1, action |-> "MISSING", row |-> [name |-> lost[k]]] \in PreviewOf(stock)
        BY Zenon DEF PreviewOf
      <4> QED
        BY <4>2, <4>3 DEF ActingOn
    <3> QED
      BY <3>1, <3>2, Zenon
  <2> QED
    BY <2>1, <2>2, <2>3, Zenon
<1> QED
  BY <1>1, RowsInvariant, PTL

\* After an import the next preview of the same sheet finds nothing to do but three kinds of rows that
\* are reported as modified each time.
THEOREM ImportsCorrect == SheetRowsSpec => []ImportsSettle
<1>1. RowsInv => ImportsSettle
  <2> DEFINE rows == PreviewOf(stock)
             after == StockAfter(rows)
  <2> SUFFICES ASSUME RowsInv, NEW r \in PreviewOf(after), r.action \in {"ADD", "MODIFY", "MISSING"}
               PROVE  /\ r.action = "MODIFY"
                      /\ \/ r.row.price = "" /\ after[r.row.name].price # ""
                         \/ r.row.price = "" /\ r.row.currency # ""
                         \/ r.row.active /\ after[r.row.name].archived
    BY Zenon DEF ImportsSettle
  <2>1. /\ after \in [StockNames -> StockRows]
        /\ \A n \in StockNames : after[n].price = "" => after[n].currency = ""
    BY ImportKeeps, Zenon
  <2> HIDE DEF after
  <2>2. CASE \E n \in MissingNames(after) : r.action = "MISSING" /\ r.row = [name |-> n]
    <3>1. PICK n \in MissingNames(after) : TRUE
      BY <2>2, Zenon
    <3>2. n \in StockNames \ Seen /\ after[n].exists /\ after[n].here /\ after[n].present
      BY <3>1, Zenon DEF MissingNames
    <3>3. ASSUME NEW s \in ActingOn(n, rows)
          PROVE  FALSE
      <4>1. s \in rows /\ s.action # "INVALID" /\ s.row.name = n
        BY <3>3, Zenon DEF ActingOn
      <4>2. s.action = "MISSING"
        BY <3>2, <4>1, ActingRows, Zenon DEF Seen, RowsInv, StockInv
      <4>3. after[n] = [stock[n] EXCEPT !.present = FALSE, !.on = FALSE] /\ stock[n] \in StockRows
        BY <3>2, <3>3, <4>2, RowApplied, Zenon DEF AppliedTo, RowsInv, StockInv, after
      <4> QED
        BY <3>2, <4>3, Zenon DEF StockRows
    <3>4. after[n] = stock[n]
      BY <3>2, <3>3, RowApplied, Zenon DEF after
    <3>5. n \in MissingNames(stock) /\ IsFiniteSet(MissingNames(stock))
      BY <3>2, <3>4, SheetRowsAssumption, FS_Subset, Zenon DEF MissingNames
    <3> DEFINE lost == RangeOver(MissingNames(stock))
    <3>6. PICK k \in DOMAIN lost : lost[k] = n
      BY <3>5, RangeOverOnce, Zenon
    <3>7. [number |-> (NextRowNumber + k) - 1, action |-> "MISSING", row |-> [name |-> lost[k]]] \in ActingOn(n, rows)
      BY <3>6, Zenon DEF PreviewOf, ActingOn
    <3> QED
      BY <3>3, <3>7, Zenon
  <2>3. CASE \E i \in ValidRows : /\ r = RowOfSheet(i, after) /\ r.row = NormalizedRow(body[i])
                                  /\ r.action = ActionFor(NormalizedRow(body[i]), after[NormalizedRow(body[i]).name])
    <3>1. PICK i \in ValidRows : r.row = NormalizedRow(body[i])
                                 /\ r.action = ActionFor(NormalizedRow(body[i]), after[NormalizedRow(body[i]).name])
      BY <2>3, Zenon
    <3> DEFINE row == NormalizedRow(body[i])
               n == row.name
               s == RowOfSheet(i, stock)
    <3>2. /\ n \in StockNames /\ row.active \in BOOLEAN /\ row.price \in Decimals \cup {""}
          /\ row.price # "" => row.currency \in Currencies
      BY SoundRow, Zenon
    <3>3. s.action = ActionFor(row, stock[n]) /\ s.row = row /\ s \in rows
      BY <3>1, Zenon DEF RowOfSheet, PreviewOf, ValidRows
    <3> HIDE DEF row, s
    <3>4. s \in ActingOn(n, rows) /\ s.action \in {"ADD", "MODIFY", "UNCHANGED"}
      BY <3>3, Zenon DEF ActingOn, ActionFor
    <3>5. after[n] = AppliedTo(s, stock[n]) /\ stock[n] \in StockRows
      BY <3>2, <3>4, RowApplied, Zenon DEF after, RowsInv, StockInv
    <3>6. r.row = row /\ r.action = ActionFor(row, after[n])
      BY <3>1, Zenon DEF row
    <3>7. CASE s.action \in {"ADD", "MODIFY"}
      <4>1. after[n] = Written(row, stock[n])
        BY <3>3, <3>5, <3>7, Zenon DEF AppliedTo
      <4>2. /\ after[n].exists /\ after[n].on = (row.active /\ ~after[n].archived)
            /\ row.price # "" => after[n].price = row.price /\ after[n].currency = row.currency
        BY <3>2, <3>5, <4>1, ZenonT(40) DEF Written, OnAfter, StockRows
      <4>3. r.action = "MODIFY" /\ Differs(row, after[n])
        BY <3>6, <4>2, Zenon DEF ActionFor
      <4>4. CASE after[n].on # row.active
        BY <3>2, <3>6, <4>2, <4>3, <4>4, Zenon
      <4>5. CASE after[n].price # row.price
        BY <3>6, <4>2, <4>3, <4>5, Zenon
      <4>6. CASE after[n].currency # row.currency
        BY <2>1, <3>2, <3>6, <4>2, <4>3, <4>6, Zenon
      <4> QED
        BY <4>3, <4>4, <4>5, <4>6, Zenon DEF Differs
    <3>8. CASE s.action = "UNCHANGED"
      <4>1. after[n] = [stock[n] EXCEPT !.present = TRUE]
        BY <3>5, <3>8, Zenon DEF AppliedTo
      <4>2. stock[n].exists /\ ~Differs(row, stock[n])
        BY <3>3, <3>8, Zenon DEF ActionFor
      <4>3. after[n].exists /\ ~Differs(row, after[n])
        BY <3>5, <4>1, <4>2, Zenon DEF Differs, StockRows
      <4> QED
        BY <3>6, <4>3, Zenon DEF ActionFor
    <3> QED
      BY <3>4, <3>7, <3>8, Zenon
  <2> QED
    BY <2>1, <2>2, <2>3, ActingRows, Zenon
<1> QED
  BY <1>1, RowsInvariant, PTL
=============================================================================
