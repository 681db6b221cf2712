---------------------------- MODULE OutboxProofs ----------------------------
(***************************************************************************)
(* Proofs about the two tables of what happened: Outbox, for every number  *)
(* of events and dispatchers and every batch size, lease and number of     *)
(* attempts, and AuditChain, for any number of writers.                    *)
(***************************************************************************)
EXTENDS Outbox, AuditChain, FiniteSetTheorems, TLAPS

\* The module is large: every leaf may take longer than the default of the provers.
USE SMTT(15), ZenonT(15)

\* What is true of one row: its attempts, and that it was sent if it says so.
RowInv(e) ==
  /\ row[e] \in Rows
  /\ row[e].status \in {"absent", "pending", "dispatching"} => row[e].attempts < MaxAttempts
  /\ row[e].status = "failed" => row[e].attempts = MaxAttempts
  /\ row[e].status = "dispatched" => sent[e] > 0

\* A dispatcher that has the answer "ok" has sent its event.
SentInv ==
  /\ sent \in [Events -> Nat]
  /\ sending \in [Dispatchers -> Events \cup {NoEvent}]
  /\ reply \in [Dispatchers -> {"none", "ok", "error"}]
  /\ todo \in [Dispatchers -> SUBSET Events]
  /\ \A d \in Dispatchers : reply[d] # "none" => sending[d] \in Events
  /\ \A d \in Dispatchers : reply[d] = "ok" => sent[sending[d]] > 0

IInv ==
  /\ row = [e \in Events |-> row[e]]
  /\ \A e \in Events : RowInv(e)
  /\ SentInv

\* What a step may do to a row that it does not create.
Lasting(e) ==
  row[e].status \in Final => row'[e].status = row[e].status /\ row'[e].attempts = row[e].attempts

(***************************************************************************)
(* The delay of a retry is at most BackoffCap.                             *)
(***************************************************************************)
LEMMA DelayType == ASSUME NEW n PROVE Delay(n) \in 0 .. BackoffCap
BY OutboxAssumption DEF Delay

(***************************************************************************)
(* A changed row that satisfies its invariant, among unchanged ones.       *)
(***************************************************************************)
LEMMA OneRow ==
  ASSUME IInv, NEW e \in Events, NEW new \in Rows,
         row' = [row EXCEPT ![e] = new],
         sent' = sent,
         new.status \in {"absent", "pending", "dispatching"} => new.attempts < MaxAttempts,
         new.status = "failed" => new.attempts = MaxAttempts,
         new.status = "dispatched" => sent[e] > 0,
         row[e].status \notin Final
  PROVE  /\ row' = [f \in Events |-> row'[f]]
         /\ \A f \in Events : RowInv(f)' /\ Lasting(f)
<1>1. row'[e] = new /\ \A f \in Events : f # e => row'[f] = row[f]
  BY Zenon DEF IInv
<1>2. row' = [f \in Events |-> row'[f]]
  BY Zenon DEF IInv
<1>3. ASSUME NEW f \in Events PROVE RowInv(f)' /\ Lasting(f)
  <2>1. CASE f = e
    BY <1>1, <2>1, Zenon DEF RowInv, Lasting
  <2>2. CASE f # e
    BY <1>1, <2>2, Zenon DEF IInv, RowInv, Lasting
  <2> QED BY <2>1, <2>2, Zenon
<1> QED BY <1>2, <1>3, Zenon

(***************************************************************************)
(* Rows that keep status and attempts keep their invariant.                *)
(***************************************************************************)
LEMMA SameRows ==
  ASSUME IInv, row' = row, \A e \in Events : sent'[e] >= sent[e], sent' \in [Events -> Nat]
  PROVE  /\ row' = [f \in Events |-> row'[f]]
         /\ \A f \in Events : RowInv(f)' /\ Lasting(f)
<1>1. ASSUME NEW f \in Events PROVE RowInv(f)' /\ Lasting(f)
  <2>1. RowInv(f) /\ sent[f] \in Nat /\ sent'[f] \in Nat /\ sent'[f] >= sent[f]
    BY Zenon DEF IInv, SentInv
  <2> QED BY <2>1 DEF RowInv, Lasting
<1> QED BY <1>1, Zenon DEF IInv

(***************************************************************************)
(* The end of an event and the end of a batch keep what is known of sends. *)
(***************************************************************************)
LEMMA DoneSending ==
  ASSUME IInv, NEW d \in Dispatchers, Proceed(d) \/ Abandon(d), UNCHANGED sent
  PROVE  SentInv'
<1> USE DEF IInv, SentInv
<1>1. /\ sending' = [sending EXCEPT ![d] = NoEvent] /\ reply' = [reply EXCEPT ![d] = "none"]
      /\ todo' \in [Dispatchers -> SUBSET Events]
  BY Zenon DEF Proceed, Abandon
<1>2. reply'[d] = "none" /\ \A c \in Dispatchers : c # d => reply'[c] = reply[c] /\ sending'[c] = sending[c]
  BY <1>1, Zenon
<1> QED BY <1>1, <1>2, Zenon

(***************************************************************************)
(* Committing an outbox row.                                               *)
(***************************************************************************)
LEMMA EnqueueStep ==
  ASSUME IInv, NEW e \in Events, EnqueueTx(e)
  PROVE  IInv' /\ \A f \in Events : Lasting(f)
<1> DEFINE new == [row[e] EXCEPT !.status = "pending"]
<1>1. RowInv(e) /\ row[e].status = "absent"
  BY Zenon DEF IInv, EnqueueTx
<1>2. new \in Rows /\ new.status = "pending" /\ new.attempts = row[e].attempts
  BY <1>1, Zenon DEF RowInv, Rows, Statuses
<1>3. row' = [row EXCEPT ![e] = new] /\ UNCHANGED <<sent, sending, reply, todo>>
  BY Zenon DEF EnqueueTx, dispatcher
<1> HIDE DEF new
<1>4. row[e].status \notin Final /\ row[e].attempts < MaxAttempts
  BY <1>1, Zenon DEF Final, RowInv
<1>5. row' = [f \in Events |-> row'[f]] /\ \A f \in Events : RowInv(f)' /\ Lasting(f)
  BY <1>2, <1>3, <1>4, OneRow, Zenon
<1>6. SentInv'
  BY <1>3, Zenon DEF IInv, SentInv
<1> QED BY <1>5, <1>6, Zenon DEF IInv

(***************************************************************************)
(* Claiming a batch: only stale and pending rows change, and none of them  *)
(* is final.                                                               *)
(***************************************************************************)
LEMMA ClaimStep ==
  ASSUME IInv, NEW d \in Dispatchers, NEW batch \in SUBSET Events, claim(d, batch)
  PROVE  IInv' /\ \A f \in Events : Lasting(f)
<1>1. row' = [f \in Events |->
               IF f \in batch
               THEN [Requeued[f] EXCEPT !.status = "dispatching", !.owner = d, !.age = 0]
               ELSE Requeued[f]]
  BY Zenon DEF claim
<1>2. /\ UNCHANGED <<sent, sending, reply>> /\ todo' = [todo EXCEPT ![d] = batch]
      /\ batch \subseteq Candidates
  BY Zenon DEF claim
<1>3. ASSUME NEW f \in Events PROVE RowInv(f)' /\ Lasting(f)
  <2>1. RowInv(f)
    BY Zenon DEF IInv
  <2>2. CASE Stale(f) /\ f \notin batch
    <3>1. row'[f] = [row[f] EXCEPT !.status = "pending", !.owner = Nobody] /\ row[f].status = "dispatching"
      BY <1>1, <2>2, Zenon DEF Requeued, Stale
    <3>2. /\ row'[f] \in Rows /\ row'[f].status = "pending" /\ row'[f].attempts = row[f].attempts
      BY <2>1, <3>1, Zenon DEF RowInv, Rows, Statuses
    <3> QED BY <2>1, <3>1, <3>2, Zenon DEF RowInv, Lasting, Final
  <2>3. CASE ~Stale(f) /\ f \notin batch
    BY <1>1, <1>2, <2>1, <2>3, Zenon DEF Requeued, RowInv, Lasting
  <2>4. CASE f \in batch
    <3> DEFINE old == Requeued[f]
    <3>1. old.status = "pending" /\ old.attempts < MaxAttempts
      BY <1>2, <2>4, Zenon DEF Candidates
    <3>2. old \in Rows /\ old.attempts = row[f].attempts
      BY <2>1, Zenon DEF Requeued, RowInv, Rows, Statuses
    <3>3. row[f].status \in {"pending", "dispatching"}
      BY <3>1, Zenon DEF Requeued, Stale
    <3>4. row'[f] = [old EXCEPT !.status = "dispatching", !.owner = d, !.age = 0]
      BY <1>1, <2>4, Zenon
    <3> HIDE DEF old
    <3>5. row'[f] \in Rows /\ row'[f].status = "dispatching" /\ row'[f].attempts = row[f].attempts
      <4>1. "dispatching" \in Statuses /\ 0 \in 0 .. Lease /\ d \in Dispatchers \cup {Nobody}
        BY OutboxAssumption DEF Statuses
      <4> QED BY <3>2, <3>4, <4>1, Zenon DEF Rows
    <3> QED BY <2>1, <3>3, <3>5, Zenon DEF RowInv, Lasting, Final
  <2> QED BY <2>2, <2>3, <2>4, Zenon
<1>4. SentInv'
  BY <1>2, Zenon DEF IInv, SentInv
<1> QED BY <1>1, <1>3, <1>4, Zenon DEF IInv

(***************************************************************************)
(* XADD: the answer "ok" comes only with an entry.                         *)
(***************************************************************************)
LEMMA DispatchStep ==
  ASSUME IInv, NEW d \in Dispatchers, NEW e \in Events, dispatch(d, e)
  PROVE  IInv' /\ \A f \in Events : Lasting(f)
<1> USE DEF IInv, SentInv
<1>1. /\ row' = row /\ sending[d] = NoEvent /\ sending' = [sending EXCEPT ![d] = e]
      /\ todo' = [todo EXCEPT ![d] = @ \ {e}]
  BY Zenon DEF dispatch
<1>2. /\ sent' \in [Events -> Nat] /\ \A f \in Events : sent'[f] >= sent[f]
      /\ reply' \in [Dispatchers -> {"none", "ok", "error"}]
      /\ reply'[d] = "ok" => sent'[e] > 0
      /\ \A c \in Dispatchers : c # d => reply'[c] = reply[c]
  <2>1. CASE /\ sent' = [sent EXCEPT ![e] = @ + 1]
             /\ \E answer \in {"ok", "error"} : reply' = [reply EXCEPT ![d] = answer]
    BY <2>1
  <2>2. CASE reply' = [reply EXCEPT ![d] = "error"] /\ UNCHANGED sent
    BY <2>2
  <2> QED BY <2>1, <2>2, Zenon DEF dispatch
<1>3. SentInv'
  <2>1. /\ sending' \in [Dispatchers -> Events \cup {NoEvent}] /\ sending'[d] = e
        /\ todo' \in [Dispatchers -> SUBSET Events]
        /\ \A c \in Dispatchers : c # d => sending'[c] = sending[c]
    BY <1>1, Zenon
  <2>2. ASSUME NEW c \in Dispatchers, reply'[c] = "ok" PROVE sent'[sending'[c]] > 0
    <3>1. CASE c = d
      BY <1>2, <2>1, <2>2, <3>1, Zenon
    <3>2. CASE c # d
      <4>1. sending'[c] = sending[c] /\ reply[c] = "ok" /\ sending[c] \in Events /\ sent[sending[c]] > 0
        BY <1>2, <2>1, <2>2, <3>2, Zenon
      <4> QED BY <1>2, <4>1
    <3> QED BY <3>1, <3>2, Zenon
  <2> QED BY <1>2, <2>1, <2>2, Zenon
<1> QED BY <1>1, <1>2, <1>3, SameRows, Zenon

(***************************************************************************)
(* The marks: only the owner of a dispatching row writes it.               *)
(***************************************************************************)
LEMMA MarkStep ==
  ASSUME IInv, NEW d \in Dispatchers, Mark(d)
  PROVE  IInv' /\ \A f \in Events : Lasting(f)
<1> DEFINE e == sending[d]
<1>1. UNCHANGED sent /\ (Proceed(d) \/ Abandon(d))
  BY Zenon DEF Mark, markDispatched, markFailure, leaseLost
<1>2. SentInv'
  BY <1>1, DoneSending, Zenon
<1>3. CASE leaseLost(d)
  <2>1. row' = row /\ sent' \in [Events -> Nat] /\ \A f \in Events : sent'[f] >= sent[f]
    BY <1>1, <1>3 DEF leaseLost, IInv, SentInv
  <2> QED BY <1>2, <2>1, SameRows, Zenon DEF IInv
<1>4. CASE markDispatched(d)
  <2>1. e \in Events /\ sent[e] > 0 /\ row[e].status = "dispatching" /\ RowInv(e)
    BY <1>4, Zenon DEF markDispatched, XAddOk, Owns, IInv, SentInv
  <2> DEFINE new == [row[e] EXCEPT !.status = "dispatched", !.owner = Nobody]
  <2>2. row' = [row EXCEPT ![e] = new]
    BY <1>4, Zenon DEF markDispatched
  <2>3. new \in Rows /\ new.status = "dispatched"
    BY <2>1, Zenon DEF RowInv, Rows, Statuses, Final
  <2>4. row[e].status \notin Final
    BY <2>1, Zenon DEF Final
  <2> HIDE DEF e, new
  <2>5. row' = [f \in Events |-> row'[f]] /\ \A f \in Events : RowInv(f)' /\ Lasting(f)
    BY <1>1, <2>1, <2>2, <2>3, <2>4, OneRow, Zenon
  <2> QED BY <1>2, <2>5, Zenon DEF IInv
<1>5. CASE markFailure(d)
  <2>1. e \in Events /\ row[e].status = "dispatching" /\ RowInv(e)
    BY <1>5, Zenon DEF markFailure, Owns, IInv, SentInv
  <2> DEFINE attempts == row[e].attempts + 1
  <2>2. PICK jitter \in {0, 1} :
          row' = [row EXCEPT ![e] =
                    [row[e] EXCEPT !.attempts = attempts,
                                   !.status = IF Exhausted(attempts) THEN "failed" ELSE "pending",
                                   !.owner = Nobody,
                                   !.wait = Delay(attempts) + jitter]]
    BY <1>5, Zenon DEF markFailure
  <2>3. /\ attempts \in 0 .. MaxAttempts
        /\ Exhausted(attempts) => attempts = MaxAttempts
        /\ ~Exhausted(attempts) => attempts < MaxAttempts
    BY <2>1, OutboxAssumption DEF RowInv, Rows, Exhausted
  <2>4. Delay(attempts) + jitter \in 0 .. BackoffCap + 1
    BY DelayType, OutboxAssumption
  <2> DEFINE status == IF Exhausted(attempts) THEN "failed" ELSE "pending"
  <2>5. status \in Statuses /\ status \in {"failed", "pending"}
    BY Zenon DEF Statuses, Final
  <2> DEFINE new == [row[e] EXCEPT !.attempts = attempts, !.status = status, !.owner = Nobody,
                                   !.wait = Delay(attempts) + jitter]
  <2>6. row' = [row EXCEPT ![e] = new]
    BY <2>2, Zenon
  <2>7. /\ status = "failed" => attempts = MaxAttempts
        /\ status = "pending" => attempts < MaxAttempts
    BY <2>3, Zenon
  <2>8. row[e].status \notin Final /\ row[e] \in Rows
    BY <2>1, Zenon DEF Final, RowInv
  <2> HIDE DEF e, attempts, status
  <2>9. new \in Rows /\ new.status = status /\ new.attempts = attempts
    BY <2>3, <2>4, <2>5, <2>8, Zenon DEF Rows
  <2> HIDE DEF new
  <2>10. row' = [f \in Events |-> row'[f]] /\ \A f \in Events : RowInv(f)' /\ Lasting(f)
    BY <1>1, <2>1, <2>5, <2>6, <2>7, <2>8, <2>9, OneRow, Zenon
  <2> QED BY <1>2, <2>10, Zenon DEF IInv
<1> QED BY <1>3, <1>4, <1>5, Zenon DEF Mark

(***************************************************************************)
(* Time changes ages and waits only.                                       *)
(***************************************************************************)
LEMMA TickStep ==
  ASSUME IInv, Tick
  PROVE  IInv' /\ \A f \in Events : Lasting(f)
<1>1. UNCHANGED <<sent, sending, reply, todo>>
  BY Zenon DEF Tick, dispatcher
<1>2. row' = [f \in Events |->
               [row[f] EXCEPT !.age = IF row[f].status = "dispatching" /\ @ < Lease THEN @ + 1 ELSE @,
                              !.wait = IF @ > 0 THEN @ - 1 ELSE @]]
  BY Zenon DEF Tick
<1>3. ASSUME NEW f \in Events PROVE RowInv(f)' /\ Lasting(f)
  <2>1. RowInv(f) /\ row[f] \in Rows
    BY Zenon DEF IInv, RowInv
  <2> DEFINE age == IF row[f].status = "dispatching" /\ row[f].age < Lease THEN row[f].age + 1 ELSE row[f].age
             wait == IF row[f].wait > 0 THEN row[f].wait - 1 ELSE row[f].wait
  <2>2. row'[f] = [row[f] EXCEPT !.age = age, !.wait = wait]
    BY <1>2, Zenon
  <2>3. age \in 0 .. Lease /\ wait \in 0 .. BackoffCap + 1
    BY <2>1, OutboxAssumption DEF Rows
  <2> HIDE DEF age, wait
  <2>4. row'[f] \in Rows /\ row'[f].status = row[f].status /\ row'[f].attempts = row[f].attempts
    BY <2>1, <2>2, <2>3, Zenon DEF Rows
  <2> QED BY <1>1, <2>1, <2>4, Zenon DEF RowInv, Lasting
<1>4. SentInv'
  BY <1>1, Zenon DEF IInv, SentInv
<1> QED BY <1>2, <1>3, <1>4, Zenon DEF IInv

(***************************************************************************)
(* Every step keeps the invariant and every final row.                     *)
(***************************************************************************)
LEMMA NextStep ==
  ASSUME IInv, [Next]_vars
  PROVE  IInv' /\ \A f \in Events : Lasting(f)
<1>1. ASSUME UNCHANGED <<row, sent>>, SentInv'
      PROVE  IInv' /\ \A f \in Events : Lasting(f)
  <2>1. sent' \in [Events -> Nat] /\ \A f \in Events : sent'[f] >= sent[f]
    BY <1>1 DEF IInv, SentInv
  <2> QED BY <1>1, <2>1, SameRows, Zenon DEF IInv
<1>2. ASSUME UNCHANGED <<row, sent, sending, reply, todo>>
      PROVE  IInv' /\ \A f \in Events : Lasting(f)
  BY <1>1, <1>2, Zenon DEF IInv, SentInv
<1>3. ASSUME NEW d \in Dispatchers, Stop(d)
      PROVE  IInv' /\ \A f \in Events : Lasting(f)
  BY <1>1, <1>3, DoneSending, Zenon DEF Stop
<1>4. CASE \E d \in Dispatchers : Stall(d)
  BY <1>2, <1>4, Zenon DEF Stall
<1>5. CASE XReadGroup \/ RedisLoss \/ UNCHANGED vars
  BY <1>2, <1>5, Zenon DEF XReadGroup, RedisLoss, dispatcher, vars
<1> QED BY <1>3, <1>4, <1>5, EnqueueStep, ClaimStep, DispatchStep, MarkStep, TickStep, Zenon DEF Next

(***************************************************************************)
(* The invariant of the outbox.                                            *)
(***************************************************************************)
THEOREM Invariance == Spec => []IInv
<1>1. Init => IInv
  <2> SUFFICES ASSUME Init PROVE IInv
    BY Zenon
  <2>1. \A e \in Events : RowInv(e)
    BY OutboxAssumption DEF Init, RowInv, Rows, Statuses
  <2> QED BY <2>1, Zenon DEF Init, IInv, SentInv
<1>2. IInv /\ [Next]_vars => IInv'
  BY NextStep, Zenon
<1> QED BY <1>1, <1>2, PTL DEF Spec

(***************************************************************************)
(* No job is marked dispatched without having been sent.                   *)
(***************************************************************************)
THEOREM DispatchedCorrect == Spec => []DispatchedWasSent
<1>1. IInv => DispatchedWasSent
  BY Zenon DEF IInv, RowInv, DispatchedWasSent
<1> QED BY <1>1, Invariance, PTL

(***************************************************************************)
(* No row ends where no dispatcher looks for it.                           *)
(***************************************************************************)
THEOREM NothingStrandsCorrect == Spec => []NothingStrands
<1>1. IInv => NothingStrands
  BY Zenon DEF IInv, RowInv, NothingStrands
<1> QED BY <1>1, Invariance, PTL

(***************************************************************************)
(* A late dispatcher does not change a dispatched or failed row.           *)
(***************************************************************************)
THEOREM FinalCorrect == Spec => FinalIsFinal
<1> DEFINE AllLast == \A e \in Events : Lasting(e)
<1>1. IInv /\ [Next]_vars => [AllLast]_vars
  BY NextStep, Zenon
<1> HIDE DEF AllLast
<1>2. Spec => [][AllLast]_vars
  BY <1>1, Invariance, PTL DEF Spec
<1> QED BY <1>2, Zenon DEF AllLast, Lasting, FinalIsFinal

-----------------------------------------------------------------------------
(***************************************************************************)
(* Duplicates.  An account is kept for every event: a send is paid for by  *)
(* the delivery that is due, by an attempt or by a fault.  What a stalled  *)
(* dispatcher may yet send without its lease is counted when it stalls.    *)
(***************************************************************************)
\* The dispatcher has the event in its batch.
Holds(d, e) == e \in todo[d] \/ sending[d] = e

\* The stalled dispatchers that may yet send the event without its lease, or lose the lease after sending it.
Reserved(e) == {d \in Dispatchers : slow[d] /\ (e \in todo[d] \/ (sending[d] = e /\ Owns(d, e)))}

\* The owner of the event's lease waits for the answer to its send.
Sender(e) == \E d \in Dispatchers : Owns(d, e) /\ sending[d] = e

\* The one send that needs no excuse: the row is dispatched or its owner waits for the answer.
Bonus(e) == IF row[e].status = "dispatched" \/ Sender(e) THEN 1 ELSE 0

\* What is true of dispatchers and leases: only a stalled dispatcher holds an event without its lease.
LeaseInv ==
  /\ slow \in [Dispatchers -> BOOLEAN] /\ faults \in Nat
  /\ \A d \in Dispatchers : slow[d] => Busy(d)
  /\ \A d \in Dispatchers : sending[d] \notin todo[d]
  /\ \A d \in Dispatchers, e \in Events : Holds(d, e) /\ ~slow[d] => Owns(d, e) /\ row[e].age < Lease

\* Every send of an event is the one that is due, or has an attempt or a fault to answer for it;
\* a stalled dispatcher's next one is counted in advance.
Accounted(e) ==
  /\ IsFiniteSet(Reserved(e))
  /\ sent[e] + Cardinality(Reserved(e)) <= row[e].attempts + faults + Bonus(e)

\* The sends of all events are accounted for.
CauseInv == \A e \in Events : Accounted(e)

\* What the counts are.
LEMMA Counts ==
  ASSUME IInv, LeaseInv, NEW e \in Events
  PROVE  sent[e] \in Nat /\ row[e].attempts \in Nat /\ faults \in Nat /\ Bonus(e) \in Nat /\ Bonus(e) <= 1
<1>1. row[e] \in Rows
  BY Zenon DEF IInv, RowInv
<1>2. row[e].attempts \in Nat
  BY <1>1, OutboxAssumption DEF Rows
<1> QED
  BY <1>2 DEF IInv, SentInv, LeaseInv, Bonus

\* A step that sends no more than it adds to the account keeps it.
LEMMA KeptAccount ==
  ASSUME IInv, LeaseInv, IInv', LeaseInv', NEW e \in Events, Accounted(e),
         Reserved(e)' \subseteq Reserved(e),
         sent'[e] + row[e].attempts + faults + Bonus(e) <= sent[e] + row'[e].attempts + faults' + Bonus(e)'
  PROVE  Accounted(e)'
<1>1. IsFiniteSet(Reserved(e)') /\ Cardinality(Reserved(e)') <= Cardinality(Reserved(e))
  BY FS_Subset, Zenon DEF Accounted
<1>2. Cardinality(Reserved(e)) \in Nat /\ Cardinality(Reserved(e)') \in Nat
  BY <1>1, FS_CardinalityType, Zenon DEF Accounted
<1>3. sent[e] \in Nat /\ row[e].attempts \in Nat /\ faults \in Nat /\ Bonus(e) \in Nat
  BY Counts, Zenon
<1>4. sent'[e] \in Nat /\ row'[e].attempts \in Nat /\ faults' \in Nat /\ Bonus(e)' \in Nat
  <2>1. (sent[e] \in Nat /\ row[e].attempts \in Nat /\ faults \in Nat /\ Bonus(e) \in Nat)'
    BY Counts, PTL
  <2> QED BY <2>1, Zenon
<1> HIDE DEF Bonus, Reserved
<1> QED
  BY <1>1, <1>2, <1>3, <1>4 DEF Accounted

\* A stalled dispatcher may spend what was counted in advance for it.
LEMMA SpentAccount ==
  ASSUME IInv, LeaseInv, IInv', LeaseInv', NEW e \in Events, Accounted(e), NEW d \in Reserved(e),
         Reserved(e)' \subseteq Reserved(e) \ {d},
         sent'[e] + row[e].attempts + faults + Bonus(e) <= sent[e] + row'[e].attempts + faults' + Bonus(e)' + 1
  PROVE  Accounted(e)'
<1>1. IsFiniteSet(Reserved(e) \ {d}) /\ Cardinality(Reserved(e) \ {d}) = Cardinality(Reserved(e)) - 1
  BY FS_RemoveElement, Zenon DEF Accounted
<1>2. IsFiniteSet(Reserved(e)') /\ Cardinality(Reserved(e)') <= Cardinality(Reserved(e) \ {d})
  BY <1>1, FS_Subset, Zenon
<1>3. Cardinality(Reserved(e)) \in Nat /\ Cardinality(Reserved(e)') \in Nat
  BY <1>2, FS_CardinalityType, Zenon DEF Accounted
<1>4. sent[e] \in Nat /\ row[e].attempts \in Nat /\ faults \in Nat /\ Bonus(e) \in Nat
  BY Counts, Zenon
<1>5. (sent[e] \in Nat /\ row[e].attempts \in Nat /\ faults \in Nat /\ Bonus(e) \in Nat)'
  BY Counts, PTL
<1> QED
  BY <1>1, <1>2, <1>3, <1>4, <1>5 DEF Accounted

\* A dispatcher that stalls is a fault, which pays for what it may yet send.
LEMMA StalledAccount ==
  ASSUME IInv, LeaseInv, IInv', LeaseInv', NEW e \in Events, Accounted(e), NEW d,
         Reserved(e)' \subseteq Reserved(e) \cup {d},
         sent'[e] = sent[e], row'[e] = row[e], faults' = faults + 1, Bonus(e)' = Bonus(e)
  PROVE  Accounted(e)'
<1>1. /\ IsFiniteSet(Reserved(e) \cup {d})
      /\ Cardinality(Reserved(e) \cup {d}) = Cardinality(Reserved(e)) \/ Cardinality(Reserved(e) \cup {d}) = Cardinality(Reserved(e)) + 1
  BY FS_AddElement, Zenon DEF Accounted
<1>2. IsFiniteSet(Reserved(e)') /\ Cardinality(Reserved(e)') <= Cardinality(Reserved(e) \cup {d})
  BY <1>1, FS_Subset, Zenon
<1>3. Cardinality(Reserved(e)) \in Nat /\ Cardinality(Reserved(e)') \in Nat
  BY <1>2, FS_CardinalityType, Zenon DEF Accounted
<1>4. sent[e] \in Nat /\ row[e].attempts \in Nat /\ faults \in Nat /\ Bonus(e) \in Nat
  BY Counts, Zenon
<1> QED
  BY <1>1, <1>2, <1>3, <1>4 DEF Accounted

\* Steps that touch no row's status, attempts or owner and nothing of the dispatchers.
LEMMA QuietKeeps ==
  ASSUME IInv, IInv', LeaseInv, LeaseInv', CauseInv, UNCHANGED <<sent, todo, sending, slow, faults>>,
         \A e \in Events : row'[e].attempts = row[e].attempts /\ row'[e].owner = row[e].owner
           /\ (row'[e].status = row[e].status \/ (row[e].status = "absent" /\ row'[e].status = "pending"))
  PROVE  CauseInv'
<1> SUFFICES ASSUME NEW e \in Events
             PROVE  Accounted(e)'
  BY Zenon DEF CauseInv
<1>1. Reserved(e)' \subseteq Reserved(e)
  BY Zenon DEF Reserved, Owns
<1>2. Bonus(e)' = Bonus(e)
  <2>1. \A d \in Dispatchers : Owns(d, e)' <=> Owns(d, e)
    BY Zenon DEF Owns
  <2> QED BY <2>1, Zenon DEF Bonus, Sender
<1>3. sent[e] \in Nat /\ row[e].attempts \in Nat /\ faults \in Nat /\ Bonus(e) \in Nat
  BY Counts, Zenon
<1> QED
  BY <1>1, <1>2, <1>3, KeptAccount DEF CauseInv

\* claim: a lease that ran out is counted as an attempt before another dispatcher sends.
LEMMA ClaimAccount ==
  ASSUME IInv, IInv', LeaseInv, CauseInv, NEW d \in Dispatchers, NEW batch \in SUBSET Events, claim(d, batch)
  PROVE  LeaseInv' /\ CauseInv'
<1>1. /\ ~Busy(d) /\ batch \subseteq Candidates
      /\ UNCHANGED <<sent, sending, slow, faults>> /\ todo' = [todo EXCEPT ![d] = batch]
      /\ \A c \in Dispatchers : todo'[c] = IF c = d THEN batch ELSE todo[c]
  BY Zenon DEF claim, IInv, SentInv
<1>2. /\ ~slow[d] /\ sending[d] = NoEvent /\ todo[d] = {}
      /\ \A e \in Events : sending[d] # e
  BY <1>1, OutboxAssumption, Zenon DEF LeaseInv, Busy
<1>3. ASSUME NEW e \in Events
      PROVE  /\ row'[e].attempts = row[e].attempts
             /\ e \in batch => /\ row'[e].status = "dispatching" /\ row'[e].owner = d /\ row'[e].age = 0
                               /\ row[e].status = "pending" \/ Stale(e)
             /\ e \notin batch /\ Stale(e) => row'[e].status = "pending"
             /\ e \notin batch /\ ~Stale(e) => row'[e] = row[e]
  <2>1. row'[e] = IF e \in batch
                  THEN [Requeued[e] EXCEPT !.status = "dispatching", !.owner = d, !.age = 0]
                  ELSE Requeued[e]
    BY Zenon DEF claim
  <2>2. row[e] \in Rows
    BY Zenon DEF IInv, RowInv
  <2>3. Requeued[e] = IF Stale(e) THEN [row[e] EXCEPT !.status = "pending", !.owner = Nobody] ELSE row[e]
    BY Zenon DEF Requeued
  <2>4. Requeued[e] \in Rows /\ Requeued[e].attempts = row[e].attempts /\ (Stale(e) => Requeued[e].status = "pending")
    BY <2>2, <2>3, Zenon DEF Rows, Statuses
  <2>5. e \in batch => Requeued[e].status = "pending"
    BY <1>1, Zenon DEF Candidates
  <2>6. e \in batch => row[e].status = "pending" \/ Stale(e)
    BY <2>3, <2>5, Zenon
  <2>7. e \in batch => row'[e].status = "dispatching" /\ row'[e].owner = d /\ row'[e].age = 0 /\ row'[e].attempts = row[e].attempts
    BY <2>1, <2>4, Zenon DEF Rows
  <2>8. e \notin batch => row'[e] = Requeued[e]
    BY <2>1, Zenon
  <2> QED
    BY <2>3, <2>4, <2>6, <2>7, <2>8, Zenon
<1>4. LeaseInv'
  <2>1. \A c \in Dispatchers : slow'[c] => Busy(c)'
    BY <1>1, <1>2, Zenon DEF LeaseInv, Busy
  <2>2. ASSUME NEW c \in Dispatchers, NEW e \in Events, Holds(c, e)', ~slow'[c]
        PROVE  Owns(c, e)' /\ row'[e].age < Lease
    <3>1. CASE c = d
      <4>1. e \in batch
        BY <1>1, <1>2, <2>2, <3>1, Zenon DEF Holds
      <4> QED
        BY <1>3, <3>1, <4>1, OutboxAssumption DEF Owns
    <3>2. CASE c # d
      <4>1. Holds(c, e) /\ ~slow[c]
        BY <1>1, <2>2, <3>2, Zenon DEF Holds
      <4>2. row[e].status = "dispatching" /\ row[e].owner = c /\ row[e].age < Lease
        BY <4>1, Zenon DEF LeaseInv, Owns
      <4>3. row[e] \in Rows
        BY Zenon DEF IInv, RowInv
      <4>4. ~Stale(e)
        BY <4>2, <4>3, OutboxAssumption DEF Stale, Rows
      <4>5. e \notin batch
        BY <1>3, <4>2, <4>4, Zenon
      <4> QED
        BY <1>3, <4>2, <4>4, <4>5, Zenon DEF Owns
    <3> QED BY <3>1, <3>2, Zenon
  <2>3. \A c \in Dispatchers : sending'[c] \notin todo'[c]
    BY <1>1, <1>2, OutboxAssumption, Zenon DEF LeaseInv
  <2> QED
    BY <1>1, <2>1, <2>2, <2>3, Zenon DEF LeaseInv
<1>5. ASSUME NEW e \in Events
      PROVE  Accounted(e)'
  <2>1. Reserved(e)' \subseteq Reserved(e)
    <3> SUFFICES ASSUME NEW c \in Reserved(e)'
                 PROVE  c \in Reserved(e)
      BY Zenon
    <3>1. c \in Dispatchers /\ slow[c] /\ c # d
      BY <1>1, <1>2, Zenon DEF Reserved
    <3>2. CASE e \in todo'[c]
      BY <1>1, <3>1, <3>2, Zenon DEF Reserved
    <3>3. CASE sending[c] = e /\ Owns(c, e)'
      <4>1. e \notin batch /\ ~Stale(e)
        BY <1>3, <3>1, <3>3, Zenon DEF Owns
      <4> QED
        BY <1>3, <3>1, <3>3, <4>1, Zenon DEF Reserved, Owns
    <3> QED
      BY <1>1, <3>2, <3>3, Zenon DEF Reserved
  <2>2. sent[e] \in Nat /\ row[e].attempts \in Nat /\ faults \in Nat /\ Bonus(e) \in Nat /\ Bonus(e) <= 1
    BY Counts, Zenon
  <2>3. (Bonus(e) \in Nat)'
    BY <1>4, Counts, PTL
  <2>4. CASE Bonus(e) = 0
    BY <1>1, <1>3, <1>4, <2>1, <2>2, <2>3, <2>4, KeptAccount DEF CauseInv
  <2>5. CASE row[e].status = "dispatched"
    <3>1. row'[e] = row[e]
      BY <1>3, <2>5, Zenon DEF Stale
    <3>2. Bonus(e)' = 1 /\ Bonus(e) = 1
      BY <2>5, <3>1, Zenon DEF Bonus
    <3> QED
      BY <1>1, <1>3, <1>4, <2>1, <2>2, <3>2, KeptAccount DEF CauseInv
  <2>6. CASE Sender(e) /\ ~Stale(e)
    <3>1. PICK c \in Dispatchers : Owns(c, e) /\ sending[c] = e
      BY <2>6, Zenon DEF Sender
    <3>2. row'[e] = row[e]
      BY <1>3, <2>6, <3>1, Zenon DEF Owns
    <3>3. Sender(e)'
      BY <1>1, <3>1, <3>2, Zenon DEF Sender, Owns
    <3>4. Bonus(e)' = 1 /\ Bonus(e) = 1
      BY <2>6, <3>3, Zenon DEF Bonus
    <3> QED
      BY <1>1, <1>3, <1>4, <2>1, <2>2, <3>4, KeptAccount DEF CauseInv
  <2>7. CASE Sender(e) /\ Stale(e)
    <3>1. PICK c \in Dispatchers : Owns(c, e) /\ sending[c] = e
      BY <2>7, Zenon DEF Sender
    <3>2. row[e].age = Lease
      BY <2>7, Zenon DEF Stale
    <3>3. slow[c]
      BY <3>1, <3>2, OutboxAssumption DEF LeaseInv, Holds
    <3>4. c \in Reserved(e) /\ c # d
      BY <1>2, <3>1, <3>3, Zenon DEF Reserved
    <3>5. CASE e \in todo[c]
      \* The event would be in the batch and in the hand of one dispatcher.
      BY <3>5, <3>1, Zenon DEF LeaseInv
    <3>6. CASE e \notin todo[c]
      <4>1. c \notin Reserved(e)'
        <5>1. ~Owns(c, e)'
          BY <1>3, <2>7, <3>4, Zenon DEF Owns
        <5> QED
          BY <1>1, <3>4, <3>6, <5>1, Zenon DEF Reserved
      <4> QED
        BY <1>1, <1>3, <1>4, <2>1, <2>2, <2>3, <3>4, <4>1, SpentAccount DEF CauseInv
    <3> QED BY <3>5, <3>6, Zenon
  <2> QED
    BY <2>2, <2>4, <2>5, <2>6, <2>7, Zenon DEF Bonus
<1> QED
  BY <1>4, <1>5, Zenon DEF CauseInv

\* dispatch: the owner's send is the one that is due, another's was counted when it stalled.
LEMMA DispatchAccount ==
  ASSUME IInv, IInv', LeaseInv, CauseInv, NEW d \in Dispatchers, NEW f \in Events, dispatch(d, f)
  PROVE  LeaseInv' /\ CauseInv'
<1>1. /\ sending[d] = NoEvent /\ f \in todo[d] /\ UNCHANGED <<row, slow, faults>>
      /\ \A c \in Dispatchers : /\ todo'[c] = IF c = d THEN todo[d] \ {f} ELSE todo[c]
                                /\ sending'[c] = IF c = d THEN f ELSE sending[c]
  BY Zenon DEF dispatch, IInv, SentInv
<1>2. /\ sent'[f] = sent[f] \/ sent'[f] = sent[f] + 1
      /\ \A e \in Events : e # f => sent'[e] = sent[e]
  BY Zenon DEF dispatch, IInv, SentInv
<1>3. f # NoEvent /\ \A e \in Events : e # NoEvent
  BY OutboxAssumption, Zenon
<1>4. LeaseInv'
  <2>1. \A c \in Dispatchers, e \in Events : Holds(c, e)' => Holds(c, e)
    BY <1>1, <1>3, Zenon DEF Holds
  <2>2. \A c \in Dispatchers, e \in Events : Owns(c, e)' <=> Owns(c, e)
    BY <1>1, Zenon DEF Owns
  <2>3. \A c \in Dispatchers : slow'[c] => Busy(c)'
    BY <1>1, <1>3, Zenon DEF LeaseInv, Busy
  <2> QED
    BY <1>1, <2>1, <2>2, <2>3, Zenon DEF LeaseInv
<1>5. ASSUME NEW e \in Events
      PROVE  Accounted(e)'
  <2>1. \A c \in Dispatchers : Owns(c, e)' <=> Owns(c, e)
    BY <1>1, Zenon DEF Owns
  <2>2. Reserved(e)' \subseteq Reserved(e)
    <3> SUFFICES ASSUME NEW c \in Reserved(e)'
                 PROVE  c \in Reserved(e)
      BY Zenon
    <3> QED
      BY <1>1, <2>1, Zenon DEF Reserved
  <2>3. sent[e] \in Nat /\ row[e].attempts \in Nat /\ faults \in Nat /\ Bonus(e) \in Nat /\ Bonus(e) <= 1
    BY Counts, Zenon
  <2>4. CASE e # f
    <3>1. Bonus(e)' = Bonus(e)
      <4>1. Sender(e)' <=> Sender(e)
        BY <1>1, <1>3, <2>1, <2>4, Zenon DEF Sender
      <4> QED BY <1>1, <4>1, Zenon DEF Bonus
    <3> QED
      BY <1>1, <1>2, <1>4, <2>2, <2>3, <2>4, <3>1, KeptAccount DEF CauseInv
  <2>5. CASE e = f /\ Owns(d, f)
    <3>1. Bonus(e)' = 1
      BY <1>1, <2>1, <2>5, Zenon DEF Bonus, Sender
    <3>2. Bonus(e) = 0
      <4>1. ~Sender(e)
        BY <1>1, <1>3, <2>5, Zenon DEF Sender, Owns
      <4> QED BY <2>5, <4>1, Zenon DEF Bonus, Owns
    <3> QED
      BY <1>1, <1>2, <1>4, <2>2, <2>3, <2>5, <3>1, <3>2, KeptAccount DEF CauseInv
  <2>6. CASE e = f /\ ~Owns(d, f)
    <3>1. slow[d]
      BY <1>1, <2>6, Zenon DEF LeaseInv, Holds
    <3>2. d \in Reserved(e)
      BY <1>1, <2>6, <3>1, Zenon DEF Reserved
    <3>3. d \notin Reserved(e)'
      BY <1>1, <2>1, <2>6, Zenon DEF Reserved
    <3>4. Bonus(e)' = Bonus(e)
      <4>1. Sender(e)' <=> Sender(e)
        BY <1>1, <1>3, <2>1, <2>6, Zenon DEF Sender
      <4> QED BY <1>1, <4>1, Zenon DEF Bonus
    <3> QED
      BY <1>1, <1>2, <1>4, <2>2, <2>3, <2>6, <3>2, <3>3, <3>4, SpentAccount DEF CauseInv
  <2> QED
    BY <2>4, <2>5, <2>6, Zenon
<1> QED
  BY <1>4, <1>5, Zenon DEF CauseInv

\* The end of an event or of a batch, seen from the events that are not being sent by the dispatcher.
LEMMA DoneKeepsLeases ==
  ASSUME IInv, LeaseInv, NEW d \in Dispatchers, Proceed(d) \/ Abandon(d), faults' \in Nat,
         \A e \in Events : e = sending[d] \/ row'[e] = row[e],
         row' = row \/ Owns(d, sending[d])
  PROVE  /\ LeaseInv'
         /\ \A c \in Dispatchers \ {d} : UNCHANGED <<todo[c], sending[c], slow[c]>>
         /\ todo'[d] \subseteq todo[d] /\ sending'[d] = NoEvent
         /\ slow'[d] => slow[d]
<1>1. /\ \A c \in Dispatchers \ {d} : todo'[c] = todo[c] /\ sending'[c] = sending[c] /\ slow'[c] = slow[c]
      /\ sending'[d] = NoEvent /\ slow' \in [Dispatchers -> BOOLEAN]
  BY Zenon DEF Proceed, Abandon, IInv, SentInv, LeaseInv
<1>2. \/ todo'[d] = todo[d] /\ (slow'[d] <=> slow[d] /\ todo[d] # {})
      \/ todo'[d] = {} /\ ~slow'[d]
  BY Zenon DEF Proceed, Abandon, IInv, SentInv, LeaseInv
<1>3. \A e \in Events : e # NoEvent
  BY OutboxAssumption, Zenon
<1>4. \A c \in Dispatchers : slow'[c] => Busy(c)'
  BY <1>1, <1>2, Zenon DEF LeaseInv, Busy
<1>5. \A c \in Dispatchers : sending'[c] \notin todo'[c]
  BY <1>1, <1>2, <1>3, Zenon DEF LeaseInv, IInv, SentInv
<1>6. ASSUME NEW c \in Dispatchers, NEW e \in Events, Holds(c, e)', ~slow'[c]
      PROVE  Owns(c, e)' /\ row'[e].age < Lease
  <2>1. CASE c = d
    <3>1. e \in todo[d] /\ ~slow[d] /\ e # sending[d]
      BY <1>1, <1>2, <1>3, <1>6, <2>1, Zenon DEF Holds, LeaseInv
    <3> QED
      BY <2>1, <3>1 DEF LeaseInv, Holds, Owns
  <2>2. CASE c # d
    <3>1. Holds(c, e) /\ ~slow[c]
      BY <1>1, <1>6, <2>2, Zenon DEF Holds
    <3>2. Owns(c, e) /\ row[e].age < Lease
      BY <3>1, Zenon DEF LeaseInv
    <3>3. row'[e] = row[e]
      BY <2>2, <3>2, Zenon DEF Owns
    <3> QED
      BY <3>2, <3>3, Zenon DEF Owns
  <2> QED BY <2>1, <2>2, Zenon
<1> QED
  BY <1>1, <1>2, <1>4, <1>5, <1>6, Zenon DEF LeaseInv

\* A dispatcher that is through with an event leaves the account of the others.
LEMMA DoneAccount ==
  ASSUME IInv, IInv', LeaseInv, LeaseInv', CauseInv, NEW d \in Dispatchers, UNCHANGED sent,
         \A c \in Dispatchers \ {d} : UNCHANGED <<todo[c], sending[c], slow[c]>>,
         todo'[d] \subseteq todo[d], sending'[d] = NoEvent, slow'[d] => slow[d],
         NEW e \in Events, row'[e] = row[e], faults' >= faults,
         Owns(d, e) /\ sending[d] = e => faults' = faults + 1
  PROVE  Accounted(e)'
<1>1. \A c \in Dispatchers : Owns(c, e)' <=> Owns(c, e)
  BY Zenon DEF Owns
<1>2. e # NoEvent
  BY OutboxAssumption, Zenon
<1>3. Reserved(e)' \subseteq Reserved(e)
  <2> SUFFICES ASSUME NEW c \in Reserved(e)'
               PROVE  c \in Reserved(e)
    BY Zenon
  <2>1. CASE c = d
    BY <1>1, <1>2, <2>1, Zenon DEF Reserved
  <2>2. CASE c # d
    BY <1>1, <2>2, Zenon DEF Reserved
  <2> QED BY <2>1, <2>2, Zenon
<1>4. sent[e] \in Nat /\ row[e].attempts \in Nat /\ faults \in Nat /\ Bonus(e) \in Nat /\ Bonus(e) <= 1
  BY Counts, Zenon
<1>5. faults' \in Nat
  BY Zenon DEF LeaseInv
<1>6. CASE Owns(d, e) /\ sending[d] = e
  <2>1. Bonus(e)' \in Nat
    BY Zenon DEF Bonus
  <2>2. sent'[e] + row[e].attempts + faults + Bonus(e) <= sent[e] + row'[e].attempts + faults' + Bonus(e)'
    BY <1>4, <1>5, <1>6, <2>1
  <2> QED
    BY <1>3, <2>2, KeptAccount, Zenon DEF CauseInv
<1>7. CASE ~(Owns(d, e) /\ sending[d] = e)
  <2>1. Sender(e)' <=> Sender(e)
    BY <1>1, <1>2, <1>7, Zenon DEF Sender
  <2>2. Bonus(e)' = Bonus(e)
    BY <2>1, Zenon DEF Bonus
  <2> QED
    BY <1>3, <1>4, <1>5, <2>2, KeptAccount DEF CauseInv
<1> QED
  BY <1>6, <1>7, Zenon

\* What markFailure writes.
LEMMA FailedRow ==
  ASSUME IInv, NEW d \in Dispatchers, markFailure(d), sending[d] \in Events
  PROVE  /\ row'[sending[d]].status # "dispatching"
         /\ row'[sending[d]].attempts = row[sending[d]].attempts + 1
<1> DEFINE e == sending[d]
           attempts == row[e].attempts + 1
           s == IF Exhausted(attempts) THEN "failed" ELSE "pending"
<1>1. PICK jitter \in {0, 1} :
        row' = [row EXCEPT ![e] = [row[e] EXCEPT !.attempts = attempts, !.status = s, !.owner = Nobody,
                                                 !.wait = Delay(attempts) + jitter]]
  BY Zenon DEF markFailure
<1>2. s # "dispatching"
  BY Zenon
<1>3. row'[e] = [row[e] EXCEPT !.attempts = attempts, !.status = s, !.owner = Nobody, !.wait = Delay(attempts) + jitter]
  BY <1>1, Zenon DEF IInv
<1>4. row[e] \in Rows
  BY Zenon DEF IInv, RowInv
<1> HIDE DEF s, attempts
<1>5. row'[e].status = s /\ row'[e].attempts = attempts
  BY <1>3, <1>4, Zenon DEF Rows
<1> QED
  BY <1>2, <1>5, Zenon DEF attempts

\* The row is marked dispatched, or failed with one more attempt, if the lease is still the dispatcher's.
LEMMA MarkAccount ==
  ASSUME IInv, IInv', LeaseInv, CauseInv, NEW d \in Dispatchers, Mark(d)
  PROVE  LeaseInv' /\ CauseInv'
<1> DEFINE f == sending[d]
<1>1. /\ UNCHANGED <<sent, faults>> /\ (Proceed(d) \/ Abandon(d))
      /\ \A e \in Events : e = f \/ row'[e] = row[e]
      /\ row' = row \/ Owns(d, f)
  BY Zenon DEF Mark, markDispatched, markFailure, leaseLost, Proceed, IInv
<1>2. /\ LeaseInv'
      /\ \A c \in Dispatchers \ {d} : UNCHANGED <<todo[c], sending[c], slow[c]>>
      /\ todo'[d] \subseteq todo[d] /\ sending'[d] = NoEvent
      /\ slow'[d] => slow[d]
  <2>1. faults' \in Nat
    BY <1>1, Zenon DEF LeaseInv
  <2> QED
    BY <1>1, <2>1, DoneKeepsLeases, Zenon
<1>3. faults \in Nat /\ faults' >= faults
  BY <1>1 DEF LeaseInv
<1>4. ASSUME NEW e \in Events
      PROVE  Accounted(e)'
  <2>1. CASE e # f \/ (row' = row /\ ~Owns(d, f))
    <3>1. row'[e] = row[e] /\ ~(Owns(d, e) /\ sending[d] = e)
      BY <1>1, <2>1, Zenon
    <3> HIDE DEF f
    <3> QED
      BY <1>1, <1>2, <1>3, <3>1, DoneAccount, Zenon
  <2>2. CASE e = f /\ Owns(d, f)
    <3>1. sent[e] \in Nat /\ row[e].attempts \in Nat /\ faults \in Nat /\ Bonus(e) \in Nat /\ Bonus(e) <= 1
      BY Counts, Zenon
    <3>2. (Bonus(e) \in Nat /\ row[e].attempts \in Nat)'
      BY <1>2, Counts, PTL
    <3>3. row[e] \in Rows
      BY Zenon DEF IInv, RowInv
    <3>4. Reserved(e)' \subseteq Reserved(e)
      <4>1. row'[e].status # "dispatching"
        <5>1. CASE markDispatched(d)
          BY <2>2, <3>3, <5>1, Zenon DEF markDispatched, IInv, Rows
        <5>2. CASE markFailure(d)
          <6>1. sending[d] \in Events /\ e = sending[d]
            BY <2>2, Zenon
          <6> HIDE DEF f
          <6> QED
            BY <5>2, <6>1, FailedRow, Zenon
        <5>3. ~leaseLost(d)
          BY <2>2, Zenon DEF leaseLost
        <5> QED BY <5>1, <5>2, <5>3, Zenon DEF Mark
      <4>2. \A c \in Dispatchers : ~Owns(c, e)'
        BY <4>1, Zenon DEF Owns
      <4> SUFFICES ASSUME NEW c \in Reserved(e)'
                   PROVE  c \in Reserved(e)
        BY Zenon
      <4>3. CASE c = d
        BY <1>2, <4>2, <4>3, Zenon DEF Reserved
      <4>4. CASE c # d
        BY <1>2, <4>2, <4>4, Zenon DEF Reserved
      <4> QED BY <4>3, <4>4, Zenon
    <3>5. CASE markDispatched(d)
      <4>1. row'[e] = [row[e] EXCEPT !.status = "dispatched", !.owner = Nobody]
        BY <2>2, <3>5, Zenon DEF markDispatched, IInv
      <4>2. row'[e].status = "dispatched" /\ row'[e].attempts = row[e].attempts
        BY <3>3, <4>1, Zenon DEF Rows
      <4>3. Bonus(e)' = 1
        BY <4>2, Zenon DEF Bonus
      <4> QED
        BY <1>1, <1>2, <3>1, <3>4, <4>2, <4>3, KeptAccount DEF CauseInv
    <3>6. CASE markFailure(d)
      <4>1. row'[e].attempts = row[e].attempts + 1
        <5>1. sending[d] \in Events /\ e = sending[d]
          BY <2>2, Zenon
        <5> HIDE DEF f
        <5> QED
          BY <3>6, <5>1, FailedRow, Zenon
      <4> QED
        BY <1>1, <1>2, <3>1, <3>2, <3>4, <4>1, KeptAccount DEF CauseInv
    <3>7. ~leaseLost(d)
      BY <2>2, Zenon DEF leaseLost
    <3> QED
      BY <3>5, <3>6, <3>7, Zenon DEF Mark
  <2> QED
    BY <1>1, <2>1, <2>2, Zenon
<1> QED
  BY <1>2, <1>4, Zenon DEF CauseInv

\* Every step keeps the account.
LEMMA AccountStep ==
  ASSUME IInv, LeaseInv, CauseInv, [Next]_vars
  PROVE  LeaseInv' /\ CauseInv'
<1>0. IInv'
  BY NextStep, Zenon
<1>1. ASSUME NEW e \in Events, EnqueueTx(e)
      PROVE  LeaseInv' /\ CauseInv'
  <2>1. UNCHANGED <<sent, todo, sending, slow, faults>> /\ row[e].status = "absent"
        /\ row' = [row EXCEPT ![e].status = "pending"]
    BY <1>1, Zenon DEF EnqueueTx, dispatcher
  <2>2. \A f \in Events : f # e => row'[f] = row[f]
    BY <2>1, Zenon DEF IInv
  <2>3. row[e] \in Rows /\ row'[e] = [row[e] EXCEPT !.status = "pending"]
    BY <2>1, Zenon DEF IInv, RowInv
  <2>4. row'[e].status = "pending" /\ row'[e].attempts = row[e].attempts /\ row'[e].owner = row[e].owner
    BY <2>3, Zenon DEF Rows
  <2>5. \A c \in Dispatchers, f \in Events : Owns(c, f) => f # e
    BY <2>1, Zenon DEF Owns
  <2>6. LeaseInv'
    <3>1. \A c \in Dispatchers, f \in Events : Owns(c, f) => Owns(c, f)' /\ row'[f].age = row[f].age
      BY <2>2, <2>5, Zenon DEF Owns
    <3> QED
      BY <2>1, <3>1, Zenon DEF LeaseInv, Holds, Busy
  <2> QED
    BY <1>0, <2>1, <2>2, <2>4, <2>6, QuietKeeps, Zenon
<1>2. ASSUME NEW d \in Dispatchers, Stop(d)
      PROVE  LeaseInv' /\ CauseInv'
  <2>1. UNCHANGED <<row, sent>> /\ faults' = faults + 1 /\ Abandon(d)
    BY <1>2, Zenon DEF Stop
  <2>2. faults \in Nat /\ faults' \in Nat /\ faults' >= faults
    BY <2>1 DEF LeaseInv
  <2>3. /\ LeaseInv'
        /\ \A c \in Dispatchers \ {d} : UNCHANGED <<todo[c], sending[c], slow[c]>>
        /\ todo'[d] \subseteq todo[d] /\ sending'[d] = NoEvent
        /\ slow'[d] => slow[d]
    BY <2>1, <2>2, DoneKeepsLeases, Zenon
  <2>4. \A e \in Events : Accounted(e)'
    BY <1>0, <2>1, <2>2, <2>3, DoneAccount, Zenon
  <2> QED
    BY <2>3, <2>4, Zenon DEF CauseInv
<1>3. ASSUME NEW d \in Dispatchers, Stall(d)
      PROVE  LeaseInv' /\ CauseInv'
  <2>1. /\ UNCHANGED <<row, sent, todo, sending>> /\ faults' = faults + 1 /\ Busy(d)
        /\ \A c \in Dispatchers : slow'[c] = IF c = d THEN TRUE ELSE slow[c]
        /\ slow' \in [Dispatchers -> BOOLEAN]
    BY <1>3, Zenon DEF Stall, LeaseInv
  <2>2. LeaseInv'
    <3>1. \A c \in Dispatchers : slow'[c] => Busy(c)'
      BY <2>1, Zenon DEF LeaseInv, Busy
    <3>2. \A c \in Dispatchers, e \in Events : Holds(c, e)' /\ ~slow'[c] => Owns(c, e)' /\ row'[e].age < Lease
      BY <2>1, ZenonT(40) DEF LeaseInv, Holds, Owns
    <3> QED
      BY <2>1, <3>1, <3>2 DEF LeaseInv
  <2>3. ASSUME NEW e \in Events
        PROVE  Accounted(e)'
    <3>1. Reserved(e)' \subseteq Reserved(e) \cup {d}
      BY <2>1, Zenon DEF Reserved, Owns
    <3>2. Bonus(e)' = Bonus(e)
      BY <2>1, Zenon DEF Bonus, Sender, Owns
    <3> QED
      BY <1>0, <2>1, <2>2, <3>1, <3>2, StalledAccount, Zenon DEF CauseInv
  <2> QED
    BY <2>2, <2>3, Zenon DEF CauseInv
<1>4. CASE Tick
  <2>1. UNCHANGED <<sent, todo, sending, slow, faults>>
    BY <1>4, Zenon DEF Tick, dispatcher
  <2>2. ASSUME NEW e \in Events
        PROVE  /\ row'[e].attempts = row[e].attempts /\ row'[e].owner = row[e].owner /\ row'[e].status = row[e].status
               /\ row'[e].age <= row[e].age + 1 /\ row[e].age \in Int /\ row'[e].age \in Int
    <3>1. row[e] \in Rows
      BY Zenon DEF IInv, RowInv
    <3> DEFINE age == IF row[e].status = "dispatching" /\ row[e].age < Lease THEN row[e].age + 1 ELSE row[e].age
               wait == IF row[e].wait > 0 THEN row[e].wait - 1 ELSE row[e].wait
    <3>2. row'[e] = [row[e] EXCEPT !.age = age, !.wait = wait]
      BY <1>4, Zenon DEF Tick
    <3>3. row[e].age \in Int
      BY <3>1, OutboxAssumption DEF Rows
    <3>4. age \in Int /\ age <= row[e].age + 1
      BY <3>3
    <3> HIDE DEF age, wait
    <3> QED
      BY <3>1, <3>2, <3>3, <3>4, Zenon DEF Rows
  <2>3. LeaseInv'
    <3>1. ASSUME NEW d \in Dispatchers, NEW e \in Events, Holds(d, e)', ~slow'[d]
          PROVE  Owns(d, e)' /\ row'[e].age < Lease
      <4>1. Holds(d, e) /\ ~slow[d] /\ Owns(d, e) /\ Busy(d)
        BY <2>1, <3>1, OutboxAssumption, Zenon DEF Holds, LeaseInv, Busy
      <4>2. row[e].age + 1 < Lease
        BY <1>4, <4>1, Zenon DEF Tick, InTime
      <4> QED
        BY <2>2, <4>1, <4>2, OutboxAssumption DEF Owns
    <3> QED
      BY <2>1, <3>1, Zenon DEF LeaseInv, Busy
  <2> QED
    BY <1>0, <2>1, <2>2, <2>3, QuietKeeps, Zenon
<1>5. CASE XReadGroup \/ RedisLoss \/ UNCHANGED vars
  <2>1. UNCHANGED <<row, sent, todo, sending, slow, faults>>
    BY <1>5, Zenon DEF XReadGroup, RedisLoss, dispatcher, vars
  <2>2. LeaseInv'
    BY <2>1, Zenon DEF LeaseInv, Holds, Owns, Busy
  <2> QED
    BY <1>0, <2>1, <2>2, QuietKeeps, Zenon
<1> QED
  BY <1>0, <1>1, <1>2, <1>3, <1>4, <1>5, ClaimAccount, DispatchAccount, MarkAccount, Zenon DEF Next

\* Every send of an event but one has a cause of its own: an attempt that failed, or a dispatcher that
\* crashed or stalled.
THEOREM DuplicatesCorrect == Spec => []DuplicatesHaveACause
<1>1. Init => LeaseInv /\ CauseInv
  <2> SUFFICES ASSUME Init PROVE LeaseInv /\ CauseInv
    BY Zenon
  <2>1. LeaseInv
    BY OutboxAssumption, Zenon DEF Init, LeaseInv, Holds, Busy
  <2>2. ASSUME NEW e \in Events
        PROVE  Accounted(e)
    <3>1. Reserved(e) = {}
      BY Zenon DEF Init, Reserved
    <3>2. IsFiniteSet(Reserved(e)) /\ Cardinality(Reserved(e)) = 0
      BY <3>1, FS_EmptySet, Zenon
    <3>3. sent[e] = 0 /\ row[e].attempts = 0 /\ faults = 0 /\ Bonus(e) = 0
      BY OutboxAssumption, Zenon DEF Init, Bonus, Sender, Owns
    <3> QED
      BY <3>2, <3>3 DEF Accounted
  <2> QED
    BY <2>1, <2>2, Zenon DEF CauseInv
<1>2. IInv /\ LeaseInv /\ CauseInv /\ [Next]_vars => LeaseInv' /\ CauseInv'
  BY AccountStep, Zenon
<1>3. IInv /\ LeaseInv /\ CauseInv => DuplicatesHaveACause
  <2> SUFFICES ASSUME IInv, LeaseInv, CauseInv, NEW e \in Events
               PROVE  sent[e] <= 1 + row[e].attempts + faults
    BY Zenon DEF DuplicatesHaveACause
  <2>1. Accounted(e) /\ Cardinality(Reserved(e)) \in Nat
    BY FS_CardinalityType, Zenon DEF CauseInv, Accounted
  <2> QED
    BY <2>1, Counts DEF Accounted
<1> QED
  BY <1>1, <1>2, <1>3, Invariance, PTL DEF Spec

-----------------------------------------------------------------------------
(***************************************************************************)
(* AuditChain: ChainIsLinear speaks of committed entries only and is not   *)
(* inductive: AuditInv extends it to the entries of the transaction that   *)
(* holds the lock, whose predecessors may be its own.                      *)
(***************************************************************************)
IdsAreUnique == \A a, b \in auditLog : a.id = b.id => a = b

\* The advisory lock: all open entries are of one transaction.
OneOpenWriter == \A a, b \in auditLog : a.done \/ b.done \/ a.by = b.by

\* A committed entry follows a committed one.
PredecessorsAreThere ==
  \A e \in auditLog : e.prev = Root \/ \E x \in auditLog : x.id = e.prev /\ (e.done => x.done)

ForksAreLate ==
  \A a, b \in auditLog : a # b /\ a.prev = b.prev =>
    \E x \in auditLog : x.id = a.prev /\ (a.at <= x.at \/ b.at <= x.at)

AuditInv ==
  /\ AuditTypeOK
  /\ IdsAreUnique
  /\ OneOpenWriter
  /\ PredecessorsAreThere
  /\ ForksAreLate

-----------------------------------------------------------------------------
\* With the lock in hand a writer sees the whole log.
LEMMA LockSeesAll ==
  ASSUME NEW w, ChainLockFree(w)
  PROVE  Visible(w) = auditLog
BY Zenon DEF ChainLockFree, Visible

\* AppendTx keeps the invariant: the entry it names is the newest of the log, so
\* that an entry that already named it is no later.
LEMMA AppendKeeps ==
  ASSUME AuditInv, NEW w \in Writers, NEW id \in AuditIds, NEW lag \in 0 .. AuditSkew,
         NEW last \in AuditIds \cup {Root}, AppendTx(w, id, lag, last)
  PROVE  AuditInv'
<1> DEFINE e == [id |-> id, at |-> auditTime - lag, prev |-> last, by |-> w, done |-> FALSE]
<1>1. auditLog' = auditLog \cup {e} /\ auditTime' = auditTime /\ lag <= auditTime
  BY Zenon DEF AppendTx
<1>2. e \in Entries /\ e.id = id /\ e.prev = last /\ e.by = w /\ e.done = FALSE
  BY <1>1, AuditAssumption, SMTT(30) DEF Entries, AuditInv, AuditTypeOK
<1>3. \A f \in auditLog : f.id # id
  BY Zenon DEF AppendTx
<1>4. \A f \in auditLog : f \in Entries
  BY Zenon DEF AuditInv, AuditTypeOK
<1>5. \/ auditLog = {} /\ last = Root
      \/ \E f \in auditLog : f.id = last /\ \A g \in auditLog : NotAfter(g, f)
  BY LockSeesAll, Zenon DEF AppendTx, IsNewest
<1> HIDE DEF e
<1>6. AuditTypeOK'
  BY <1>1, <1>2, Zenon DEF AuditInv, AuditTypeOK
<1>7. IdsAreUnique'
  BY <1>1, <1>2, <1>3, Zenon DEF AuditInv, IdsAreUnique
<1>8. OneOpenWriter'
  BY <1>1, <1>2, Zenon DEF AuditInv, OneOpenWriter, AppendTx, ChainLockFree
<1>9. PredecessorsAreThere'
  <2>1. ASSUME NEW f \in auditLog
        PROVE  f.prev = Root \/ \E x \in auditLog' : x.id = f.prev /\ (f.done => x.done)
    BY <1>1, Zenon DEF AuditInv, PredecessorsAreThere
  <2>2. e.prev = Root \/ \E x \in auditLog' : x.id = e.prev /\ (e.done => x.done)
    BY <1>1, <1>2, <1>5, Zenon
  <2> QED
    BY <1>1, <2>1, <2>2, Zenon DEF PredecessorsAreThere
<1>10. ForksAreLate'
  <2>1. ASSUME NEW f \in auditLog, f.prev = e.prev
        PROVE  \E x \in auditLog : x.id = e.prev /\ f.at <= x.at
    <3>1. PICK x \in auditLog : x.id = last /\ \A g \in auditLog : NotAfter(g, x)
      BY <1>5, Zenon
    <3>2. f.at <= x.at
      BY <3>1, <1>4, AuditAssumption, SMTT(30) DEF NotAfter, Entries
    <3> QED
      BY <3>1, <3>2, <1>2, Zenon
  <2>2. ASSUME NEW a \in auditLog', NEW b \in auditLog', a # b, a.prev = b.prev
        PROVE  \E x \in auditLog' : x.id = a.prev /\ (a.at <= x.at \/ b.at <= x.at)
    <3>1. CASE a \in auditLog /\ b \in auditLog
      BY <3>1, <2>2, <1>1, Zenon DEF AuditInv, ForksAreLate
    <3>2. CASE a = e /\ b \in auditLog
      BY <3>2, <2>1, <2>2, <1>1, Zenon
    <3>3. CASE b = e /\ a \in auditLog
      BY <3>3, <2>1, <2>2, <1>1, Zenon
    <3> QED
      BY <3>1, <3>2, <3>3, <2>2, <1>1, Zenon
  <2> QED
    BY <2>2, Zenon DEF ForksAreLate
<1> QED
  BY <1>6, <1>7, <1>8, <1>9, <1>10, Zenon DEF AuditInv

\* CommitEntries keeps the invariant: it only closes entries.
LEMMA CommitKeeps ==
  ASSUME AuditInv, NEW w \in Writers, CommitEntries(w)
  PROVE  AuditInv'
<1> DEFINE Closed(e) == [e EXCEPT !.done = TRUE]
<1>1. ASSUME NEW e \in auditLog
      PROVE  /\ Closed(e) \in Entries
             /\ Closed(e).id = e.id /\ Closed(e).at = e.at /\ Closed(e).prev = e.prev /\ Closed(e).done
  BY Zenon DEF AuditInv, AuditTypeOK, Entries
<1>2. PICK o \in auditLog : o.by = w /\ ~o.done
  BY Zenon DEF CommitEntries
<1>3. \A e \in auditLog : e.done \/ e.by = w
  BY <1>2, Zenon DEF AuditInv, OneOpenWriter
<1>4. ASSUME NEW e \in auditLog, e.done
      PROVE  Closed(e) = e
  BY <1>4, Zenon DEF AuditInv, AuditTypeOK, Entries
<1>5. auditLog' = {Closed(e) : e \in auditLog}
  <2>1. auditLog' = {e \in auditLog : e.done \/ e.by # w} \cup {Closed(e) : e \in {f \in auditLog : f.by = w}}
    BY Zenon DEF CommitEntries
  <2> HIDE DEF Closed
  <2> QED
    BY <2>1, <1>3, <1>4, Zenon
<1> HIDE DEF Closed
<1>6. AuditTypeOK'
  BY <1>1, <1>5, Zenon DEF AuditInv, AuditTypeOK, CommitEntries
<1>7. IdsAreUnique'
  BY <1>1, <1>5 DEF AuditInv, IdsAreUnique
<1>8. OneOpenWriter'
  BY <1>1, <1>5, Zenon DEF OneOpenWriter
<1>9. PredecessorsAreThere'
  BY <1>1, <1>5 DEF AuditInv, PredecessorsAreThere
<1>10. ForksAreLate'
  <2>1. ASSUME NEW a \in auditLog, NEW b \in auditLog, Closed(a) # Closed(b), Closed(a).prev = Closed(b).prev
        PROVE  \E x \in auditLog' : x.id = Closed(a).prev /\ (Closed(a).at <= x.at \/ Closed(b).at <= x.at)
    <3>1. a # b /\ a.prev = b.prev
      BY <1>1, <2>1, Zenon
    <3>2. PICK x \in auditLog : x.id = a.prev /\ (a.at <= x.at \/ b.at <= x.at)
      BY <3>1, Zenon DEF AuditInv, ForksAreLate
    <3>3. Closed(x) \in auditLog'
      BY <1>5, Zenon
    <3> QED
      BY <3>2, <3>3, <1>1, Zenon
  <2> QED
    BY <2>1, <1>5 DEF ForksAreLate
<1> QED
  BY <1>6, <1>7, <1>8, <1>9, <1>10, Zenon DEF AuditInv

\* RollbackEntries keeps the invariant: no committed entry follows one it removes.
LEMMA RollbackKeeps ==
  ASSUME AuditInv, NEW w \in Writers, RollbackEntries(w)
  PROVE  AuditInv'
<1>1. PICK o \in auditLog : o.by = w /\ ~o.done
  BY Zenon DEF RollbackEntries
<1>2. \A e \in auditLog : e.done \/ e.by = w
  BY <1>1, Zenon DEF AuditInv, OneOpenWriter
<1>3. auditLog' = {e \in auditLog : e.done}
  BY <1>2, Zenon DEF RollbackEntries
<1>4. AuditTypeOK'
  BY <1>3, Zenon DEF AuditInv, AuditTypeOK, RollbackEntries
<1>5. IdsAreUnique' /\ OneOpenWriter'
  BY <1>3, Zenon DEF AuditInv, IdsAreUnique, OneOpenWriter
<1>6. PredecessorsAreThere'
  BY <1>3, Zenon DEF AuditInv, PredecessorsAreThere
<1>7. ForksAreLate'
  <2>1. ASSUME NEW a \in auditLog', NEW b \in auditLog', a # b, a.prev = b.prev
        PROVE  \E x \in auditLog' : x.id = a.prev /\ (a.at <= x.at \/ b.at <= x.at)
    <3>1. PICK x \in auditLog : x.id = a.prev /\ (a.at <= x.at \/ b.at <= x.at)
      BY <2>1, <1>3, Zenon DEF AuditInv, ForksAreLate
    <3>2. x.id # Root
      BY AuditAssumption, Zenon DEF AuditInv, AuditTypeOK, Entries
    <3>3. x.done
      BY <2>1, <1>3, <3>1, <3>2 DEF AuditInv, PredecessorsAreThere, IdsAreUnique
    <3> QED
      BY <3>1, <3>3, <1>3, Zenon
  <2> QED
    BY <2>1, Zenon DEF ForksAreLate
<1> QED
  BY <1>4, <1>5, <1>6, <1>7, Zenon DEF AuditInv

\* Every step keeps the invariant.
LEMMA AuditStep == AuditInv /\ [AuditNext]_auditVars => AuditInv'
<1> SUFFICES ASSUME AuditInv, [AuditNext]_auditVars PROVE AuditInv'
  BY Zenon
<1>1. CASE AuditTick
  BY <1>1, AuditAssumption
  DEF AuditTick, AuditInv, AuditTypeOK, IdsAreUnique, OneOpenWriter, PredecessorsAreThere, ForksAreLate
<1>2. CASE UNCHANGED auditVars
  BY <1>2, Zenon
  DEF auditVars, AuditInv, AuditTypeOK, IdsAreUnique, OneOpenWriter, PredecessorsAreThere, ForksAreLate
<1> QED
  BY <1>1, <1>2, AppendKeeps, CommitKeeps, RollbackKeeps, Zenon DEF AuditNext

\* What the invariant says of the committed entries.
LEMMA AuditInvImplies == AuditInv => ChainIsLinear
<1> SUFFICES ASSUME AuditInv PROVE ChainIsLinear
  BY Zenon
<1> DEFINE committed == {e \in auditLog : e.done}
<1>1. ASSUME NEW e \in committed
      PROVE  e.prev = Root \/ \E x \in committed : x.id = e.prev
  BY Zenon DEF AuditInv, PredecessorsAreThere
<1>2. ASSUME NEW a \in committed, NEW b \in committed, a # b, a.prev = b.prev
      PROVE  \E x \in committed : x.id = a.prev /\ (a.at <= x.at \/ b.at <= x.at)
  <2>1. PICK x \in auditLog : x.id = a.prev /\ (a.at <= x.at \/ b.at <= x.at)
    BY <1>2, Zenon DEF AuditInv, ForksAreLate
  <2>2. x.id # Root
    BY AuditAssumption, Zenon DEF AuditInv, AuditTypeOK, Entries
  <2>3. x.done
    BY <1>1, <2>1, <2>2, Zenon DEF AuditInv, IdsAreUnique
  <2> QED
    BY <2>1, <2>3, Zenon
<1> QED
  BY <1>1, <1>2, Zenon DEF ChainIsLinear

-----------------------------------------------------------------------------
(***************************************************************************)
(* The audit log is one chain of committed entries, with a fork only where *)
(* a clock lags, however many processes append and roll back.              *)
(***************************************************************************)
THEOREM ChainCorrect == AuditSpec => []ChainIsLinear
<1>1. AuditInit => AuditInv
  BY AuditAssumption
  DEF AuditInit, AuditInv, AuditTypeOK, IdsAreUnique, OneOpenWriter, PredecessorsAreThere, ForksAreLate
<1> QED
  BY <1>1, AuditStep, AuditInvImplies, PTL DEF AuditSpec
=============================================================================
