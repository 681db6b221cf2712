------------------------------- MODULE Outbox -------------------------------
(***************************************************************************)
(* The transactional outbox (job_outbox, queue.EnqueueTx), its dispatchers *)
(* (queue.Dispatcher, one per scheduler process) and the Redis stream they *)
(* fill.  RunOnce claims a batch in one transaction, then sends and marks  *)
(* its events one by one; another dispatcher, the clock or a crash may     *)
(* come between any two of these steps.                                    *)
(*                                                                         *)
(* The consumer group is reduced to its read position: what happens to an  *)
(* entry after it was read is the subject of RunExecution.                 *)
(***************************************************************************)
EXTENDS Naturals, Sequences, FiniteSets

CONSTANTS
  Events,       \* outbox rows
  Dispatchers,  \* scheduler processes
  BatchSize,    \* OUTBOX_BATCH_SIZE
  MaxAttempts,  \* OUTBOX_MAX_ATTEMPTS
  Lease,        \* OUTBOX_LEASE, in ticks
  BackoffCap,   \* the 300 seconds of markFailure, in ticks
  MaxStream,    \* Dispatcher.maxStream
  MaxFaults,    \* bound on crashes, failed calls and stalls of dispatchers
  MaxLosses     \* bound on losses of the Redis data

Nobody == "nobody"
NoEvent == "no event"

ASSUME OutboxAssumption ==
  /\ Nobody \notin Dispatchers /\ NoEvent \notin Events
  /\ BatchSize \in Nat \ {0} /\ MaxAttempts \in Nat \ {0} /\ Lease \in Nat \ {0}
  /\ BackoffCap \in Nat \ {0} /\ MaxStream \in Nat \ {0}
  /\ MaxFaults \in Nat /\ MaxLosses \in Nat

VARIABLES
  row,      \* job_outbox
  sent,     \* how often an event was added to the stream
  stream,   \* the entries of the Redis stream, by event
  read,     \* how many of them the consumer group has read
  received, \* the events it has read at least once
  todo,     \* per dispatcher: the claimed events it has yet to send
  sending,  \* the event it is sending ...
  reply,    \* ... and what XADD answered
  slow,     \* the dispatcher is stalled
  faults, losses

vars == <<row, sent, stream, read, received, todo, sending, reply, slow, faults, losses>>

Final == {"dispatched", "failed"}

Statuses == {"absent", "pending", "dispatching"} \cup Final

Rows ==
  [ status   : Statuses,
    attempts : 0 .. MaxAttempts,
    owner    : Dispatchers \cup {Nobody},  \* locked_by
    age      : 0 .. Lease,                 \* since locked_at
    wait     : 0 .. BackoffCap + 1 ]       \* until available_at

TypeOK ==
  /\ row \in [Events -> Rows]
  /\ sent \in [Events -> Nat]
  /\ stream \in Seq(Events)
  /\ read \in 0 .. Len(stream)
  /\ received \in SUBSET Events
  /\ todo \in [Dispatchers -> SUBSET Events]
  /\ sending \in [Dispatchers -> Events \cup {NoEvent}]
  /\ reply \in [Dispatchers -> {"none", "ok", "error"}]
  /\ slow \in [Dispatchers -> BOOLEAN]
  /\ faults \in 0 .. MaxFaults
  /\ losses \in 0 .. MaxLosses

Init ==
  /\ row = [e \in Events |-> [status |-> "absent", attempts |-> 0, owner |-> Nobody,
                              age |-> 0, wait |-> 0]]
  /\ sent = [e \in Events |-> 0]
  /\ stream = <<>> /\ read = 0 /\ received = {}
  /\ todo = [d \in Dispatchers |-> {}]
  /\ sending = [d \in Dispatchers |-> NoEvent]
  /\ reply = [d \in Dispatchers |-> "none"]
  /\ slow = [d \in Dispatchers |-> FALSE]
  /\ faults = 0 /\ losses = 0

Busy(d) == todo[d] # {} \/ sending[d] # NoEvent
Smaller(m, n) == IF m < n THEN m ELSE n
redis == <<stream, read, received, losses>>
dispatcher == <<todo, sending, reply, slow, faults>>

\* A transaction commits a run and its outbox row together.
EnqueueTx(e) ==
  /\ row[e].status = "absent"
  /\ row' = [row EXCEPT ![e].status = "pending"]
  /\ UNCHANGED <<sent, redis, dispatcher>>

-----------------------------------------------------------------------------
(* RunOnce: claim, then dispatch and mark each event of the batch.         *)

StaleNever(e) == FALSE
StaleAlways(e) == row[e].status = "dispatching"
Stale(e) == row[e].status = "dispatching" /\ row[e].age = Lease

Requeued ==
  [e \in Events |->
     IF Stale(e) THEN [row[e] EXCEPT !.status = "pending", !.owner = Nobody] ELSE row[e]]

Candidates ==
  {e \in Events : /\ Requeued[e].status = "pending"
                  /\ Requeued[e].wait = 0
                  /\ Requeued[e].attempts < MaxAttempts}

claim(d, batch) ==
  /\ ~Busy(d)
  /\ batch \subseteq Candidates
  /\ Cardinality(batch) = Smaller(BatchSize, Cardinality(Candidates))
  /\ row' = [e \in Events |->
               IF e \in batch
               THEN [Requeued[e] EXCEPT !.status = "dispatching", !.owner = d, !.age = 0]
               ELSE Requeued[e]]
  /\ todo' = [todo EXCEPT ![d] = batch]
  /\ UNCHANGED <<sent, redis, sending, reply, slow, faults>>

\* XADD with MAXLEN ~: the oldest entries may go, read or not.
XAdd(e) ==
  LET grown == Append(stream, e)
      over == IF Len(grown) > MaxStream THEN Len(grown) - MaxStream ELSE 0
  IN \E cut \in {0, over} :
       /\ stream' = SubSeq(grown, cut + 1, Len(grown))
       /\ read' = IF read > cut THEN read - cut ELSE 0

\* The entry is added and XADD answers, or the answer is lost, or it is not added.
dispatch(d, e) ==
  /\ sending[d] = NoEvent
  /\ e \in todo[d]
  /\ todo' = [todo EXCEPT ![d] = @ \ {e}]
  /\ sending' = [sending EXCEPT ![d] = e]
  /\ \/ /\ XAdd(e)
        /\ sent' = [sent EXCEPT ![e] = @ + 1]
        /\ \E answer \in {"ok", "error"} : reply' = [reply EXCEPT ![d] = answer]
     \/ /\ reply' = [reply EXCEPT ![d] = "error"]
        /\ UNCHANGED <<sent, stream, read>>
  /\ UNCHANGED <<row, received, losses, slow, faults>>

\* WHERE status = 'dispatching' AND locked_by = workerID
Owns(d, e) == row[e].status = "dispatching" /\ row[e].owner = d

\* The event is done with; the batch goes on.
Proceed(d) ==
  /\ sending' = [sending EXCEPT ![d] = NoEvent]
  /\ reply' = [reply EXCEPT ![d] = "none"]
  /\ slow' = [slow EXCEPT ![d] = @ /\ todo[d] # {}]
  /\ UNCHANGED <<todo, faults>>

\* RunOnce returns: what is left of the batch waits for the lease to expire.
Abandon(d) ==
  /\ todo' = [todo EXCEPT ![d] = {}]
  /\ sending' = [sending EXCEPT ![d] = NoEvent]
  /\ reply' = [reply EXCEPT ![d] = "none"]
  /\ slow' = [slow EXCEPT ![d] = FALSE]

XAddOk(d) == reply[d] = "ok"

markDispatched(d) ==
  LET e == sending[d] IN
  /\ XAddOk(d)
  /\ Owns(d, e)
  /\ row' = [row EXCEPT ![e] = [row[e] EXCEPT !.status = "dispatched", !.owner = Nobody]]
  /\ Proceed(d)
  /\ UNCHANGED <<sent, redis>>

\* LEAST(300, power(2, attempts)) seconds
Delay(attempts) == IF 2 ^ attempts \in 0 .. BackoffCap THEN 2 ^ attempts ELSE BackoffCap

Exhausted(attempts) == attempts >= MaxAttempts

markFailure(d) ==
  LET e == sending[d]
      attempts == row[e].attempts + 1
  IN
  /\ reply[d] = "error"
  /\ Owns(d, e)
  /\ \E jitter \in {0, 1} :
       row' = [row EXCEPT ![e] =
                 [row[e] EXCEPT !.attempts = attempts,
                                !.status = IF Exhausted(attempts) THEN "failed" ELSE "pending",
                                !.owner = Nobody,
                                !.wait = Delay(attempts) + jitter]]
  /\ Proceed(d)
  /\ UNCHANGED <<sent, redis>>

\* The UPDATE of either mark finds no row: the lease was lost.
leaseLost(d) ==
  /\ sending[d] # NoEvent
  /\ ~Owns(d, sending[d])
  /\ Abandon(d)
  /\ UNCHANGED <<row, sent, redis, faults>>

Mark(d) == markDispatched(d) \/ markFailure(d) \/ leaseLost(d)

-----------------------------------------------------------------------------
(* The consumer group, faults and time.                                    *)

XReadGroup ==
  /\ read < Len(stream)
  /\ read' = read + 1
  /\ received' = received \cup {stream[read + 1]}
  /\ UNCHANGED <<row, sent, stream, losses, dispatcher>>

\* The process stops, or a database call fails.
Stop(d) ==
  /\ faults < MaxFaults
  /\ Busy(d)
  /\ faults' = faults + 1
  /\ Abandon(d)
  /\ UNCHANGED <<row, sent, redis>>

\* The process pauses long enough for its leases to expire.
Stall(d) ==
  /\ faults < MaxFaults
  /\ Busy(d) /\ ~slow[d]
  /\ faults' = faults + 1
  /\ slow' = [slow EXCEPT ![d] = TRUE]
  /\ UNCHANGED <<row, sent, redis, todo, sending, reply>>

RedisLoss ==
  /\ losses < MaxLosses
  /\ losses' = losses + 1
  /\ stream' = <<>> /\ read' = 0
  /\ UNCHANGED <<row, sent, received, dispatcher>>

\* A dispatcher that is not stalled is done with a batch before its lease ends.
InTime(d) == Busy(d) => slow[d] \/ \A e \in Events : Owns(d, e) => row[e].age + 1 < Lease

Tick ==
  /\ \A d \in Dispatchers : InTime(d)
  /\ row' = [e \in Events |->
               [row[e] EXCEPT !.age = IF row[e].status = "dispatching" /\ @ < Lease THEN @ + 1 ELSE @,
                              !.wait = IF @ > 0 THEN @ - 1 ELSE @]]
  /\ UNCHANGED <<sent, redis, dispatcher>>

Next ==
  \/ \E e \in Events : EnqueueTx(e)
  \/ \E d \in Dispatchers, batch \in SUBSET Events : claim(d, batch)
  \/ \E d \in Dispatchers, e \in Events : dispatch(d, e)
  \/ \E d \in Dispatchers : Mark(d) \/ Stop(d) \/ Stall(d)
  \/ XReadGroup
  \/ RedisLoss
  \/ Tick

Spec == Init /\ [][Next]_vars

(***************************************************************************)
(* Fairness: the clock runs, the scheduler's loop goes on, consumers read, *)
(* and, because claim takes the rows that have been available longest, a   *)
(* row that is a candidate again and again is claimed.                     *)
(***************************************************************************)
Fairness ==
  /\ WF_vars(Tick)
  /\ WF_vars(XReadGroup)
  /\ \A d \in Dispatchers : WF_vars(Mark(d) \/ \E e \in Events : dispatch(d, e))
  /\ \A e \in Events :
       SF_vars(\E d \in Dispatchers, batch \in SUBSET Events : e \in batch /\ claim(d, batch))

FairSpec == Spec /\ Fairness

-----------------------------------------------------------------------------
(***************************************************************************)
(* A job is marked dispatched only if it really is in the stream, even     *)
(* when the dispatcher that marks it lost and regained its lease.          *)
(***************************************************************************)
DispatchedWasSent == \A e \in Events : row[e].status = "dispatched" => sent[e] > 0

(***************************************************************************)
(* No row is left where no dispatcher looks: a pending row still has       *)
(* attempts, since claim skips rows without, and a failed row used all.    *)
(***************************************************************************)
NothingStrands ==
  \A e \in Events : /\ row[e].status \in {"pending", "dispatching"} => row[e].attempts < MaxAttempts
                    /\ row[e].status = "failed" => row[e].attempts = MaxAttempts

(***************************************************************************)
(* A dispatcher that wakes up after its lease expired cannot undo what     *)
(* another one has recorded: a dispatched or failed row never changes.     *)
(***************************************************************************)
FinalIsFinal ==
  [][ \A e \in Events : row[e].status \in Final =>
        row'[e].status = row[e].status /\ row'[e].attempts = row[e].attempts ]_vars

(***************************************************************************)
(* Delivery is at least once, and every duplicate has a cause: an XADD     *)
(* whose reply was an error, or a dispatcher that crashed or stalled.      *)
(***************************************************************************)
DuplicatesHaveACause == \A e \in Events : sent[e] <= 1 + row[e].attempts + faults

(***************************************************************************)
(* Every job is read by a consumer or given up after all attempts, unless  *)
(* its entry was removed unread, by a loss of Redis or by XADD's MAXLEN.   *)
(***************************************************************************)
Unread == {stream[i] : i \in read + 1 .. Len(stream)}

Handled(e) == e \in received \/ row[e].status = "failed"

RemovedUnread(e) == sent[e] > 0 /\ e \notin Unread \cup received

JobsAreHandedOver ==
  \A e \in Events : row[e].status = "pending" ~> Handled(e) \/ RemovedUnread(e)

(***************************************************************************)
(* ARCHITECTURE.md: Redis may be lost without losing jobs, because the     *)
(* outbox can send them again.  Every job is handled.  It is not: a row    *)
(* marked dispatched is never sent again.                                  *)
(***************************************************************************)
JobsReachWorkers == \A e \in Events : row[e].status = "pending" ~> Handled(e)
=============================================================================
