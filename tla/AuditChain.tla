----------------------------- MODULE AuditChain -----------------------------
(***************************************************************************)
(* The audit log and its hash chain: audit.Store.AppendTx, called inside   *)
(* the transaction of the change it records, by every process.  AppendTx   *)
(* takes an advisory lock that the transaction holds until it ends, reads  *)
(* the entry that is newest by (created_at, id), and inserts an entry that *)
(* names it as its predecessor and carries the time of the process's own   *)
(* clock.  The hashes are abstract: an entry's hash is its id.             *)
(***************************************************************************)
EXTENDS Naturals, FiniteSets

CONSTANTS
  Writers,       \* processes with a transaction
  AuditIds,      \* uuids
  Root,          \* the predecessor of the first entry: an empty hash
  AuditHorizon,  \* bound on time
  AuditSkew      \* how far the clock of a process may lag

ASSUME AuditAssumption ==
  /\ AuditIds \subseteq Nat /\ Root \notin AuditIds
  /\ AuditHorizon \in Nat /\ AuditSkew \in Nat

VARIABLES
  auditTime,
  auditLog   \* the entries, those of open transactions (~done) included

auditVars == <<auditTime, auditLog>>

Entries ==
  [id : AuditIds, at : 0 .. AuditHorizon, prev : AuditIds \cup {Root}, by : Writers, done : BOOLEAN]

AuditTypeOK == auditTime \in 0 .. AuditHorizon /\ auditLog \subseteq Entries

AuditInit == auditTime = 0 /\ auditLog = {}

-----------------------------------------------------------------------------
\* pg_advisory_xact_lock: held since the transaction's first entry.
LockIgnored(w) == TRUE
ChainLockFree(w) == \A e \in auditLog : e.done \/ e.by = w

Visible(w) == {e \in auditLog : e.done \/ e.by = w}

\* ORDER BY created_at DESC, id DESC
NotAfter(e, f) == e.at < f.at \/ (e.at = f.at /\ e.id <= f.id)

IsNewest(last, seen) ==
  \/ seen = {} /\ last = Root
  \/ \E f \in seen : f.id = last /\ \A e \in seen : NotAfter(e, f)

AppendTx(w, id, lag, last) ==
  /\ ChainLockFree(w)
  /\ IsNewest(last, Visible(w))
  /\ \A e \in auditLog : e.id # id
  /\ lag <= auditTime
  /\ auditLog' = auditLog \cup
       {[id |-> id, at |-> auditTime - lag, prev |-> last, by |-> w, done |-> FALSE]}
  /\ UNCHANGED auditTime

CommitEntries(w) ==
  /\ \E e \in auditLog : e.by = w /\ ~e.done
  /\ auditLog' = {e \in auditLog : e.done \/ e.by # w}
                   \cup {[e EXCEPT !.done = TRUE] : e \in {f \in auditLog : f.by = w}}
  /\ UNCHANGED auditTime

RollbackEntries(w) ==
  /\ \E e \in auditLog : e.by = w /\ ~e.done
  /\ auditLog' = {e \in auditLog : e.done \/ e.by # w}
  /\ UNCHANGED auditTime

AuditTick ==
  /\ auditTime < AuditHorizon
  /\ auditTime' = auditTime + 1
  /\ UNCHANGED auditLog

AuditNext ==
  \/ \E w \in Writers, id \in AuditIds, lag \in 0 .. AuditSkew, last \in AuditIds \cup {Root} :
       AppendTx(w, id, lag, last)
  \/ \E w \in Writers : CommitEntries(w) \/ RollbackEntries(w)
  \/ AuditTick

AuditSpec == AuditInit /\ [][AuditNext]_auditVars

-----------------------------------------------------------------------------
(***************************************************************************)
(* The committed entries are one chain wherever the clocks allow it: every *)
(* predecessor is a committed entry, one entry has none, and two entries   *)
(* share a predecessor only if one of them is stamped no later than that   *)
(* predecessor, which takes a clock that lags or a clock too coarse.       *)
(***************************************************************************)
ChainIsLinear ==
  LET committed == {e \in auditLog : e.done} IN
  /\ \A e \in committed : e.prev = Root \/ \E x \in committed : x.id = e.prev
  /\ \A a, b \in committed : a # b /\ a.prev = b.prev =>
       \E x \in committed : x.id = a.prev /\ (a.at <= x.at \/ b.at <= x.at)
=============================================================================
