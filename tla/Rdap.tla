-------------------------------- MODULE Rdap --------------------------------
(***************************************************************************)
(* Registration data: rdap.Service.Check and the client it uses.  A check  *)
(* replies from the newest stored result, or gets the bootstrap registry   *)
(* (from its cache, from IANA, or stale), asks the registry of the domain  *)
(* and stores what came of it.  Checks run concurrently in one process and *)
(* share its rate limiter: waitForRateSlot lets go of its mutex to wait.   *)
(*                                                                         *)
(* A request is tried twice.  One answer stands for all that mean the same *)
(* to get: "again" for a network error, a 5xx or a 429 with Retry-After.   *)
(***************************************************************************)
EXTENDS Naturals, FiniteSets

CONSTANTS
  Checks,       \* concurrent calls of Check, for one domain
  MinInterval,  \* of the rate limiter
  BootstrapTTL, BootstrapMaxStale, DomainTTL,
  MaxRows,      \* bound on stored results
  RdapHorizon   \* bound on time

\* The configuration refuses a BootstrapMaxStale below BootstrapTTL.
ASSUME RdapAssumption ==
  /\ MinInterval \in Nat \ {0} /\ BootstrapTTL \in Nat /\ BootstrapMaxStale \in Nat
  /\ DomainTTL \in Nat /\ MaxRows \in Nat /\ RdapHorizon \in Nat
  /\ BootstrapTTL <= BootstrapMaxStale

VARIABLES
  rdapTime,
  lastRequest,  \* per host: the time the limiter recorded, or Never
  cache,        \* rdap_bootstrap_cache: fetched_at and expires_at
  check,        \* per call: where it is and what it has read
  rows,         \* rdap_checks
  starts,       \* when the last requests asked for their slot and when they got it
  replies       \* replies from stored results: the row, the time, the rows then

rdapVars == <<rdapTime, lastRequest, cache, check, rows, starts, replies>>

Hosts == {"iana", "registry"}
Never == 0
RdapTimes == 0 .. RdapHorizon + BootstrapTTL + DomainTTL
NoCache == [fetched |-> Never, expires |-> Never]
IdleCheck == [phase |-> "idle", host |-> "iana", now |-> 0, read |-> NoCache,
              attempt |-> 0, arrived |-> 0, wake |-> 0, age |-> 0, stale |-> FALSE]
CheckPhases == {"idle", "waiting", "asking", "failed", "found"}
Result == [by : Checks, checked : RdapTimes, known : 0 .. 8, until : RdapTimes, age : RdapTimes, stale : BOOLEAN]

RdapTypeOK ==
  /\ rdapTime \in 1 .. RdapHorizon
  /\ lastRequest \in [Hosts -> RdapTimes]
  /\ cache \in [fetched : RdapTimes, expires : RdapTimes]
  /\ check \in [Checks -> [phase : CheckPhases, host : Hosts, now : RdapTimes,
                           read : [fetched : RdapTimes, expires : RdapTimes], attempt : {0, 1},
                           arrived : RdapTimes, wake : RdapTimes, age : RdapTimes, stale : BOOLEAN]]
  /\ rows \subseteq Result
  /\ starts \subseteq [host : Hosts, arrived : RdapTimes, at : RdapTimes]
  /\ replies \subseteq [row : Result, at : RdapTimes, rows : SUBSET Result]

RdapInit ==
  /\ rdapTime = 1
  /\ lastRequest = [h \in Hosts |-> Never]
  /\ cache = NoCache
  /\ check = [c \in Checks |-> IdleCheck]
  /\ rows = {} /\ starts = {} /\ replies = {}

-----------------------------------------------------------------------------
(* waitForRateSlot: the first locked section, and the one after the wait.  *)

SlotIsFree(h) == lastRequest[h] = Never \/ rdapTime >= lastRequest[h] + MinInterval

\* Starts an interval ago are forgotten: no later one can be too close to them.
Started(h, arrived) ==
  {s \in starts : s.at + MinInterval > rdapTime} \cup {[host |-> h, arrived |-> arrived, at |-> rdapTime]}

\* What a call becomes that wants to send a request to host h.
AskForSlot(c, h, call) ==
  /\ check' = [check EXCEPT ![c] =
       IF SlotIsFree(h)
       THEN [call EXCEPT !.phase = "asking", !.host = h, !.attempt = 0]
       ELSE [call EXCEPT !.phase = "waiting", !.host = h, !.attempt = 0,
                         !.arrived = rdapTime, !.wake = lastRequest[h] + MinInterval]]
  /\ lastRequest' = IF SlotIsFree(h) THEN [lastRequest EXCEPT ![h] = rdapTime] ELSE lastRequest
  /\ starts' = IF SlotIsFree(h) THEN Started(h, rdapTime) ELSE starts

NotRecorded(h) == lastRequest
Recorded(h) == [lastRequest EXCEPT ![h] = rdapTime]

SlotComes(c) ==
  LET h == check[c].host IN
  /\ check[c].phase = "waiting" /\ rdapTime >= check[c].wake
  /\ lastRequest' = Recorded(h)
  /\ starts' = Started(h, check[c].arrived)
  /\ check' = [check EXCEPT ![c] = [@ EXCEPT !.phase = "asking", !.arrived = 0, !.wake = 0]]
  /\ UNCHANGED <<rdapTime, cache, rows, replies>>

\* What persist stores of a call.
LookupResult(call, phase) ==
  [IdleCheck EXCEPT !.phase = phase, !.now = call.now, !.age = call.age, !.stale = call.stale]

\* ResolveBase: the request goes to the registry of the domain's TLD, if the
\* bootstrap registry lists one.
AskRegistry(c, call, listed) ==
  IF listed
  THEN AskForSlot(c, "registry", [call EXCEPT !.read = NoCache])
  ELSE /\ check' = [check EXCEPT ![c] = LookupResult(call, "failed")]
       /\ UNCHANGED <<lastRequest, starts>>

-----------------------------------------------------------------------------
(* Check                                                                   *)

\* ORDER BY checked_at DESC
Latest == {r \in rows : \A q \in rows : q.checked <= r.checked}

Cacheable(r) == r.until > rdapTime /\ r.known > 0

AnswerFromStore(r) ==
  /\ r \in Latest /\ Cacheable(r)
  /\ replies' = {[row |-> r, at |-> rdapTime, rows |-> rows]}
  /\ replies' # replies
  /\ UNCHANGED <<rdapTime, lastRequest, cache, check, rows, starts>>

\* A call that is forced, or whose newest result cannot be used, reads the cache of
\* the bootstrap registry and asks IANA if that has expired.
StartCheck(c, force, listed) ==
  LET call == [IdleCheck EXCEPT !.now = rdapTime, !.read = cache] IN
  /\ check[c].phase = "idle"
  /\ Cardinality(rows) < MaxRows
  /\ force \/ rows = {} \/ \E r \in Latest : ~Cacheable(r)
  /\ IF cache.expires > rdapTime
     THEN AskRegistry(c, [call EXCEPT !.age = rdapTime - cache.fetched], listed)
     ELSE AskForSlot(c, "iana", call)
  /\ UNCHANGED <<rdapTime, cache, rows, replies>>

AskAgain(c) ==
  /\ check[c].phase = "asking" /\ check[c].attempt = 0
  /\ check' = [check EXCEPT ![c].attempt = 1]
  /\ UNCHANGED <<rdapTime, lastRequest, cache, rows, starts, replies>>

\* A new payload, or 304 for the one that is stored.
BootstrapFetched(c, listed) ==
  /\ check[c].phase = "asking" /\ check[c].host = "iana"
  /\ cache' = [fetched |-> check[c].now, expires |-> check[c].now + BootstrapTTL]
  /\ AskRegistry(c, check[c], listed)
  /\ UNCHANGED <<rdapTime, rows, replies>>

AnyStored(call) == call.read # NoCache
StaleEnough(call) == call.read # NoCache /\ call.now - call.read.fetched <= BootstrapMaxStale

\* IANA does not answer: the payload read at the start serves if it is not too old.
BootstrapFails(c, listed) ==
  /\ check[c].phase = "asking" /\ check[c].host = "iana"
  /\ IF StaleEnough(check[c])
     THEN AskRegistry(c, [check[c] EXCEPT !.stale = TRUE, !.age = check[c].now - check[c].read.fetched],
                      listed)
     ELSE /\ check' = [check EXCEPT ![c] = LookupResult(@, "failed")]
          /\ UNCHANGED <<lastRequest, starts>>
  /\ UNCHANGED <<rdapTime, cache, rows, replies>>

\* A payload that lists no registry for "com" is an error, stale payload or not.
BootstrapInvalid(c) ==
  /\ check[c].phase = "asking" /\ check[c].host = "iana"
  /\ check' = [check EXCEPT ![c] = LookupResult(@, "failed")]
  /\ UNCHANGED <<rdapTime, lastRequest, cache, rows, starts, replies>>

RegistryAnswers(c) ==
  /\ check[c].phase = "asking" /\ check[c].host = "registry"
  /\ \E phase \in {"found", "failed"} : check' = [check EXCEPT ![c] = LookupResult(@, phase)]
  /\ UNCHANGED <<rdapTime, lastRequest, cache, rows, starts, replies>>

\* completeness: of eight fields, none known makes the result unavailable, though it
\* is stored with cache_until.  A failure is stored without.
Persist(c, known) ==
  LET call == check[c] IN
  /\ call.phase \in {"found", "failed"}
  /\ call.phase = "failed" => known = 0
  /\ rows' = rows \cup
       {[by |-> c, checked |-> call.now, known |-> known,
         until |-> IF call.phase = "found" THEN call.now + DomainTTL ELSE Never,
         age |-> call.age, stale |-> call.stale]}
  /\ check' = [check EXCEPT ![c] = IdleCheck]
  /\ UNCHANGED <<rdapTime, lastRequest, cache, starts, replies>>

\* The client goes away: its context ends every wait and the transaction of
\* persist, so that nothing is stored.
AbandonCheck(c) ==
  /\ check[c].phase # "idle"
  /\ check' = [check EXCEPT ![c] = IdleCheck]
  /\ UNCHANGED <<rdapTime, lastRequest, cache, rows, starts, replies>>

RdapTick ==
  /\ rdapTime < RdapHorizon
  /\ rdapTime' = rdapTime + 1
  /\ UNCHANGED <<lastRequest, cache, check, rows, starts, replies>>

RdapNext ==
  \/ \E r \in rows : AnswerFromStore(r)
  \/ \E c \in Checks :
       \/ \E force, listed \in BOOLEAN : StartCheck(c, force, listed)
       \/ SlotComes(c) \/ AskAgain(c) \/ AbandonCheck(c)
       \/ \E listed \in BOOLEAN : BootstrapFetched(c, listed) \/ BootstrapFails(c, listed)
       \/ BootstrapInvalid(c) \/ RegistryAnswers(c)
       \/ \E known \in {0, 4} : Persist(c, known)
  \/ RdapTick

RdapSpec == RdapInit /\ [][RdapNext]_rdapVars

-----------------------------------------------------------------------------
(***************************************************************************)
(* What the rate limiter guarantees: two requests to a host start less     *)
(* than MinInterval apart only if the later one was waiting already when   *)
(* the earlier one started (several waiters are let go at once); one that  *)
(* comes later keeps the distance.                                         *)
(***************************************************************************)
NewcomersKeepDistance ==
  \A a, b \in starts :
    a.host = b.host /\ a.at < b.arrived => b.at >= a.at + MinInterval

(***************************************************************************)
(* No result rests on a bootstrap registry that was confirmed longer ago   *)
(* than BootstrapMaxStale, or than BootstrapTTL if it is not marked stale, *)
(* whatever other checks did to the cache while this one waited.           *)
(***************************************************************************)
BootstrapIsRecent ==
  \A r \in rows : r.age <= BootstrapMaxStale /\ (r.stale \/ r.age <= BootstrapTTL)
=============================================================================
