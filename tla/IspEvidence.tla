----------------------------- MODULE IspEvidence -----------------------------
(***************************************************************************)
(* The ISP status of one domain (probe.SubmitResult, loadISPInput and      *)
(* ispclass.Classify).  Local runs leave results; the result of a remote   *)
(* probe for one of those runs is judged against all recent evidence, in   *)
(* the transaction that stores it.  Evidence counts for EvidenceFresh, and *)
(* repeated failures must fall in different buckets of time.               *)
(***************************************************************************)
EXTENDS Naturals, FiniteSets

CONSTANTS
  LocalKinds,     \* what a local run can find
  RemoteBodies,   \* body hashes a remote probe can find
  EvidenceFresh,  \* PROBE_EVIDENCE_FRESH
  Bucket,         \* five minutes
  MaxLocal,       \* bound on local results
  MaxRemote,      \* bound on remote results
  IspHorizon

ASSUME IspEvidenceAssumption ==
  /\ LocalKinds \subseteq [availability : {"ACTIVE", "DEGRADED", "UNAVAILABLE", "UNKNOWN"}, manual : BOOLEAN, discrepancy : BOOLEAN,
                           status : Nat, pinned : {"none", "ACTIVE", "UNAVAILABLE"}, stage : {"", "tcp", "http"}, doh : {"", "ip1", "ip2"}]
  /\ RemoteBodies # {}
  /\ EvidenceFresh \in Nat /\ Bucket \in Nat \ {0} /\ MaxLocal \in Nat /\ MaxRemote \in Nat /\ IspHorizon \in Nat

VARIABLES
  ispTime,
  localResults,    \* results of local runs
  remoteResults,   \* results of remote probes
  isp       \* domains.current_isp_status

ispVars == <<ispTime, localResults, remoteResults, isp>>

LocalRows == [run : 1 .. MaxLocal, at : 0 .. IspHorizon, found : LocalKinds]
RemoteRows == [id : 1 .. MaxRemote, run : 1 .. MaxLocal, at : 0 .. IspHorizon, active : BOOLEAN, body : RemoteBodies]

IspTypeOK ==
  /\ ispTime \in 0 .. IspHorizon
  /\ localResults \subseteq LocalRows /\ remoteResults \subseteq RemoteRows
  /\ isp \in {"UNKNOWN", "NOT_DETECTED", "SUSPECTED", "HIGH_CONFIDENCE_BLOCK"}

IspInit == ispTime = 0 /\ localResults = {} /\ remoteResults = {} /\ isp = "UNKNOWN"

-----------------------------------------------------------------------------
FreshOf(rows, now) == {r \in rows : r.at + EvidenceFresh >= now}

AllFailures(rows, now) == {r \in FreshOf(rows, now) : r.found.availability = "UNAVAILABLE"}
\* Failures of runs nobody asked for.
QualifyingFailures(rows, now) ==
  {r \in FreshOf(rows, now) : r.found.availability = "UNAVAILABLE" /\ ~r.found.manual}
BucketsOf(rows) == {r.at \div Bucket : r \in rows}

\* Results with an answer over HTTPS, of whatever trigger and outcome.
DohSets(rows, now) == {r \in FreshOf(rows, now) : r.found.doh # ""}
DohStable(rows, now) ==
  Cardinality(DohSets(rows, now)) >= 2 /\ Cardinality({r.found.doh : r \in DohSets(rows, now)}) = 1

Successes(rows, now) == {r \in FreshOf(rows, now) : r.active}
HashStable(rows, now) ==
  Cardinality(Successes(rows, now)) >= 2 /\ Cardinality({r.body : r \in Successes(rows, now)}) = 1

\* ispclass.Classify; the evidence of the run itself in found, of the domain in rows.
ClassifyISP(found, active, healthy, locals, remotes, now) ==
  LET failures == QualifyingFailures(locals, now) IN
  IF found.availability = "ACTIVE" THEN "NOT_DETECTED"
  ELSE IF ~healthy \/ ~active THEN "UNKNOWN"
  ELSE IF found.pinned = "ACTIVE" /\ found.discrepancy THEN "SUSPECTED"
  ELSE IF found.status \in {451, 403, 429} THEN "UNKNOWN"
  ELSE IF Cardinality(failures) < 3 \/ Cardinality(BucketsOf(failures)) < 2 THEN "SUSPECTED"
  ELSE IF ~HashStable(remotes, now) THEN "SUSPECTED"
  ELSE IF ~DohStable(locals, now) THEN "UNKNOWN"
  ELSE IF found.stage = "" THEN "SUSPECTED"
  ELSE "HIGH_CONFIDENCE_BLOCK"

\* CompleteRun stores a local result; it leaves the ISP status alone.
LocalResult(kind) ==
  /\ Cardinality(localResults) < MaxLocal
  /\ localResults' = localResults \cup {[run |-> Cardinality(localResults) + 1, at |-> ispTime, found |-> kind]}
  /\ UNCHANGED <<ispTime, remoteResults, isp>>

\* SubmitResult, the part after the checks of the envelope and the job; several probes may judge a run.
RemoteResult(l, active, body, healthy) ==
  LET row == [id |-> Cardinality(remoteResults) + 1, run |-> l.run, at |-> ispTime, active |-> active, body |-> body] IN
  /\ Cardinality(remoteResults) < MaxRemote
  /\ remoteResults' = remoteResults \cup {row}
  /\ isp' = ClassifyISP(l.found, active, healthy, localResults, remoteResults \cup {row}, ispTime)
  /\ UNCHANGED <<ispTime, localResults>>

IspTick == ispTime < IspHorizon /\ ispTime' = ispTime + 1 /\ UNCHANGED <<localResults, remoteResults, isp>>

IspNext ==
  \/ \E kind \in LocalKinds : LocalResult(kind)
  \/ \E l \in localResults, active, healthy \in BOOLEAN : \E body \in IF active THEN RemoteBodies ELSE {CHOOSE b \in RemoteBodies : TRUE} :
       RemoteResult(l, active, body, healthy)
  \/ IspTick

IspSpec == IspInit /\ [][IspNext]_ispVars

-----------------------------------------------------------------------------
\* Judged now, on the local results and the remote ones with the new one.
Backed ==
  LET recent == {r \in localResults : ispTime - r.at <= EvidenceFresh}
      failed == {r \in recent : ~r.found.manual /\ r.found.availability = "UNAVAILABLE"}
      succeeded == {r \in remoteResults' : ispTime - r.at <= EvidenceFresh /\ r.active}
  IN /\ \E a, b, c \in failed : Cardinality({a.run, b.run, c.run}) = 3 /\ a.at # b.at
     /\ \E a, b \in succeeded : a # b
     /\ \A a, b \in succeeded : a.body = b.body
     /\ \A a, b \in recent : a.found.doh # "" /\ b.found.doh # "" => a.found.doh = b.found.doh

(***************************************************************************)
(* A domain becomes a HIGH_CONFIDENCE_BLOCK only on fresh evidence of all  *)
(* kinds: three unrequested local failures not all of one moment, two      *)
(* remote successes with one body and no other, and answers over HTTPS     *)
(* that were the same throughout.                                          *)
(***************************************************************************)
BlockIsBacked == [][isp' = "HIGH_CONFIDENCE_BLOCK" /\ isp # isp' => Backed]_ispVars
=============================================================================
