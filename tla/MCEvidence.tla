----------------------------- MODULE MCEvidence ------------------------------
(***************************************************************************)
(* The way from evidence to the state of a domain, for TLC: the HTTP check *)
(* with the verdicts Classify draws from it, the DNS check, the jobs of    *)
(* remote probes, the judgement of remote evidence, the effective state    *)
(* that verdicts move, and the uptime computed from its history.  They     *)
(* share no variable; a behaviour follows one of them, named by part.      *)
(***************************************************************************)
EXTENDS EffectiveState, Classification, IspEvidence, UptimeHistory

CONSTANTS Probes, Runs, Schedulers, JobTTL, JobLease, StaleAfter, Batch, MaxAttempts

VARIABLES part, node, fresh, done, job, results, pass, revoking, poll, agent, inflight

Remote == INSTANCE RemoteProbe
remoteVars == <<node, fresh, done, job, results, pass, revoking, poll, agent, inflight>>

Address(value, spelt) == [type |-> "A", value |-> value, spelt |-> spelt]
Resolved(value, spelt) == Outcome("NOERROR", "none", {Address(value, spelt)})
NotThere == Outcome("NXDOMAIN", "DNS_NXDOMAIN", {})
TooLate == Outcome("none", "DNS_TIMEOUT", {})

MCRecords == {Address("x", "plain")}
MCResolverResults ==
  {{ResultOf("A", 1, Resolved("x", "plain")), ResultOf("NS", 1, Resolved("x", "plain"))},
   {ResultOf("A", 1, TooLate), ResultOf("A", 2, Resolved("x", "odd")), ResultOf("NS", 1, TooLate)},
   {ResultOf("A", 1, Resolved("y", "plain")), ResultOf("NS", 1, NotThere)},
   {ResultOf("A", 1, TooLate), ResultOf("A", 2, TooLate), ResultOf("NS", 1, TooLate)},
   {ResultOf("A", 1, NotThere), ResultOf("NS", 1, NotThere)}}

Found(availability, manual, discrepancy, status, pinned, stage, doh) ==
  [availability |-> availability, manual |-> manual, discrepancy |-> discrepancy, status |-> status,
   pinned |-> pinned, stage |-> stage, doh |-> doh]
MCLocalKinds ==
  {Found("UNAVAILABLE", FALSE, FALSE, 0, "UNAVAILABLE", "tcp", "ip1"),
   Found("UNAVAILABLE", TRUE, FALSE, 0, "UNAVAILABLE", "tcp", "ip1"),
   Found("UNAVAILABLE", FALSE, TRUE, 0, "ACTIVE", "", "ip2"),
   Found("ACTIVE", FALSE, FALSE, 200, "none", "", "")}

evidenceVars == <<vars, httpVars, dnsVars, ispVars, uptimeVars, remoteVars, part>>

\* Only the part that runs starts in every way it can.
EvidenceInit ==
  /\ part \in {"state", "http", "dns", "isp", "uptime", "probe"}
  /\ Init /\ HttpInit /\ DnsInit /\ IspInit /\ UptimeInit /\ Remote!Init
  /\ part # "http" => fetch.mode = "HTML" /\ fetch.pinned = {}
  /\ part # "dns" => resolver = "LOCAL_SYSTEM"

EvidenceNext ==
  /\ \/ part = "state" /\ Next /\ UNCHANGED <<httpVars, dnsVars, ispVars, uptimeVars, remoteVars>>
     \/ part = "http" /\ HttpNext /\ UNCHANGED <<vars, dnsVars, ispVars, uptimeVars, remoteVars>>
     \/ part = "dns" /\ DnsNext /\ UNCHANGED <<vars, httpVars, ispVars, uptimeVars, remoteVars>>
     \/ part = "isp" /\ IspNext /\ UNCHANGED <<vars, httpVars, dnsVars, uptimeVars, remoteVars>>
     \/ part = "uptime" /\ UptimeNext /\ UNCHANGED <<vars, httpVars, dnsVars, ispVars, remoteVars>>
     \/ part = "probe" /\ Remote!Next /\ UNCHANGED <<vars, httpVars, dnsVars, ispVars, uptimeVars>>
  /\ UNCHANGED part

EvidenceSpec == EvidenceInit /\ [][EvidenceNext]_evidenceVars

EvidenceTypeOK ==
  /\ part = "state" => TypeOK
  /\ part = "http" => HttpTypeOK
  /\ part = "dns" => DnsTypeOK
  /\ part = "isp" => IspTypeOK
  /\ part = "uptime" => UptimeTypeOK
  /\ part = "probe" => Remote!TypeOK

(***************************************************************************)
(* With two processes in DispatchPending at once, the one that commits     *)
(* last does not expire or requeue a job that was settled since it read.   *)
(***************************************************************************)
RacingPassesKeepSettled ==
  [][ \A j \in Remote!Jobs : job[j].status \in Remote!Settled => job'[j].status = job[j].status ]_remoteVars
=============================================================================
