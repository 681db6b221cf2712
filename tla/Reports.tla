------------------------------- MODULE Reports -------------------------------
(***************************************************************************)
(* Reports (report.Service.Create): a client names a report by a key and   *)
(* asks again with it after a lost answer.  Create looks for the report of *)
(* the key, computes the summary in several queries while the portfolio    *)
(* changes, and stores report and payload in one transaction; a unique     *)
(* index on requester and key decides between two calls.                   *)
(***************************************************************************)
EXTENDS Naturals

CONSTANTS
  ReportKeys,    \* keys of one requester
  Formats,
  ReportCalls,   \* concurrent calls of Create
  MaxReports,    \* bound on reports
  MaxRevision    \* bound on changes of the portfolio

ASSUME ReportsAssumption ==
  MaxReports \in Nat /\ MaxRevision \in Nat /\ "none" \notin ReportKeys \cup Formats

VARIABLES
  revision,   \* counts changes of what a report is about
  call,       \* per call: its arguments and what it has read
  reports,    \* reports
  payloads,   \* report_payloads
  received    \* answers that reached a client: the key and the report

reportVars == <<revision, call, reports, payloads, received>>

NoCall == [phase |-> "idle", key |-> "none", format |-> "none", budget |-> 0, counts |-> 0]
Reports == [id : 1 .. MaxReports, key : ReportKeys, format : Formats, budget : 0 .. MaxRevision, counts : 0 .. MaxRevision]

ReportsTypeOK ==
  /\ revision \in 0 .. MaxRevision
  /\ call \in [ReportCalls -> [phase : {"idle", "budget", "counts", "rendered"}, key : ReportKeys \cup {"none"},
                               format : Formats \cup {"none"}, budget : 0 .. MaxRevision, counts : 0 .. MaxRevision]]
  /\ reports \subseteq Reports
  /\ payloads \subseteq [report : 1 .. MaxReports, content : [format : Formats, budget : 0 .. MaxRevision, counts : 0 .. MaxRevision]]
  /\ received \subseteq [key : ReportKeys, report : 1 .. MaxReports]

ReportsInit ==
  /\ revision = 0
  /\ call = [c \in ReportCalls |-> NoCall]
  /\ reports = {} /\ payloads = {} /\ received = {}

OfKey(k) == {r \in reports : r.key = k}

\* The first query of Create.
CreateReport(c, k, format) ==
  /\ call[c].phase = "idle"
  /\ IF OfKey(k) # {}
     THEN /\ received' = received \cup {[key |-> k, report |-> r.id] : r \in OfKey(k)}
          /\ UNCHANGED call
     ELSE /\ call' = [call EXCEPT ![c] = [NoCall EXCEPT !.phase = "budget", !.key = k, !.format = format]]
          /\ UNCHANGED received
  /\ UNCHANGED <<revision, reports, payloads>>

\* Summary: the budget first, the counts in a query of their own, each of what is then there.
QueryBudget(c) ==
  /\ call[c].phase = "budget"
  /\ call' = [call EXCEPT ![c].phase = "counts", ![c].budget = revision]
  /\ UNCHANGED <<revision, reports, payloads, received>>

QueryCounts(c) ==
  /\ call[c].phase = "counts"
  /\ call' = [call EXCEPT ![c].phase = "rendered", ![c].counts = revision]
  /\ UNCHANGED <<revision, reports, payloads, received>>

NeverTaken(k) == FALSE
KeyTaken(k) == OfKey(k) # {}
NewId == CHOOSE n \in 1 .. MaxReports : \A r \in reports : r.id # n

\* One transaction; the call that comes second fails on the index, and says so.
StoreReport(c, lost) ==
  LET k == call[c].key IN
  /\ call[c].phase = "rendered"
  /\ IF KeyTaken(k) THEN UNCHANGED <<reports, payloads, received>>
     ELSE /\ \E n \in 1 .. MaxReports : \A r \in reports : r.id # n
          /\ reports' = reports \cup {[id |-> NewId, key |-> k, format |-> call[c].format,
                                       budget |-> call[c].budget, counts |-> call[c].counts]}
          /\ payloads' = payloads \cup
               {[report |-> NewId, content |-> [format |-> call[c].format, budget |-> call[c].budget, counts |-> call[c].counts]]}
          /\ received' = IF lost THEN received ELSE received \cup {[key |-> k, report |-> NewId]}
  /\ call' = [call EXCEPT ![c] = NoCall]
  /\ UNCHANGED revision

\* The API stops, or a query fails: nothing was stored.
CreateFails(c) ==
  /\ call[c].phase # "idle"
  /\ call' = [call EXCEPT ![c] = NoCall]
  /\ UNCHANGED <<revision, reports, payloads, received>>

ChangePortfolio ==
  /\ revision < MaxRevision
  /\ revision' = revision + 1
  /\ UNCHANGED <<call, reports, payloads, received>>

ReportsNext ==
  \/ \E c \in ReportCalls :
       \/ \E k \in ReportKeys, f \in Formats : CreateReport(c, k, f)
       \/ QueryBudget(c) \/ QueryCounts(c) \/ CreateFails(c)
       \/ \E lost \in BOOLEAN : StoreReport(c, lost)
  \/ ChangePortfolio

ReportsSpec == ReportsInit /\ [][ReportsNext]_reportVars

-----------------------------------------------------------------------------
(***************************************************************************)
(* All answers to a key are the same report, and it has the payload it was *)
(* made with: asking again after a lost answer, or twice at once, never    *)
(* yields a second report.                                                 *)
(***************************************************************************)
SameKeySameReport ==
  /\ \A a, b \in received : a.key = b.key => a.report = b.report
  /\ \A a \in received : \E p \in payloads : p.report = a.report
  /\ \A r, s \in reports : r.key = s.key => r = s
=============================================================================
