------------------------------- MODULE Finance -------------------------------
(***************************************************************************)
(* Renewal costs and the budget made of them (finance.Service, and the     *)
(* cost half of applySheetFields).  Costs are never changed, only closed:  *)
(* each has the days it is in effect on, and BudgetSummary takes, for a    *)
(* domain, the one in effect today from the best source.  A cost without a *)
(* tax policy, or in a currency without a recent rate, leaves the budget   *)
(* incomplete.  Amounts are left out: what matters is which cost counts.   *)
(***************************************************************************)
EXTENDS Naturals, FiniteSets

CONSTANTS
  Portfolio,       \* active domains
  RateMaxAge,      \* FINANCE_FX_MAX_AGE
  MaxCosts, MaxRates,  \* bounds on domain_costs and exchange_rates
  LastDay          \* bound on time

ASSUME FinanceAssumption ==
  RateMaxAge \in Nat /\ MaxCosts \in Nat /\ MaxRates \in Nat /\ LastDay \in Nat \ {0}

VARIABLES
  today,
  costs,      \* domain_costs of type renewal, n in order of creation
  rates,      \* observed_at of exchange_rates from the foreign currency
  taxed       \* domains with an active override of tax_rate

financeVars == <<today, costs, rates, taxed>>

Days == 1 .. LastDay
Open == 0     \* NULL effective_to
Sources == {"google_sheet", "manual"}
\* What may be wrong with a cost: it has no tax policy, or is not in the reporting currency.
CostKinds == {"plain", "untaxed", "foreign"}
Rank(source) == IF source = "google_sheet" THEN 2 ELSE 3
CostRows == [n : 1 .. MaxCosts, domain : Portfolio, source : Sources, kind : CostKinds,
             from : Days, to : 0 .. LastDay]

FinanceTypeOK ==
  /\ today \in Days
  /\ costs \subseteq CostRows
  /\ rates \subseteq 1 .. LastDay + 1
  /\ taxed \subseteq Portfolio

FinanceInit == today = 1 /\ costs = {} /\ rates = {} /\ taxed = {}

-----------------------------------------------------------------------------
(* Writing                                                                 *)

OpenOf(d, source) == {c \in costs : c.domain = d /\ c.source = source /\ c.to = Open}

ClosedByAny(d, from) == {c \in OpenOf(d, "manual") : c.from # from}
ClosedByManual(d, from) == {c \in OpenOf(d, "manual") : c.from < from}

\* UPDATE ... SET effective_to, then INSERT
ReplaceCosts(open, closed, new) == costs' = (costs \ open) \cup closed \cup {new}

\* AddCost may begin in the past or in the future.
AddCost(d, kind, from) ==
  LET open == ClosedByManual(d, from) IN
  /\ Cardinality(costs) < MaxCosts
  /\ ReplaceCosts(open, {[c EXCEPT !.to = from - 1] : c \in open},
       [n |-> Cardinality(costs) + 1, domain |-> d, source |-> "manual", kind |-> kind,
        from |-> from, to |-> Open])
  /\ UNCHANGED <<today, rates, taxed>>

EndOfSheetCost(c) == IF c.from < today THEN today - 1 ELSE today

\* upsertSheetCost begins today; with a tax rate it is exclusive of tax, else unknown.
UpsertSheetCost(d, kind) ==
  LET open == OpenOf(d, "google_sheet") IN
  /\ Cardinality(costs) < MaxCosts
  /\ ReplaceCosts(open, {[c EXCEPT !.to = EndOfSheetCost(c)] : c \in open},
       [n |-> Cardinality(costs) + 1, domain |-> d, source |-> "google_sheet", kind |-> kind,
        from |-> today, to |-> Open])
  /\ UNCHANGED <<today, rates, taxed>>

AddRate(observed) ==
  /\ Cardinality(rates) < MaxRates
  /\ rates' = rates \cup {observed}
  /\ UNCHANGED <<today, costs, taxed>>

OverrideTax(d) ==
  /\ taxed' = IF d \in taxed THEN taxed \ {d} ELSE taxed \cup {d}
  /\ UNCHANGED <<today, costs, rates>>

NextDay ==
  /\ today < LastDay
  /\ today' = today + 1
  /\ UNCHANGED <<costs, rates, taxed>>

FinanceNext ==
  \/ \E d \in Portfolio :
       \/ \E kind \in CostKinds :
            UpsertSheetCost(d, kind) \/ \E from \in Days : AddCost(d, kind, from)
       \/ OverrideTax(d)
  \/ \E observed \in {today, today + 1} : AddRate(observed)
  \/ NextDay

FinanceSpec == FinanceInit /\ [][FinanceNext]_financeVars

-----------------------------------------------------------------------------
(* BudgetSummary                                                           *)

InEffect(d, day) == {c \in costs : c.domain = d /\ c.from <= day /\ (c.to = Open \/ c.to >= day)}

\* ORDER BY source, effective_from DESC, created_at DESC LIMIT 1
Precedes(c, e) ==
  \/ Rank(c.source) < Rank(e.source)
  \/ c.source = e.source /\ (c.from > e.from \/ (c.from = e.from /\ c.n >= e.n))
CostOn(d, day) == {c \in InEffect(d, day) : \A e \in InEffect(d, day) : Precedes(c, e)}

\* latestRates and convertForSummary: a rate from the future counts as missing, and hides others.
LatestRate == {r \in rates : \A q \in rates : q <= r}
AnyRate == rates # {}
Convertible == \E r \in LatestRate : today <= r + RateMaxAge /\ r <= today

\* What BudgetSummary makes of a domain.
BudgetClass(d) ==
  IF CostOn(d, today) = {} THEN "unknown cost"
  ELSE LET cost == CHOOSE c \in CostOn(d, today) : TRUE IN
       IF cost.kind = "untaxed" /\ d \notin taxed THEN "unknown tax"
       ELSE IF cost.kind = "foreign" /\ ~Convertible THEN "no rate" ELSE "known"

Complete == \A d \in Portfolio : BudgetClass(d) = "known"

-----------------------------------------------------------------------------
(* What the costs mean, by the order in which they were entered alone.     *)

EnteredBy(d, source, day) == {c \in costs : c.domain = d /\ c.source = source /\ c.from <= day}
LastOf(entered) == {c \in entered : \A e \in entered : c.from > e.from \/ (c.from = e.from /\ c.n >= e.n)}

(***************************************************************************)
(* However costs are entered, back- or post-dated, twice a day, from both  *)
(* sources: on every day, past or to come, the cost that counts is the     *)
(* last one of the sheet begun by that day, else the manual one that       *)
(* begins last, and last entered of several.  Closing a cost hides none.   *)
(***************************************************************************)
CostInEffect ==
  \A d \in Portfolio, day \in Days :
    CostOn(d, day) = LET sheet == LastOf(EnteredBy(d, "google_sheet", day)) IN
                     IF sheet # {} THEN sheet ELSE LastOf(EnteredBy(d, "manual", day))

(***************************************************************************)
(* A budget that calls itself complete is one: every active domain has a   *)
(* cost by today whose tax is known, or overridden, and none of the costs  *)
(* counted is foreign unless a rate was observed in the last RateMaxAge    *)
(* days.                                                                   *)
(***************************************************************************)
CompleteBudgetIsWhole ==
  Complete =>
    \A d \in Portfolio :
      /\ \E c \in costs : c.domain = d /\ c.from <= today /\ (c.kind # "untaxed" \/ d \in taxed)
      /\ (\A r \in rates : r + RateMaxAge < today) => \A c \in CostOn(d, today) : c.kind # "foreign"
=============================================================================
