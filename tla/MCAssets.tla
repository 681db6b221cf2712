----------------------------- MODULE MCAssets ------------------------------
(***************************************************************************)
(* The inventory and what is kept about its domains, for TLC: edits and    *)
(* imports, the rows and the synchronisation of a sheet, the provenance of *)
(* a field, costs, recommendations and reports.  A behaviour follows one   *)
(* of them, named by area, while the others stay where they begin.         *)
(***************************************************************************)
EXTENDS Inventory, SheetSync, Provenance, Finance,
        Recommendations, Reports, SheetRows

VARIABLE area

MCCellTexts ==
  [h \in Headings |->
     CASE h = "Domain" -> {"A.th", "?"} [] h = "domain_name" -> {"a.th", "b.th"} [] h = "active" -> {"", "no", "?"}
       [] h = "renewal_price" -> {"", "7"} [] h = "currency" -> {"", "THB"}]

Areas == {"inventory", "sync", "provenance", "finance", "recommendations", "reports", "rows"}

assetsVars == <<vars, syncVars, provenanceVars, financeVars, recommendationVars, reportVars, rowVars, area>>

AssetsInit ==
  /\ area \in Areas
  /\ Init /\ SheetSyncInit /\ ProvenanceInit /\ FinanceInit
  /\ RecommendationsInit /\ ReportsInit /\ SheetRowsInit
  /\ area # "sync" => \A s \in Spreadsheets : content[s] = CHOOSE c \in Contents : TRUE
  /\ area # "rows" => chosen = "" /\ \A n \in StockNames : stock[n] = NotInStock
  /\ stock["b.th"] \in {NotInStock, FromHere}

AssetsNext ==
  /\ UNCHANGED area
  /\ IF area = "inventory" THEN Next ELSE UNCHANGED vars
  /\ IF area = "sync" THEN SheetSyncNext ELSE UNCHANGED syncVars
  /\ IF area = "provenance" THEN ProvenanceNext ELSE UNCHANGED provenanceVars
  /\ IF area = "finance" THEN FinanceNext ELSE UNCHANGED financeVars
  /\ IF area = "recommendations" THEN RecommendationsNext ELSE UNCHANGED recommendationVars
  /\ IF area = "reports" THEN ReportsNext ELSE UNCHANGED reportVars
  /\ IF area = "rows" THEN SheetRowsNext ELSE UNCHANGED rowVars

AssetsSpec == AssetsInit /\ [][AssetsNext]_assetsVars

AssetsTypeOK ==
  /\ area = "inventory" => TypeOK
  /\ area = "sync" => SheetSyncTypeOK
  /\ area = "provenance" => ProvenanceTypeOK
  /\ area = "finance" => FinanceTypeOK
  /\ area = "recommendations" => RecommendationsTypeOK
  /\ area = "reports" => ReportsTypeOK
  /\ area = "rows" => SheetRowsTypeOK
=============================================================================
