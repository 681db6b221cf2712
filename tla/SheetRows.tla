------------------------------ MODULE SheetRows ------------------------------
(***************************************************************************)
(* From the cells of a sheet to the rows of an import: sheets.ParseRows,   *)
(* the comparison with the inventory in previewSnapshot, and what Apply    *)
(* makes of the rows when nothing happened in between (Inventory covers    *)
(* what may).  Of the columns of a sheet four are kept; the others are     *)
(* parsed and compared like the price.  A text is a member of a small set. *)
(***************************************************************************)
EXTENDS Naturals, Sequences, FiniteSets

CONSTANTS
  StockNames,    \* domains
  Headings,      \* texts of header cells
  CellTexts,     \* texts of other cells, by the header they stand under
  MaxColumns, MaxCells

\* Domain names are not empty; one of them is what the text in capitals below stands for.
ASSUME SheetRowsAssumption == IsFiniteSet(StockNames) /\ "" \notin StockNames /\ "a.th" \in StockNames

VARIABLES
  chosen,    \* the header an administrator configured for the domain, or ""
  headers, body,
  stock      \* the inventory, as currentDomains sees it

rowVars == <<chosen, headers, body, stock>>

Semantics == {"domain", "active", "price", "currency"}

\* normalizeHeader, Normalize of domain names, parseBool, ParseDecimal: what they
\* make of the texts that occur; anything else is an error or itself.
NormalizeHeader(text) == IF text = "Domain" THEN "domain" ELSE text
NormalizeName(text) == IF text = "A.th" THEN "a.th" ELSE IF text \in StockNames THEN text ELSE ""
Booleans == [yes |-> TRUE, no |-> FALSE]
Decimals == {"5", "7"}
Currencies == {"THB"}

StockRows ==
  [exists : BOOLEAN, archived : BOOLEAN, on : BOOLEAN, here : BOOLEAN, present : BOOLEAN,
   price : Decimals \cup {""}, currency : Currencies \cup {""}]

SheetRowsTypeOK ==
  /\ chosen \in Headings \cup {""}
  /\ headers \in Seq(Headings) /\ Len(headers) <= MaxColumns
  /\ \A i \in DOMAIN body : Len(body[i]) = Len(headers)
  /\ stock \in [StockNames -> StockRows]

NotInStock ==
  [exists |-> FALSE, archived |-> FALSE, on |-> FALSE, here |-> FALSE, present |-> TRUE, price |-> "", currency |-> ""]
Archived == [NotInStock EXCEPT !.exists = TRUE, !.archived = TRUE]
FromElsewhere == [NotInStock EXCEPT !.exists = TRUE, !.on = TRUE]
FromHere == [FromElsewhere EXCEPT !.here = TRUE, !.price = "5", !.currency = "THB"]

SheetRowsInit ==
  /\ chosen \in {"", "domain_name"}
  /\ headers = <<>> /\ body = <<>>
  /\ stock \in [StockNames -> {NotInStock, Archived, FromElsewhere, FromHere}]

-----------------------------------------------------------------------------
(* ParseRows                                                               *)

HeaderAliases ==
  [domain |-> {"domain", "domain_name"}, active |-> {"active", "enabled"},
   price |-> {"renewal_price", "renew_price"}, currency |-> {"currency"}]

\* resolveMapping: the columns that may hold a field.
Candidates(field) == IF field = "domain" /\ chosen # "" THEN {NormalizeHeader(chosen)} ELSE HeaderAliases[field]
Columns(field) == {i \in DOMAIN headers : NormalizeHeader(headers[i]) \in Candidates(field)}

Resolved == Columns("domain") # {} /\ \A f \in Semantics : Cardinality(Columns(f)) <= 1

Raw(cells, field) == IF Columns(field) = {} THEN "" ELSE cells[CHOOSE i \in Columns(field) : TRUE]

\* normalizeRow: what is wrong with a row.
RowIsSound(cells) ==
  /\ NormalizeName(Raw(cells, "domain")) # ""
  /\ Raw(cells, "active") \in DOMAIN Booleans \cup {""}
  /\ Raw(cells, "price") \in Decimals \cup {""}
  /\ Raw(cells, "price") \in Decimals => Raw(cells, "currency") \in Currencies

NormalizedRow(cells) ==
  [name |-> NormalizeName(Raw(cells, "domain")),
   active |-> IF Raw(cells, "active") = "" THEN TRUE ELSE Booleans[Raw(cells, "active")],
   price |-> Raw(cells, "price"), currency |-> Raw(cells, "currency")]

\* A domain that two sound rows name makes both invalid.
NeverRepeated(i) == FALSE
Repeated(i) ==
  \E j \in DOMAIN body \ {i} :
    RowIsSound(body[j]) /\ NormalizeName(Raw(body[j], "domain")) = NormalizeName(Raw(body[i], "domain"))

ValidRows == {i \in DOMAIN body : RowIsSound(body[i]) /\ ~Repeated(i)}

-----------------------------------------------------------------------------
(* previewSnapshot                                                         *)

\* sheetDiff
Differs(row, value) ==
  value.on # row.active \/ value.price # row.price \/ value.currency # row.currency

ActionFor(row, value) ==
  IF ~value.exists THEN "ADD" ELSE IF Differs(row, value) THEN "MODIFY" ELSE "UNCHANGED"

RowOfSheet(i, goods) ==
  IF i \in ValidRows
  THEN LET row == NormalizedRow(body[i])
       IN [number |-> i + 1, action |-> ActionFor(row, goods[row.name]), row |-> row]
  ELSE [number |-> i + 1, action |-> "INVALID", row |-> [name |-> ""]]

Seen == {NormalizedRow(body[i]).name : i \in ValidRows}
MissingNames(goods) == {n \in StockNames \ Seen : goods[n].exists /\ goods[n].here /\ goods[n].present}

\* len(snapshot.Values) + 1: the header row is one of the values.
NextRowNumber == Len(body) + 2

\* range over a map visits every name once, in some order.
RangeOver(names) == CHOOSE f \in [1 .. Cardinality(names) -> names] : \A n \in names : \E k \in DOMAIN f : f[k] = n

PreviewOf(goods) ==
  LET lost == RangeOver(MissingNames(goods))
  IN {RowOfSheet(i, goods) : i \in DOMAIN body} \cup
     {[number |-> (NextRowNumber + k) - 1, action |-> "MISSING", row |-> [name |-> lost[k]]] : k \in DOMAIN lost}

-----------------------------------------------------------------------------
(* Apply                                                                   *)

\* applyAdd, applyModify and upsertSheetCost: a row without a price leaves the cost alone.
StaysAsItWas(row, value) == value.on
OnAfter(row, value) == row.active /\ ~value.archived
Written(row, value) ==
  [value EXCEPT !.exists = TRUE, !.here = TRUE, !.present = TRUE,
                !.on = OnAfter(row, value),
                !.price = IF row.price = "" THEN value.price ELSE row.price,
                !.currency = IF row.price = "" THEN value.currency ELSE row.currency]

AppliedTo(r, value) ==
  CASE r.action \in {"ADD", "MODIFY"} -> Written(r.row, value)
    [] r.action = "MISSING" -> [value EXCEPT !.present = FALSE, !.on = FALSE]
    [] OTHER -> [value EXCEPT !.present = TRUE]

ActingOn(n, rows) == {r \in rows : r.action # "INVALID" /\ r.row.name = n}

StockAfter(rows) ==
  [n \in StockNames |-> IF ActingOn(n, rows) = {} THEN stock[n]
                        ELSE AppliedTo(CHOOSE r \in ActingOn(n, rows) : TRUE, stock[n])]

-----------------------------------------------------------------------------
\* The owner of the sheet writes it.
AddColumn(text) ==
  /\ body = <<>> /\ Len(headers) < MaxColumns
  /\ headers' = Append(headers, text)
  /\ UNCHANGED <<chosen, body, stock>>

RowCells == {cells \in [DOMAIN headers -> UNION {CellTexts[h] : h \in Headings}] :
               \A i \in DOMAIN headers : cells[i] \in CellTexts[headers[i]]}

AddRow ==
  /\ headers # <<>> /\ (Len(body) + 1) * Len(headers) <= MaxCells
  /\ \E cells \in RowCells : body' = Append(body, cells)
  /\ UNCHANGED <<chosen, headers, stock>>

ApplyImport ==
  /\ Resolved
  /\ stock' = StockAfter(PreviewOf(stock))
  /\ UNCHANGED <<chosen, headers, body>>

SheetRowsNext ==
  \/ \E text \in Headings : AddColumn(text)
  \/ AddRow
  \/ ApplyImport

SheetRowsSpec == SheetRowsInit /\ [][SheetRowsNext]_rowVars

-----------------------------------------------------------------------------
(***************************************************************************)
(* A preview is unambiguous: its rows have different numbers (or the       *)
(* database would refuse it), at most one of them acts on a domain, and    *)
(* exactly one on each domain that the inventory has from this sheet.      *)
(***************************************************************************)
PreviewIsUnambiguous ==
  Resolved =>
    LET rows == PreviewOf(stock) IN
    /\ \A r, s \in rows : r.number = s.number => r = s
    /\ \A n \in StockNames :
         /\ Cardinality(ActingOn(n, rows)) <= 1
         /\ stock[n].exists /\ stock[n].here /\ stock[n].present => ActingOn(n, rows) # {}

(***************************************************************************)
(* Imports settle: once a preview has been applied, the next one of the    *)
(* same sheet finds nothing to do, except for three kinds of rows that are *)
(* reported as modified each time: a price the sheet no longer has, a      *)
(* currency without a price, and an archived domain listed as active.      *)
(***************************************************************************)
ImportsSettle ==
  Resolved =>
    LET after == StockAfter(PreviewOf(stock)) IN
    \A r \in PreviewOf(after) : r.action \in {"ADD", "MODIFY", "MISSING"} =>
      /\ r.action = "MODIFY"
      /\ \/ r.row.price = "" /\ after[r.row.name].price # ""
         \/ r.row.price = "" /\ r.row.currency # ""
         \/ r.row.active /\ after[r.row.name].archived
=============================================================================
