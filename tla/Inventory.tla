----------------------------- MODULE Inventory ------------------------------
(***************************************************************************)
(* The domain inventory: administrators edit domains by optimistic         *)
(* versions (domain.Service), and spreadsheet imports change many of them  *)
(* at once (sheets.Service).  An import is previewed against the domains   *)
(* as they are and applied later, when they may have changed.  Both sides  *)
(* keep monitor_schedules in step with the domain.                         *)
(*                                                                         *)
(* Each operation locks the rows it changes before it reads them, so it is *)
(* one step.  Of a domain's fields only those that decide whether it is    *)
(* monitored are kept; a domain keeps its name.                            *)
(***************************************************************************)
EXTENDS Naturals

CONSTANTS
  Domains,
  Admins,
  GoogleSheets, Workbooks,  \* the sheets: kind, spreadsheet and sheet name
  MaxImports,               \* bound on google_sheet_imports
  MaxVersion                \* bound on the changes of a domain

ASSUME InventoryAssumption ==
  MaxVersion \in Nat \ {0} /\ MaxImports \in Nat /\ "none" \notin GoogleSheets \cup Workbooks

VARIABLES
  domain,    \* domains; version 0 when there is no row
  schedule,  \* monitor_schedules.enabled
  origin,    \* the sheet of the current provenance of the field "domain"
  import,    \* google_sheet_imports with their rows
  seen       \* per administrator: the domain row a page shows

vars == <<domain, schedule, origin, import, seen>>

Imports == 1 .. MaxImports
Sheets == GoogleSheets \cup Workbooks
SourceUnmapped(sheet) == sheet
inventorySourceType(sheet) == IF sheet \in Workbooks THEN "import" ELSE "google_sheet"

Rows ==
  [ version : 0 .. MaxVersion,
    life    : {"active", "inactive", "archived"},
    mon     : BOOLEAN,                 \* monitoring_enabled
    before  : BOOLEAN,                 \* monitoring_enabled_before_archive
    source  : {"manual", "google_sheet", "import"},  \* source_type
    present : BOOLEAN ]                \* source_status
Listings == {"unlisted", "active", "inactive", "invalid"}
Actions == {"NONE", "INVALID", "ADD", "MODIFY", "UNCHANGED", "MISSING"}

NoRow ==
  [ version |-> 0, life |-> "active", mon |-> FALSE, before |-> TRUE,
    source |-> "manual", present |-> TRUE ]
Blank == [d \in Domains |-> "unlisted"]
NoActions == [d \in Domains |-> "NONE"]

TypeOK ==
  /\ domain \in [Domains -> Rows]
  /\ schedule \in [Domains -> BOOLEAN]
  /\ origin \in [Domains -> Sheets \cup {"none"}]
  /\ import \in [Imports -> [ status : {"none", "preview", "applied", "rejected"},
                              sheet  : Sheets \cup {"none"},
                              lists  : [Domains -> Listings],
                              action : [Domains -> Actions] ]]
  /\ seen \in [Admins -> [Domains -> Rows]]

Init ==
  /\ domain = [d \in Domains |-> NoRow]
  /\ schedule = [d \in Domains |-> FALSE]
  /\ origin = [d \in Domains |-> "none"]
  /\ import = [i \in Imports |-> [status |-> "none", sheet |-> "none",
                                  lists |-> Blank, action |-> NoActions]]
  /\ seen = [a \in Admins |-> [d \in Domains |-> NoRow]]

Exists(d) == domain[d].version > 0
Room(d) == domain[d].version < MaxVersion

\* Scheduled exactly if monitored and active.
Scheduled(row) == row.mon /\ row.life = "active"

\* Every change of a row has a new version.
Changed(row) == [row EXCEPT !.version = row.version + 1]

-----------------------------------------------------------------------------
(* domain.Service                                                          *)

Create(d, mon) ==
  /\ ~Exists(d)
  /\ domain' = [domain EXCEPT ![d] = [NoRow EXCEPT !.version = 1, !.mon = mon]]
  /\ schedule' = [schedule EXCEPT ![d] = mon]
  /\ UNCHANGED <<origin, import, seen>>

\* A page is loaded; what it shows is what the administrator will act on.
Get(a, d) ==
  /\ Exists(d)
  /\ seen' = [seen EXCEPT ![a][d] = domain[d]]
  /\ UNCHANGED <<domain, schedule, origin, import>>

\* WHERE version = $n, with the version of the page; otherwise ErrConflict.
SameVersion(a, d) == seen[a][d].version > 0 /\ seen[a][d].version = domain[d].version

Store(d, row) ==
  /\ Room(d)
  /\ domain' = [domain EXCEPT ![d] = Changed(row)]
  /\ schedule' = [schedule EXCEPT ![d] = Scheduled(row)]
  /\ UNCHANGED <<origin, import, seen>>

Patch(a, d, mon) ==
  /\ SameVersion(a, d)
  /\ Store(d, [domain[d] EXCEPT !.mon = mon])

Archive(a, d) ==
  /\ SameVersion(a, d)
  /\ domain[d].life # "archived"
  /\ Store(d, [domain[d] EXCEPT !.life = "archived", !.before = domain[d].mon, !.mon = FALSE])

Restore(a, d) ==
  /\ SameVersion(a, d)
  /\ domain[d].life = "archived"
  /\ Store(d, [domain[d] EXCEPT !.life = "active", !.mon = domain[d].before])

-----------------------------------------------------------------------------
(* sheets.Service                                                          *)

\* MISSING: the domain came from this sheet, which has no valid row for it now.
Lost(d, sheet) ==
  /\ Exists(d)
  /\ domain[d].source = inventorySourceType(sheet)
  /\ domain[d].present
  /\ origin[d] = sheet

\* previewSnapshot: what the sheet means for a domain as it is now.  An
\* invalid row changes nothing itself, but it does not count as seen either.
RowActions(d, sheet, listing) ==
  IF listing \in {"unlisted", "invalid"}
  THEN IF Lost(d, sheet) THEN {"MISSING"}
       ELSE IF listing = "invalid" THEN {"INVALID"} ELSE {"NONE"}
  ELSE IF ~Exists(d) THEN {"ADD"}
  ELSE IF (domain[d].mon /\ domain[d].life = "active") # (listing = "active") THEN {"MODIFY"}
  ELSE {"MODIFY", "UNCHANGED"}  \* the other fields may differ

\* The same contents, previewed and not decided: the existing import is returned.
AlreadyOpen(sheet, lists) ==
  \E i \in Imports : import[i].status = "preview" /\ import[i].sheet = sheet /\ import[i].lists = lists

Preview(i, sheet, lists, action) ==
  /\ import[i].status = "none"
  /\ \A k \in 1 .. i - 1 : import[k].status # "none"
  /\ ~AlreadyOpen(sheet, lists)
  /\ \A d \in Domains : action[d] \in RowActions(d, sheet, lists[d])
  /\ import' = [import EXCEPT ![i] = [status |-> "preview", sheet |-> sheet,
                                      lists |-> lists, action |-> action]]
  /\ UNCHANGED <<domain, schedule, origin, seen>>

Revived(row, active) == IF active THEN "active" ELSE "inactive"
LifeAfter(row, active) == IF row.life = "archived" THEN "archived" ELSE Revived(row, active)

ModifiedRow(row, source, active) ==
  Changed([row EXCEPT !.life = LifeAfter(row, active),
                      !.mon = active /\ row.life # "archived",
                      !.source = source,
                      !.present = TRUE])

AddedRow(source, active) ==
  [ version |-> 1, life |-> IF active THEN "active" ELSE "inactive",
    mon |-> active, before |-> TRUE, source |-> source, present |-> TRUE ]

MissingSilently(row, source) ==
  IF row.source = source THEN [row EXCEPT !.present = FALSE, !.mon = FALSE] ELSE row
MissingRow(row, source) ==
  IF row.source = source THEN Changed([row EXCEPT !.present = FALSE, !.mon = FALSE]) ELSE row

UnchangedRow(row) == IF row.present THEN row ELSE Changed([row EXCEPT !.present = TRUE])

\* The row of d after import i, whatever happened to d since the preview.
AppliedRow(i, d) ==
  LET active == import[i].lists[d] = "active"
      source == inventorySourceType(import[i].sheet)
      action == import[i].action[d]
  IN IF action \in {"ADD", "MODIFY"}
     THEN IF Exists(d) THEN ModifiedRow(domain[d], source, active) ELSE AddedRow(source, active)
     ELSE IF action = "MISSING" THEN MissingRow(domain[d], source)
     ELSE IF action = "UNCHANGED" THEN UnchangedRow(domain[d])
     ELSE domain[d]

AppliedSchedule(i, d) ==
  IF import[i].action[d] \in {"ADD", "MODIFY"} THEN Scheduled(AppliedRow(i, d))
  ELSE IF import[i].action[d] = "MISSING" THEN FALSE
  ELSE schedule[d]

Apply(i) ==
  /\ import[i].status = "preview"
  /\ \A d \in Domains : Room(d)
  /\ domain' = [d \in Domains |-> AppliedRow(i, d)]
  /\ schedule' = [d \in Domains |-> AppliedSchedule(i, d)]
  /\ origin' = [d \in Domains |->
                  IF import[i].action[d] \in {"ADD", "MODIFY"} THEN import[i].sheet ELSE origin[d]]
  /\ import' = [import EXCEPT ![i].status = "applied"]
  /\ UNCHANGED seen

Reject(i) ==
  /\ import[i].status = "preview"
  /\ import' = [import EXCEPT ![i].status = "rejected"]
  /\ UNCHANGED <<domain, schedule, origin, seen>>

Next ==
  \/ \E d \in Domains, mon \in BOOLEAN : Create(d, mon)
  \/ \E a \in Admins, d \in Domains :
       \/ Get(a, d)
       \/ \E mon \in BOOLEAN : Patch(a, d, mon)
       \/ Archive(a, d)
       \/ Restore(a, d)
  \/ \E i \in Imports :
       \/ \E sheet \in Sheets, lists \in [Domains -> Listings], action \in [Domains -> Actions] :
            Preview(i, sheet, lists, action)
       \/ Apply(i)
       \/ Reject(i)

Spec == Init /\ [][Next]_vars

-----------------------------------------------------------------------------
(***************************************************************************)
(* A domain is in the schedule only while it is active and monitored,      *)
(* whatever sequence of edits, archiving and imports led there.  With it   *)
(* ScheduleDue's own test of the domain is redundant.                      *)
(***************************************************************************)
ScheduledOnlyIfMonitored == \A d \in Domains : schedule[d] => domain[d].mon /\ domain[d].life = "active"

(***************************************************************************)
(* An administrator never overwrites what they have not seen: a row that   *)
(* has the version of the page is the row on the page, whoever changed it  *)
(* in between, an import included.                                         *)
(***************************************************************************)
VersionIdentifiesRow ==
  \A a \in Admins, d \in Domains : SameVersion(a, d) => seen[a][d] = domain[d]

(***************************************************************************)
(* A manual archive has precedence over sheets: no import takes a domain   *)
(* out of the archive, makes it monitored or changes what Restore will     *)
(* give back.                                                              *)
(***************************************************************************)
ArchiveHasPrecedence ==
  [][ \A d \in Domains :
        Exists(d) /\ domain[d].life = "archived" /\ import' # import =>
          /\ domain'[d].life = "archived"
          /\ domain'[d].mon => domain[d].mon
          /\ domain'[d].before = domain[d].before ]_vars

(***************************************************************************)
(* docs/phase5-asset-intelligence.md:69: invalid rows are excluded from an *)
(* apply.  A domain whose row is invalid is treated as missing from the    *)
(* sheet instead, and its monitoring is switched off.                      *)
(***************************************************************************)
InvalidRowsAreExcluded ==
  [][ \A i \in Imports, d \in Domains :
        /\ import[i].status = "preview" /\ import'[i].status = "applied"
        /\ import[i].lists[d] = "invalid"
        => domain'[d] = domain[d] /\ schedule'[d] = schedule[d] ]_vars
=============================================================================
