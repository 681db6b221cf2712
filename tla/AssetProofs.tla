---------------------------- MODULE AssetProofs -----------------------------
(***************************************************************************)
(* Proofs about the inventory and what is kept about its domains, for any  *)
(* sets of domains and administrators and any bounds: Inventory,           *)
(* Provenance, Finance, Recommendations and Reports.                       *)
(*                                                                         *)
(* For Inventory, the inductive invariant adds to the checked ones that no *)
(* page shows a version the domain has not reached: without it a later     *)
(* change could give the domain the version of the page.                   *)
(***************************************************************************)
EXTENDS Inventory, Provenance, Finance, Recommendations, Reports,
        FiniteSetTheorems, TLAPS

\* The module is large: every leaf may take longer than the default of the provers.
USE SMTT(15), ZenonT(15)

\* A page is never ahead of the domain, and shows the domain if it is level.
SeenInv ==
  \A a \in Admins, d \in Domains :
    /\ seen[a][d].version <= domain[d].version
    /\ seen[a][d].version = domain[d].version /\ seen[a][d].version > 0 => seen[a][d] = domain[d]

IInv == TypeOK /\ ScheduledOnlyIfMonitored /\ SeenInv

\* What every change of a row r into s keeps: a row that differs has a later
\* version.
Later(r, s) == s \in Rows /\ r.version <= s.version /\ (s.version = r.version => s = r)

\* Counting a change of any row with room for it gives a row.
LEMMA ChangedType ==
  ASSUME NEW row \in Rows, row.version < MaxVersion
  PROVE  Changed(row) \in Rows /\ Changed(row).version = row.version + 1
         /\ Changed(row).mon = row.mon /\ Changed(row).life = row.life
         /\ Changed(row).before = row.before
  BY InventoryAssumption DEF Changed, Rows

\* applyModify: a later row that stays in the archive if it was there.
LEMMA ModifiedFacts ==
  ASSUME NEW row \in Rows, row.version < MaxVersion, NEW active \in BOOLEAN,
         NEW source \in {"google_sheet", "import"}
  PROVE  LET s == ModifiedRow(row, source, active)
         IN /\ Later(row, s)
            /\ s.before = row.before
            /\ row.life = "archived" => s.life = "archived" /\ ~s.mon
  <1> DEFINE base == [row EXCEPT !.life = LifeAfter(row, active),
                                 !.mon = active /\ row.life # "archived",
                                 !.source = source,
                                 !.present = TRUE]
  <1>1. LifeAfter(row, active) \in {"active", "inactive", "archived"}
        /\ (row.life = "archived" => LifeAfter(row, active) = "archived")
    BY Zenon DEF LifeAfter, Revived
  <1>2. base \in Rows /\ base.version = row.version /\ base.before = row.before
        /\ base.life = LifeAfter(row, active) /\ base.mon = (active /\ row.life # "archived")
    BY <1>1, Zenon DEF Rows
  <1>3. ModifiedRow(row, source, active) = Changed(base)
    BY Zenon DEF ModifiedRow
  <1> HIDE DEF base
  <1>4. Changed(base) \in Rows /\ Changed(base).version = row.version + 1
        /\ Changed(base).mon = base.mon /\ Changed(base).life = base.life
        /\ Changed(base).before = base.before
    BY <1>2, ChangedType, Zenon
  <1>5. row.version \in Nat
    BY DEF Rows
  <1>6. Later(row, Changed(base))
    BY <1>4, <1>5 DEF Later
  <1> QED BY <1>1, <1>2, <1>3, <1>4, <1>6, Zenon

\* applyAdd: a row of version 1 is later than no row.
LEMMA AddedFacts ==
  ASSUME NEW active \in BOOLEAN, NEW source \in {"google_sheet", "import"}
  PROVE  AddedRow(source, active) \in Rows /\ AddedRow(source, active).version = 1
  BY InventoryAssumption DEF AddedRow, Rows

\* applyMissing: a later row, out of monitoring if it changed.
LEMMA MissingFacts ==
  ASSUME NEW row \in Rows, row.version < MaxVersion, NEW source
  PROVE  LET s == MissingRow(row, source)
         IN Later(row, s) /\ s.before = row.before /\ s.life = row.life /\ (s.mon => row.mon)
  <1> DEFINE base == [row EXCEPT !.present = FALSE, !.mon = FALSE]
  <1>1. base \in Rows /\ base.version = row.version /\ base.before = row.before
        /\ base.life = row.life /\ base.mon = FALSE
    BY Zenon DEF Rows
  <1>2. MissingRow(row, source) = IF row.source = source THEN Changed(base) ELSE row
    BY Zenon DEF MissingRow
  <1> HIDE DEF base
  <1>3. Changed(base) \in Rows /\ Changed(base).version = row.version + 1
        /\ Changed(base).mon = FALSE /\ Changed(base).life = row.life
        /\ Changed(base).before = row.before
    BY <1>1, ChangedType, Zenon
  <1>4. row.version \in Nat
    BY DEF Rows
  <1> QED BY <1>2, <1>3, <1>4 DEF Later

\* An unchanged row only becomes present again.
LEMMA UnchangedFacts ==
  ASSUME NEW row \in Rows, row.version < MaxVersion
  PROVE  LET s == UnchangedRow(row)
         IN Later(row, s) /\ s.before = row.before /\ s.life = row.life /\ s.mon = row.mon
  <1> DEFINE base == [row EXCEPT !.present = TRUE]
  <1>1. base \in Rows /\ base.version = row.version /\ base.before = row.before
        /\ base.life = row.life /\ base.mon = row.mon
    BY Zenon DEF Rows
  <1>2. UnchangedRow(row) = IF row.present THEN row ELSE Changed(base)
    BY Zenon DEF UnchangedRow
  <1> HIDE DEF base
  <1>3. Changed(base) \in Rows /\ Changed(base).version = row.version + 1
        /\ Changed(base).mon = row.mon /\ Changed(base).life = row.life
        /\ Changed(base).before = row.before
    BY <1>1, ChangedType, Zenon
  <1>4. row.version \in Nat
    BY DEF Rows
  <1> QED BY <1>2, <1>3, <1>4 DEF Later

\* Apply, one domain at a time, whatever the preview decided.
LEMMA AppliedFacts ==
  ASSUME IInv, NEW i \in Imports, NEW d \in Domains, Room(d)
  PROVE  /\ Later(domain[d], AppliedRow(i, d))
         /\ AppliedSchedule(i, d) \in BOOLEAN
         /\ AppliedSchedule(i, d) => AppliedRow(i, d).mon /\ AppliedRow(i, d).life = "active"
         /\ Exists(d) /\ domain[d].life = "archived" =>
              /\ AppliedRow(i, d).life = "archived"
              /\ AppliedRow(i, d).mon => domain[d].mon
              /\ AppliedRow(i, d).before = domain[d].before
  <1> DEFINE active == import[i].lists[d] = "active"
             source == inventorySourceType(import[i].sheet)
             action == import[i].action[d]
  <1>1. domain[d] \in Rows /\ domain[d].version < MaxVersion /\ domain[d].version \in Nat
    BY DEF IInv, TypeOK, Room, Rows
  <1>2. active \in BOOLEAN /\ source \in {"google_sheet", "import"}
    BY Zenon DEF inventorySourceType
  <1>3. schedule[d] \in BOOLEAN /\ (schedule[d] => domain[d].mon /\ domain[d].life = "active")
    BY Zenon DEF IInv, TypeOK, ScheduledOnlyIfMonitored
  <1>4. AppliedRow(i, d) =
          IF action \in {"ADD", "MODIFY"}
          THEN IF Exists(d) THEN ModifiedRow(domain[d], source, active) ELSE AddedRow(source, active)
          ELSE IF action = "MISSING" THEN MissingRow(domain[d], source)
          ELSE IF action = "UNCHANGED" THEN UnchangedRow(domain[d])
          ELSE domain[d]
    BY Zenon DEF AppliedRow
  <1>5. AppliedSchedule(i, d) =
          IF action \in {"ADD", "MODIFY"} THEN Scheduled(AppliedRow(i, d))
          ELSE IF action = "MISSING" THEN FALSE ELSE schedule[d]
    BY Zenon DEF AppliedSchedule
  <1> HIDE DEF active, source, action
  <1>6. CASE action \in {"ADD", "MODIFY"} /\ Exists(d)
    <2>1. AppliedRow(i, d) = ModifiedRow(domain[d], source, active)
      BY <1>4, <1>6, Zenon
    <2>2. AppliedRow(i, d) \in Rows
      BY <2>1, <1>1, <1>2, ModifiedFacts DEF Later
    <2>3. AppliedSchedule(i, d) = (AppliedRow(i, d).mon /\ AppliedRow(i, d).life = "active")
      BY <1>5, <1>6, Zenon DEF Scheduled
    <2>4. AppliedSchedule(i, d) \in BOOLEAN
      BY <2>3, Zenon
    <2>5. Later(domain[d], AppliedRow(i, d)) /\ AppliedRow(i, d).before = domain[d].before
          /\ (domain[d].life = "archived" => AppliedRow(i, d).life = "archived" /\ ~AppliedRow(i, d).mon)
      BY <2>1, <1>1, <1>2, ModifiedFacts
    <2> QED BY <2>3, <2>4, <2>5, Zenon
  <1>7. CASE action \in {"ADD", "MODIFY"} /\ ~Exists(d)
    <2>1. AppliedRow(i, d) = AddedRow(source, active)
      BY <1>4, <1>7, Zenon
    <2>2. AppliedRow(i, d) \in Rows /\ AppliedRow(i, d).version = 1 /\ domain[d].version = 0
      BY <2>1, <1>1, <1>2, <1>7, AddedFacts DEF Exists
    <2>3. AppliedSchedule(i, d) = (AppliedRow(i, d).mon /\ AppliedRow(i, d).life = "active")
      BY <1>5, <1>7, Zenon DEF Scheduled
    <2>4. AppliedSchedule(i, d) \in BOOLEAN
      BY <2>3, Zenon
    <2>5. Later(domain[d], AppliedRow(i, d))
      BY <2>2 DEF Later
    <2> QED BY <2>3, <2>4, <2>5, <1>7, Zenon
  <1>8. CASE action = "MISSING"
    BY <1>1, <1>4, <1>5, <1>8, MissingFacts
  <1>9. CASE action = "UNCHANGED"
    BY <1>1, <1>3, <1>4, <1>5, <1>9, UnchangedFacts, Zenon
  <1>10. CASE action \notin {"ADD", "MODIFY", "MISSING", "UNCHANGED"}
    <2>1. AppliedRow(i, d) = domain[d] /\ AppliedSchedule(i, d) = schedule[d]
      BY <1>4, <1>5, <1>10, Zenon
    <2>2. Later(domain[d], AppliedRow(i, d))
      BY <2>1, <1>1 DEF Later
    <2> QED BY <2>1, <2>2, <1>3, Zenon
  <1> QED BY <1>6, <1>7, <1>8, <1>9, <1>10, Zenon

\* A step that only lets rows grow older versions away from the pages keeps
\* the pages behind the domains.
LEMMA SeenKept ==
  ASSUME IInv, seen' = seen, \A d \in Domains : Later(domain[d], domain'[d])
  PROVE  SeenInv'
  <1> SUFFICES ASSUME NEW a \in Admins, NEW d \in Domains
               PROVE  /\ seen[a][d].version <= domain'[d].version
                      /\ seen[a][d].version = domain'[d].version /\ seen[a][d].version > 0
                           => seen[a][d] = domain'[d]
    BY Zenon DEF SeenInv
  <1>1. /\ seen[a][d].version \in Nat /\ domain[d].version \in Nat
        /\ seen[a][d].version <= domain[d].version
        /\ seen[a][d].version = domain[d].version /\ seen[a][d].version > 0 => seen[a][d] = domain[d]
    BY DEF IInv, TypeOK, SeenInv, Rows
  <1>2. domain'[d].version \in Nat /\ domain[d].version <= domain'[d].version
        /\ (domain'[d].version = domain[d].version => domain'[d] = domain[d])
    BY DEF Later, Rows
  <1> QED BY <1>1, <1>2

\* Store: an administrator's new row and the schedule that goes with it.
LEMMA StoreKeeps ==
  ASSUME IInv, NEW d \in Domains, NEW row \in Rows, row.version = domain[d].version, Store(d, row)
  PROVE  IInv'
  <1>1. domain[d] \in Rows /\ domain[d].version \in Nat /\ domain[d].version < MaxVersion
    BY DEF IInv, TypeOK, Rows, Store, Room
  <1>2. Changed(row) \in Rows /\ Changed(row).version = row.version + 1
        /\ Changed(row).mon = row.mon /\ Changed(row).life = row.life
    BY <1>1, ChangedType, Zenon
  <1>3. domain' = [domain EXCEPT ![d] = Changed(row)] /\ schedule' = [schedule EXCEPT ![d] = Scheduled(row)]
        /\ UNCHANGED <<origin, import, seen>>
    BY Zenon DEF Store
  <1>4. Scheduled(row) \in BOOLEAN /\ (Scheduled(row) => row.mon /\ row.life = "active")
    BY Zenon DEF Scheduled, Rows
  <1>5. TypeOK'
    BY <1>2, <1>3, <1>4, Zenon DEF IInv, TypeOK
  <1>6. ScheduledOnlyIfMonitored'
    BY <1>2, <1>3, <1>4, Zenon DEF IInv, TypeOK, ScheduledOnlyIfMonitored
  <1>7. \A e \in Domains : Later(domain[e], domain'[e])
    BY <1>1, <1>2, <1>3 DEF IInv, TypeOK, Later, Rows
  <1>8. SeenInv'
    BY <1>3, <1>7, SeenKept, Zenon
  <1> QED BY <1>5, <1>6, <1>8, Zenon DEF IInv

\* Every step keeps the invariant.
LEMMA Step ==
  ASSUME IInv, [Next]_vars
  PROVE  IInv'
  <1>1. ASSUME NEW d \in Domains, NEW mon \in BOOLEAN, Create(d, mon)
        PROVE  IInv'
    <2> DEFINE row == [NoRow EXCEPT !.version = 1, !.mon = mon]
    <2>0. NoRow \in Rows /\ NoRow.life = "active" /\ 1 \in 0 .. MaxVersion
      BY InventoryAssumption DEF NoRow, Rows
    <2>1. row \in Rows /\ row.version = 1 /\ row.mon = mon /\ row.life = "active"
      BY <2>0, Zenon DEF Rows
    <2>2. domain' = [domain EXCEPT ![d] = row] /\ schedule' = [schedule EXCEPT ![d] = mon]
          /\ UNCHANGED <<origin, import, seen>> /\ domain[d] \in Rows /\ domain[d].version = 0
      BY <1>1 DEF Create, Exists, IInv, TypeOK, Rows
    <2> HIDE DEF row
    <2>3. TypeOK'
      BY <2>1, <2>2, Zenon DEF IInv, TypeOK
    <2>4. ScheduledOnlyIfMonitored'
      BY <2>1, <2>2, Zenon DEF IInv, TypeOK, ScheduledOnlyIfMonitored
    <2>5. \A e \in Domains : Later(domain[e], domain'[e])
      BY <2>1, <2>2 DEF IInv, TypeOK, Later, Rows
    <2> QED BY <2>2, <2>3, <2>4, <2>5, SeenKept, Zenon DEF IInv
  <1>2. ASSUME NEW a \in Admins, NEW d \in Domains, Get(a, d)
        PROVE  IInv'
    <2>1. seen' = [seen EXCEPT ![a][d] = domain[d]] /\ UNCHANGED <<domain, schedule, origin, import>>
          /\ domain[d] \in Rows /\ domain[d].version \in Nat
      BY <1>2 DEF Get, IInv, TypeOK, Rows
    <2>2. TypeOK'
      BY <2>1, Zenon DEF IInv, TypeOK
    <2>3. ScheduledOnlyIfMonitored'
      BY <2>1, Zenon DEF IInv, ScheduledOnlyIfMonitored
    <2>4. SeenInv'
      BY <2>1 DEF IInv, TypeOK, SeenInv
    <2> QED BY <2>2, <2>3, <2>4, Zenon DEF IInv
  <1>3. ASSUME NEW a \in Admins, NEW d \in Domains, NEW mon \in BOOLEAN, Patch(a, d, mon)
        PROVE  IInv'
    <2> DEFINE row == [domain[d] EXCEPT !.mon = mon]
    <2>0. domain[d] \in Rows
      BY Zenon DEF IInv, TypeOK
    <2>1. row \in Rows /\ row.version = domain[d].version
      BY <2>0, Zenon DEF Rows
    <2> QED BY <1>3, <2>1, StoreKeeps, Zenon DEF Patch
  <1>4. ASSUME NEW a \in Admins, NEW d \in Domains, Archive(a, d)
        PROVE  IInv'
    <2> DEFINE row == [domain[d] EXCEPT !.life = "archived", !.before = domain[d].mon, !.mon = FALSE]
    <2>0. domain[d] \in Rows
      BY Zenon DEF IInv, TypeOK
    <2>1. row \in Rows /\ row.version = domain[d].version
      BY <2>0, Zenon DEF Rows
    <2> QED BY <1>4, <2>1, StoreKeeps, Zenon DEF Archive
  <1>5. ASSUME NEW a \in Admins, NEW d \in Domains, Restore(a, d)
        PROVE  IInv'
    <2> DEFINE row == [domain[d] EXCEPT !.life = "active", !.mon = domain[d].before]
    <2>0. domain[d] \in Rows
      BY Zenon DEF IInv, TypeOK
    <2>1. row \in Rows /\ row.version = domain[d].version
      BY <2>0, Zenon DEF Rows
    <2> QED BY <1>5, <2>1, StoreKeeps, Zenon DEF Restore
  <1>6. ASSUME NEW i \in Imports, NEW sheet \in Sheets, NEW lists \in [Domains -> Listings],
               NEW action \in [Domains -> Actions], Preview(i, sheet, lists, action)
        PROVE  IInv'
    <2>1. TypeOK'
      BY <1>6, Zenon DEF Preview, IInv, TypeOK
    <2> QED BY <1>6, <2>1, Zenon DEF Preview, IInv, ScheduledOnlyIfMonitored, SeenInv
  <1>7. ASSUME NEW i \in Imports, Apply(i)
        PROVE  IInv'
    <2>1. \A d \in Domains :
            /\ Later(domain[d], AppliedRow(i, d))
            /\ AppliedSchedule(i, d) \in BOOLEAN
            /\ AppliedSchedule(i, d) => AppliedRow(i, d).mon /\ AppliedRow(i, d).life = "active"
      BY <1>7, AppliedFacts, Zenon DEF Apply
    <2>2. domain' = [d \in Domains |-> AppliedRow(i, d)]
          /\ schedule' = [d \in Domains |-> AppliedSchedule(i, d)] /\ seen' = seen
      BY <1>7, Zenon DEF Apply
    <2>3. import[i] \in [ status : {"none", "preview", "applied", "rejected"},
                          sheet  : Sheets \cup {"none"},
                          lists  : [Domains -> Listings],
                          action : [Domains -> Actions] ]
      BY Zenon DEF IInv, TypeOK
    <2>4. import' \in [Imports -> [ status : {"none", "preview", "applied", "rejected"},
                                    sheet  : Sheets \cup {"none"},
                                    lists  : [Domains -> Listings],
                                    action : [Domains -> Actions] ]]
      BY <1>7, <2>3, Zenon DEF Apply, IInv, TypeOK
    <2>5. origin' \in [Domains -> Sheets \cup {"none"}]
      BY <1>7, <2>3, Zenon DEF Apply, IInv, TypeOK
    <2>6. TypeOK'
      BY <2>1, <2>2, <2>4, <2>5, Zenon DEF Later, IInv, TypeOK
    <2>7. ScheduledOnlyIfMonitored'
      BY <2>1, <2>2, Zenon DEF ScheduledOnlyIfMonitored
    <2>8. SeenInv'
      BY <2>1, <2>2, SeenKept, Zenon
    <2> QED BY <2>6, <2>7, <2>8, Zenon DEF IInv
  <1>8. ASSUME NEW i \in Imports, Reject(i)
        PROVE  IInv'
    <2>1. TypeOK'
      BY <1>8, ZenonT(60) DEF Reject, IInv, TypeOK
    <2> QED BY <1>8, <2>1, Zenon DEF Reject, IInv, ScheduledOnlyIfMonitored, SeenInv
  <1>9. CASE UNCHANGED vars
    BY <1>9 DEF vars, IInv, TypeOK, ScheduledOnlyIfMonitored, SeenInv
  <1> QED BY <1>1, <1>2, <1>3, <1>4, <1>5, <1>6, <1>7, <1>8, <1>9, Zenon DEF Next

\* The inductive invariant holds in every reachable state.
THEOREM Invariance == Spec => []IInv
  <1>1. Init => IInv
    <2> SUFFICES ASSUME Init PROVE IInv
      BY Zenon
    <2>1. NoRow \in Rows /\ NoRow.version = 0
      BY InventoryAssumption DEF NoRow, Rows
    <2>2. Blank \in [Domains -> Listings] /\ NoActions \in [Domains -> Actions]
      BY Zenon DEF Blank, Listings, NoActions, Actions
    <2>3. TypeOK
      BY <2>1, <2>2, Zenon DEF Init, TypeOK
    <2> QED BY <2>1, <2>3 DEF Init, IInv, ScheduledOnlyIfMonitored, SeenInv
  <1> QED BY <1>1, Step, PTL DEF Spec

\* Rows, pages and imports keep their types.
THEOREM TypeCorrect == Spec => []TypeOK
  BY Invariance, PTL DEF IInv

\* Only active, monitored domains are scheduled: domain.Service and
\* sheets.Service never leave a schedule behind.
THEOREM ScheduleCorrect == Spec => []ScheduledOnlyIfMonitored
  BY Invariance, PTL DEF IInv

\* The version of a domain identifies its row, so that an administrator
\* never overwrites what the page did not show.
THEOREM VersionsCorrect == Spec => []VersionIdentifiesRow
  <1>1. IInv => VersionIdentifiesRow
    BY Zenon DEF IInv, SeenInv, VersionIdentifiesRow, SameVersion
  <1> QED BY <1>1, Invariance, PTL

\* No import takes a domain out of the archive.
THEOREM ArchiveCorrect == Spec => ArchiveHasPrecedence
  <1> DEFINE Kept == \A d \in Domains :
        Exists(d) /\ domain[d].life = "archived" /\ import' # import =>
          /\ domain'[d].life = "archived"
          /\ domain'[d].mon => domain[d].mon
          /\ domain'[d].before = domain[d].before
  <1>1. IInv /\ [Next]_vars => [Kept]_vars
    <2> SUFFICES ASSUME IInv, Next, NEW d \in Domains,
                        Exists(d), domain[d].life = "archived", import' # import
                 PROVE  /\ domain'[d].life = "archived"
                        /\ domain'[d].mon => domain[d].mon
                        /\ domain'[d].before = domain[d].before
      BY Zenon
    <2>1. ASSUME NEW i \in Imports, Apply(i)
          PROVE  domain'[d] = AppliedRow(i, d) /\ Room(d)
      BY <2>1, Zenon DEF Apply
    <2>2. CASE domain' = domain
      BY <2>2, Zenon
    <2>3. domain' = domain \/ \E i \in Imports : Apply(i)
      BY ZenonT(40) DEF Next, Create, Get, Patch, Archive, Restore, Store, Preview, Reject
    <2> QED BY <2>1, <2>2, <2>3, AppliedFacts, Zenon
  <1> QED BY <1>1, Invariance, PTL DEF Spec, ArchiveHasPrecedence

-----------------------------------------------------------------------------
(***************************************************************************)
(* Provenance: observations are numbered, so that of two the later one is  *)
(* known, and the last word of an override that stands is current.         *)
(***************************************************************************)
\* Every non-empty set of naturals has a least member.
LEMMA LeastNatural ==
  ASSUME NEW T, T \subseteq Nat, T # {}
  PROVE  \E x \in T : \A y \in T : x <= y
<1>1. PICK x \in T : \A y \in T : ~(<<y, x>> \in OpToRel(<, Nat))
  BY WFMin, NatLessThanWellFounded, Zenon
<1>2. \A y \in T : ~(y < x)
  BY <1>1, Zenon DEF OpToRel
<1> QED
  BY <1>2

\* The number a new observation takes is free, and greater than all before.
LEMMA NextSlotFree ==
  ASSUME HasRoom
  PROVE  NextSlot \in 1 .. MaxObservations /\ \A p \in observations : p.n < NextSlot
<1>1. Slots # {} /\ Slots \subseteq Nat
  BY ProvenanceAssumption DEF HasRoom, Slots
<1>2. \E n \in Slots : \A m \in Slots : n <= m
  BY <1>1, LeastNatural, Zenon
<1>3. NextSlot \in Slots
  BY <1>2, Zenon DEF NextSlot
<1> QED
  BY <1>3, Zenon DEF Slots

\* An observation of an override that still stands, with none but registration data since.
LastWord(p) ==
  /\ \E o \in Unrevoked : p.override = o.id
  /\ \A q \in observations : q.source = "rdap" \/ q.n <= p.n

\* An observation made by an override names one that exists.
OverrideKnown(p) == p.override # NoOverride => \E o \in overrides : o.id = p.override

\* The inductive invariant: ids of overrides are unique, observations name overrides that exist, at
\* most one is current, and the last word of an override that stands is.
ProvenanceInv ==
  /\ ProvenanceTypeOK
  /\ \A a \in OverrideAdmins : creating[a].open => creating[a].value \in Dates
  /\ \A o, r \in overrides : o.id = r.id => o = r
  /\ \A p \in observations : OverrideKnown(p)
  /\ AtMostOneCurrent(observations)
  /\ \A p \in observations : LastWord(p) => p.current

\* Demoted keeps the observations but for which is current.
LEMMA DemotedSame ==
  ASSUME ProvenanceTypeOK
  PROVE  /\ Demoted \subseteq Observations
         /\ \A q \in Demoted : ~q.current /\ \E p \in observations :
              q.n = p.n /\ q.source = p.source /\ q.override = p.override
         /\ \A p \in observations : \E q \in Demoted :
              q.n = p.n /\ q.source = p.source /\ q.override = p.override
<1> DEFINE f(p) == [p EXCEPT !.current = FALSE]
<1>1. \A p \in observations : /\ f(p) \in Observations /\ f(p).current = FALSE
                              /\ f(p).n = p.n /\ f(p).source = p.source /\ f(p).override = p.override
  BY ZenonT(40) DEF ProvenanceTypeOK, Observations
<1>2. Demoted = {f(p) : p \in observations}
  BY Zenon DEF Demoted
<1> HIDE DEF f
<1> QED
  BY <1>1, <1>2, Zenon

\* A new current observation, after which the ones before it have not the last word.
LEMMA SetProvenanceKeeps ==
  ASSUME ProvenanceInv, HasRoom, NEW source \in {"manual", "google_sheet"},
         NEW override \in OverrideIds \cup {NoOverride}, NEW value \in Dates,
         SetProvenance(source, override, value)
  PROVE  /\ observations' \subseteq Observations
         /\ \A q \in observations' : q.override = override \/ \E p \in observations : q.override = p.override
         /\ AtMostOneCurrent(observations')
         /\ \A p \in observations' : LastWord(p)' => p.current
<1> DEFINE new == [n |-> NextSlot, source |-> source, override |-> override, value |-> value,
                   observed |-> overrideTime, current |-> TRUE]
<1>1. NextSlot \in 1 .. MaxObservations /\ \A p \in observations : p.n < NextSlot
  BY NextSlotFree, Zenon
<1>2. overrideTime \in OverrideTimes
  BY ProvenanceAssumption DEF ProvenanceInv, ProvenanceTypeOK, OverrideTimes
<1>3. new \in Observations /\ new.n = NextSlot /\ new.source = source /\ new.override = override /\ new.current
  BY <1>1, <1>2, Zenon DEF Observations
<1>4. observations' = Demoted \cup {new}
  BY Zenon DEF SetProvenance
<1> HIDE DEF new
<1>5. \A q \in Demoted : ~q.current /\ q.n < new.n
  BY <1>1, <1>3, DemotedSame, Zenon DEF ProvenanceInv
<1>6. \A q \in Demoted : ~LastWord(q)'
  <2> SUFFICES ASSUME NEW q \in Demoted, LastWord(q)'
               PROVE  FALSE
    BY Zenon
  <2>1. q.n \in Nat /\ new.n \in Nat
    BY <1>1, <1>3, DemotedSame, ProvenanceAssumption DEF ProvenanceInv, Observations
  <2>2. new.source = "rdap" \/ new.n <= q.n
    BY <1>4, Zenon DEF LastWord
  <2> QED
    BY <1>3, <1>5, <2>1, <2>2
<1> QED
  BY <1>3, <1>4, <1>5, <1>6, DemotedSame, Zenon DEF ProvenanceInv, AtMostOneCurrent

\* Editing, importing, overriding, revoking, lookups and time keep ProvenanceInv.
LEMMA ProvenanceStep ==
  ASSUME ProvenanceInv, [ProvenanceNext]_provenanceVars
  PROVE  ProvenanceInv'
<1>1. ASSUME NEW v \in Dates \cup {NoDate}, PatchExpiration(v)
      PROVE  ProvenanceInv'
  BY <1>1, Zenon DEF ProvenanceInv, PatchExpiration, ProvenanceTypeOK, OverrideKnown, LastWord, Unrevoked
<1>2. ASSUME NEW v \in Dates \cup {NoDate}, ApplySheetRow(v)
      PROVE  ProvenanceInv'
  <2>1. HasRoom /\ UNCHANGED <<overrideTime, overrides, creating, lookup>> /\ expiration' \in Dates \cup {NoDate}
    BY <1>2, Zenon DEF ApplySheetRow, ShieldedBy, ProvenanceInv, ProvenanceTypeOK
  <2>2. CASE v = NoDate
    BY <1>2, <2>1, <2>2, Zenon DEF ApplySheetRow, ProvenanceInv, ProvenanceTypeOK, OverrideKnown, LastWord, Unrevoked
  <2>3. CASE v # NoDate
    <3>1. SetProvenance("google_sheet", NoOverride, v) /\ v \in Dates
      BY <1>2, <2>3, Zenon DEF ApplySheetRow
    <3>2. /\ observations' \subseteq Observations
          /\ \A q \in observations' : q.override = NoOverride \/ \E p \in observations : q.override = p.override
          /\ AtMostOneCurrent(observations')
          /\ \A p \in observations' : LastWord(p)' => p.current
      BY <2>1, <3>1, SetProvenanceKeeps, Zenon
    <3> QED
      BY <2>1, <3>2 DEF ProvenanceInv, ProvenanceTypeOK, OverrideKnown
  <2> QED
    BY <2>2, <2>3, Zenon
<1>3. ASSUME NEW a \in OverrideAdmins, NEW v \in Dates, BeginOverride(a, v)
      PROVE  ProvenanceInv'
  <2>1. {o.id : o \in Unrevoked} \in SUBSET OverrideIds
    BY DEF Unrevoked, ProvenanceInv, ProvenanceTypeOK, OverrideRows
  <2>2. UNCHANGED <<overrideTime, expiration, overrides, observations, lookup>>
    BY <1>3, Zenon DEF BeginOverride
  <2>3. /\ creating' \in [OverrideAdmins -> [open : BOOLEAN, value : Dates \cup {NoDate}, seen : SUBSET OverrideIds]]
        /\ \A b \in OverrideAdmins : creating'[b].open => creating'[b].value \in Dates
    BY <1>3, <2>1, ZenonT(40) DEF BeginOverride, ProvenanceInv, ProvenanceTypeOK
  <2> QED
    BY <2>2, <2>3, Zenon DEF ProvenanceInv, ProvenanceTypeOK, OverrideKnown, LastWord, Unrevoked
<1>4. ASSUME NEW a \in OverrideAdmins, NEW id \in OverrideIds, NEW t \in {Forever, overrideTime + 1}, EndOverride(a, id, t)
      PROVE  ProvenanceInv'
  <2> DEFINE known == creating[a].seen
             row == [id |-> id, value |-> creating[a].value, from |-> overrideTime, expires |-> t, revoked |-> FALSE]
  <2>1. /\ HasRoom /\ id \notin {o.id : o \in overrides} /\ creating[a].value \in Dates
        /\ overrides' = RevokedOf(known) \cup {row}
        /\ SetProvenance("manual", id, creating[a].value)
        /\ creating' = [creating EXCEPT ![a] = NotCreating]
        /\ UNCHANGED <<overrideTime, expiration, lookup>>
    BY <1>4, Zenon DEF EndOverride, ProvenanceInv
  <2>2. row \in OverrideRows /\ row.id = id
    BY <2>1, ProvenanceAssumption DEF OverrideRows, OverrideTimes, Forever, ProvenanceInv, ProvenanceTypeOK
  <2> HIDE DEF row
  <2> DEFINE f(o) == IF o.id \in known THEN [o EXCEPT !.revoked = TRUE] ELSE o
  <2>3. /\ \A o \in overrides : f(o) \in OverrideRows /\ f(o).id = o.id
        /\ RevokedOf(known) = {f(o) : o \in overrides}
    BY ZenonT(40) DEF RevokedOf, ProvenanceInv, ProvenanceTypeOK, OverrideRows
  <2> HIDE DEF f
  <2>4. \A o, r \in overrides' : o.id = r.id => o = r
    BY <2>1, <2>2, <2>3 DEF ProvenanceInv
  <2>5. /\ observations' \subseteq Observations
        /\ \A q \in observations' : q.override = id \/ \E p \in observations : q.override = p.override
        /\ AtMostOneCurrent(observations')
        /\ \A p \in observations' : LastWord(p)' => p.current
    BY <2>1, SetProvenanceKeeps, Zenon
  <2>6. \A q \in observations' : OverrideKnown(q)'
    BY <2>1, <2>2, <2>3, <2>5 DEF ProvenanceInv, OverrideKnown
  <2>7. /\ creating' \in [OverrideAdmins -> [open : BOOLEAN, value : Dates \cup {NoDate}, seen : SUBSET OverrideIds]]
        /\ \A b \in OverrideAdmins : creating'[b].open => creating'[b].value \in Dates
    BY <2>1, Zenon DEF NotCreating, ProvenanceInv, ProvenanceTypeOK
  <2> QED
    BY <2>1, <2>2, <2>3, <2>4, <2>5, <2>6, <2>7 DEF ProvenanceInv, ProvenanceTypeOK
<1>5. ASSUME NEW o \in overrides, RevokeOverride(o)
      PROVE  ProvenanceInv'
  <2> DEFINE dead == [o EXCEPT !.revoked = TRUE]
  <2>1. /\ overrides' = (overrides \ {o}) \cup {dead}
        /\ observations' = AfterRevoke(o.id) /\ AtMostOneCurrent(AfterRevoke(o.id))
        /\ UNCHANGED <<overrideTime, expiration, creating, lookup>>
    BY <1>5, Zenon DEF RevokeOverride
  <2>2. dead \in OverrideRows /\ dead.id = o.id /\ dead.revoked
    BY ZenonT(40) DEF ProvenanceInv, ProvenanceTypeOK, OverrideRows
  <2> HIDE DEF dead
  <2>3. /\ AfterRevoke(o.id) \subseteq Observations
        /\ \A q \in AfterRevoke(o.id) : \E p \in observations :
             /\ q.n = p.n /\ q.source = p.source /\ q.override = p.override
             /\ p.current /\ p.override # o.id => q.current
        /\ \A p \in observations : \E q \in AfterRevoke(o.id) : q.n = p.n /\ q.source = p.source
    <3> DEFINE f(p) == [p EXCEPT !.current = p \in NewestOther(o.id) \/ (p.current /\ p.override # o.id)]
    <3>1. \A p \in observations : /\ f(p) \in Observations
                                  /\ f(p).n = p.n /\ f(p).source = p.source /\ f(p).override = p.override
                                  /\ p.current /\ p.override # o.id => f(p).current
      BY ZenonT(60) DEF ProvenanceInv, ProvenanceTypeOK, Observations
    <3>2. AfterRevoke(o.id) = {f(p) : p \in observations}
      BY Zenon DEF AfterRevoke
    <3> HIDE DEF f
    <3> QED
      BY <3>1, <3>2, Zenon
  <2>4. \A q \in observations' : LastWord(q)' => q.current
    <3> SUFFICES ASSUME NEW q \in observations', LastWord(q)'
                 PROVE  q.current
      BY Zenon
    <3>1. PICK p \in observations : /\ q.n = p.n /\ q.source = p.source /\ q.override = p.override
                                    /\ p.current /\ p.override # o.id => q.current
      BY <2>1, <2>3, Zenon
    <3>2. PICK r \in Unrevoked' : q.override = r.id
      BY Zenon DEF LastWord
    <3>3. r \in overrides /\ ~r.revoked /\ r.id # o.id
      BY <2>1, <2>2, <3>2, Zenon DEF Unrevoked, ProvenanceInv
    <3>4. \A x \in observations : x.source = "rdap" \/ x.n <= p.n
      BY <2>1, <2>3, <3>1 DEF LastWord
    <3>5. p.current
      BY <3>1, <3>2, <3>3, <3>4, Zenon DEF LastWord, Unrevoked, ProvenanceInv
    <3> QED
      BY <3>1, <3>2, <3>3, <3>5, Zenon
  <2>5. \A q \in observations' : OverrideKnown(q)'
    <3>1. \A p \in observations : p.override # NoOverride => \E x \in overrides : x.id = p.override
      BY Zenon DEF ProvenanceInv, OverrideKnown
    <3>2. \A x \in overrides : \E y \in overrides' : y.id = x.id
      BY <2>1, <2>2, Zenon
    <3>3. \A q \in observations' : \E p \in observations : q.override = p.override
      BY <2>1, <2>3, Zenon
    <3> QED
      BY <3>1, <3>2, <3>3 DEF OverrideKnown
  <2>6. \A x, r \in overrides' : x.id = r.id => x = r
    BY <2>1, <2>2 DEF ProvenanceInv
  <2> QED
    BY <2>1, <2>2, <2>3, <2>4, <2>5, <2>6, Zenon DEF ProvenanceInv, ProvenanceTypeOK
<1>6. ASSUME BeginLookup
      PROVE  ProvenanceInv'
  <2>1. lookup' \in [open : BOOLEAN, at : OverrideTimes]
    BY <1>6, ProvenanceAssumption DEF BeginLookup, OverrideTimes, ProvenanceInv, ProvenanceTypeOK
  <2> QED
    BY <1>6, <2>1, Zenon DEF BeginLookup, ProvenanceInv, ProvenanceTypeOK, OverrideKnown, LastWord, Unrevoked
<1>7. ASSUME NEW v \in Dates, EndLookup(v)
      PROVE  ProvenanceInv'
  <2> DEFINE new == [n |-> NextSlot, source |-> "rdap", override |-> NoOverride, value |-> v,
                     observed |-> lookup.at, current |-> FALSE]
  <2>1. HasRoom /\ observations' = observations \cup {new} /\ lookup' = NotLooking
        /\ UNCHANGED <<overrideTime, expiration, overrides, creating>>
    BY <1>7, Zenon DEF EndLookup
  <2>2. new \in Observations /\ new.override = NoOverride /\ ~new.current
    BY <2>1, NextSlotFree, Zenon DEF Observations, ProvenanceInv, ProvenanceTypeOK
  <2>3. NotLooking \in [open : BOOLEAN, at : OverrideTimes]
    BY ProvenanceAssumption DEF NotLooking, OverrideTimes
  <2> HIDE DEF new
  <2>4. \A p \in observations' : LastWord(p)' => p.current
    <3>1. \A p : p.override = NoOverride => ~LastWord(p)'
      BY <2>1, <2>2, ProvenanceAssumption DEF LastWord, Unrevoked, NoOverride, ProvenanceInv, ProvenanceTypeOK, OverrideRows
    <3>2. \A p \in observations : LastWord(p)' => LastWord(p)
      BY <2>1, Zenon DEF LastWord, Unrevoked
    <3> QED
      BY <2>1, <2>2, <3>1, <3>2, ZenonT(40) DEF ProvenanceInv
  <2> QED
    BY <2>1, <2>2, <2>3, <2>4, Zenon DEF ProvenanceInv, ProvenanceTypeOK, OverrideKnown, AtMostOneCurrent
<1>8. ASSUME OverrideTick
      PROVE  ProvenanceInv'
  BY <1>8, ProvenanceAssumption DEF OverrideTick, ProvenanceInv, ProvenanceTypeOK, OverrideKnown, LastWord, Unrevoked
<1>9. CASE UNCHANGED provenanceVars
  BY <1>9, Zenon DEF provenanceVars, ProvenanceInv, ProvenanceTypeOK, OverrideKnown, LastWord, Unrevoked
<1> QED
  BY <1>1, <1>2, <1>3, <1>4, <1>5, <1>6, <1>7, <1>8, <1>9, Zenon DEF ProvenanceNext

\* ProvenanceInv is an invariant.
LEMMA ProvenanceInvariant == ProvenanceSpec => []ProvenanceInv
<1>1. ProvenanceInit => ProvenanceInv
  BY ProvenanceAssumption DEF ProvenanceInit, ProvenanceInv, ProvenanceTypeOK, NotCreating, NotLooking, OverrideTimes, AtMostOneCurrent
<1> QED
  BY <1>1, ProvenanceStep, PTL DEF ProvenanceSpec

\* Of the observations of an expiration at most one is current, and an active override that was
\* recorded last is, whatever was revoked before.
THEOREM ObservationsCorrect == ProvenanceSpec => []CurrentObservation
<1>1. ProvenanceInv => CurrentObservation
  BY Zenon DEF ProvenanceInv, CurrentObservation, LastWord, ActiveOverrides
<1> QED
  BY <1>1, ProvenanceInvariant, PTL

\* While an override is active, nothing that records an observation changes the date the domain falls
\* back to when the override ends.
THEOREM ShieldCorrect == ProvenanceSpec => OverrideShieldsExpiration
<1>1. [ProvenanceNext]_provenanceVars =>
        [ActiveOverrides # {} /\ observations' # observations => expiration' = expiration]_provenanceVars
  BY Zenon DEF ProvenanceNext, provenanceVars, PatchExpiration, ApplySheetRow, ShieldedBy, BeginOverride, EndOverride,
         RevokeOverride, BeginLookup, EndLookup, OverrideTick
<1> QED
  BY <1>1, PTL DEF ProvenanceSpec, OverrideShieldsExpiration

-----------------------------------------------------------------------------
(***************************************************************************)
(* Finance: a cost is closed only if another one follows it, so that no    *)
(* day is left without the cost that counts.                               *)
(***************************************************************************)
\* e follows c: it begins later, when c is over, or was entered later for the same day.
Follows(e, c) ==
  /\ e.domain = c.domain /\ e.source = c.source
  /\ \/ e.from > c.from /\ c.to >= e.from - 1
     \/ e.from = c.from /\ e.n > c.n

\* The inductive invariant: costs are numbered as they are entered, the sheet's begin by today, and a
\* cost that is closed is followed by another before it ends.
FinanceInv ==
  /\ FinanceTypeOK
  /\ IsFiniteSet(costs)
  /\ \A c \in costs : c.n <= Cardinality(costs)
  /\ \A c, e \in costs : c.n = e.n => c = e
  /\ \A c \in costs : c.source = "google_sheet" => c.from <= today
  /\ \A c \in costs : c.to = Open \/ \E e \in costs : Follows(e, c)
-----------------------------------------------------------------------------
\* The costs are numbered and dated.
LEMMA CostTypes ==
  ASSUME FinanceInv
  PROVE  /\ IsFiniteSet(costs) /\ Cardinality(costs) \in Nat /\ costs \subseteq CostRows
         /\ \A c \in CostRows : c.n \in Nat /\ c.from \in Nat /\ c.to \in Nat
<1>1. IsFiniteSet(costs) /\ costs \subseteq CostRows
  BY Zenon DEF FinanceInv, FinanceTypeOK
<1>2. \A c \in CostRows : c.n \in Nat /\ c.from \in Nat /\ c.to \in Nat
  BY FinanceAssumption DEF CostRows, Days
<1> QED
  BY <1>1, <1>2, FS_CardinalityType, Zenon

\* Closing costs and entering the one that follows them.
LEMMA ReplaceKeeps ==
  ASSUME FinanceInv, Cardinality(costs) < MaxCosts,
         NEW F \in [costs -> CostRows], NEW new \in CostRows,
         new.n = Cardinality(costs) + 1, new.to = Open,
         new.source = "google_sheet" => new.from <= today,
         \A c \in costs : /\ F[c].n = c.n /\ F[c].domain = c.domain /\ F[c].source = c.source /\ F[c].from = c.from
                          /\ F[c].to = c.to \/ Follows(new, F[c]),
         costs' = {F[c] : c \in costs} \cup {new},
         UNCHANGED <<today, rates, taxed>>
  PROVE  FinanceInv'
<1> DEFINE old == {F[c] : c \in costs}
<1>1. /\ IsFiniteSet(costs) /\ Cardinality(costs) \in Nat /\ costs \subseteq CostRows
      /\ \A c \in CostRows : c.n \in Nat /\ c.from \in Nat /\ c.to \in Nat
  BY CostTypes, Zenon
<1>2. F \in Injection(costs, old) /\ F \in Surjection(costs, old)
  BY DEF Injection, Surjection, IsInjective, FinanceInv
<1>3. IsFiniteSet(old) /\ Cardinality(old) = Cardinality(costs)
  BY <1>1, <1>2, FS_Surjection, Zenon
<1>4. \A e \in old : e.n <= Cardinality(costs)
  BY DEF FinanceInv
<1>5. new \notin old
  BY <1>1, <1>4
<1>6. IsFiniteSet(costs') /\ Cardinality(costs') = Cardinality(costs) + 1
  <2>1. costs' = old \cup {new}
    BY Zenon
  <2> HIDE DEF old
  <2> QED
    BY <1>3, <1>5, <2>1, FS_AddElement
<1>7. \A c \in costs' : c.n <= Cardinality(costs')
  BY <1>1, <1>4, <1>6
<1>8. \A c, e \in costs' : c.n = e.n => c = e
  BY <1>1, <1>4 DEF FinanceInv
<1>9. \A c \in costs' : c.source = "google_sheet" => c.from <= today'
  BY DEF FinanceInv
<1>10. \A c \in costs' : c.to = Open \/ \E e \in costs' : Follows(e, c)
  <2> SUFFICES ASSUME NEW c \in costs, F[c].to # Open
               PROVE  \E e \in costs' : Follows(e, F[c])
    OBVIOUS
  <2>1. CASE F[c].to = c.to
    <3>1. PICK e \in costs : Follows(e, c)
      BY <2>1, Zenon DEF FinanceInv
    <3>2. Follows(F[e], F[c])
      BY <2>1, <3>1, Zenon DEF Follows
    <3> QED
      BY <3>2, Zenon
  <2>2. CASE Follows(new, F[c])
    BY <2>2, ZenonT(40)
  <2> QED
    BY <2>1, <2>2, ZenonT(40)
<1>11. FinanceTypeOK'
  BY DEF FinanceInv, FinanceTypeOK
<1> QED
  BY <1>6, <1>7, <1>8, <1>9, <1>10, <1>11, Zenon DEF FinanceInv

\* AddCost closes the cost before and keeps FinanceInv.
LEMMA AddCostKeeps ==
  ASSUME FinanceInv, NEW d \in Portfolio, NEW kind \in CostKinds, NEW from \in Days, AddCost(d, kind, from)
  PROVE  FinanceInv'
<1> DEFINE open == ClosedByManual(d, from)
           closed(c) == [c EXCEPT !.to = from - 1]
           new == [n |-> Cardinality(costs) + 1, domain |-> d, source |-> "manual", kind |-> kind,
                   from |-> from, to |-> Open]
           F == [c \in costs |-> IF c \in open THEN closed(c) ELSE c]
<1>1. /\ Cardinality(costs) < MaxCosts /\ Cardinality(costs) \in Nat /\ UNCHANGED <<today, rates, taxed>>
      /\ costs' = (costs \ open) \cup {closed(c) : c \in open} \cup {new}
  BY FS_CardinalityType, Zenon DEF AddCost, ReplaceCosts, FinanceInv
<1>2. /\ new \in CostRows /\ new.n = Cardinality(costs) + 1 /\ new.to = Open
      /\ new.domain = d /\ new.source = "manual" /\ new.from = from
  BY <1>1, FinanceAssumption DEF CostRows, Sources, Open, Days
<1>3. \A c \in open : /\ closed(c) \in CostRows /\ closed(c).n = c.n /\ closed(c).domain = d /\ closed(c).source = "manual"
                      /\ closed(c).from = c.from /\ closed(c).to = from - 1 /\ c.from < from
                      /\ c \in costs /\ c.domain = d /\ c.source = "manual" /\ from - 1 \in Nat
  BY FinanceAssumption DEF ClosedByManual, OpenOf, FinanceInv, FinanceTypeOK, CostRows, Days
<1> HIDE DEF new, closed
<1>4. F \in [costs -> CostRows]
  BY <1>3, ZenonT(40) DEF FinanceInv, FinanceTypeOK
<1>5. \A c \in open : Follows(new, closed(c))
  BY <1>2, <1>3, FinanceAssumption DEF Follows, Days, CostRows
<1>6. costs' = {F[c] : c \in costs} \cup {new}
  BY <1>1, <1>3
<1>7. \A c \in costs : /\ F[c].n = c.n /\ F[c].domain = c.domain /\ F[c].source = c.source /\ F[c].from = c.from
                       /\ F[c].to = c.to \/ Follows(new, F[c])
  BY <1>3, <1>5, ZenonT(40)
<1> HIDE DEF F
<1> QED
  BY <1>1, <1>2, <1>4, <1>6, <1>7, ReplaceKeeps, Zenon

\* UpsertSheetCost writes over or follows the sheet's last cost, and keeps FinanceInv.
LEMMA UpsertKeeps ==
  ASSUME FinanceInv, NEW d \in Portfolio, NEW kind \in CostKinds, UpsertSheetCost(d, kind)
  PROVE  FinanceInv'
<1> DEFINE open == OpenOf(d, "google_sheet")
           closed(c) == [c EXCEPT !.to = EndOfSheetCost(c)]
           new == [n |-> Cardinality(costs) + 1, domain |-> d, source |-> "google_sheet", kind |-> kind,
                   from |-> today, to |-> Open]
           F == [c \in costs |-> IF c \in open THEN closed(c) ELSE c]
<1>1. /\ Cardinality(costs) < MaxCosts /\ Cardinality(costs) \in Nat /\ UNCHANGED <<today, rates, taxed>>
      /\ costs' = (costs \ open) \cup {closed(c) : c \in open} \cup {new}
      /\ today \in Days /\ today \in Nat
  BY FS_CardinalityType, FinanceAssumption DEF UpsertSheetCost, ReplaceCosts, FinanceInv, FinanceTypeOK, Days
<1>2. /\ new \in CostRows /\ new.n = Cardinality(costs) + 1 /\ new.to = Open
      /\ new.domain = d /\ new.source = "google_sheet" /\ new.from = today
  BY <1>1, FinanceAssumption DEF CostRows, Sources, Open
<1>3. \A c \in open : /\ c \in costs /\ c.domain = d /\ c.source = "google_sheet" /\ c.from <= today /\ c.from \in Nat
                      /\ c \in CostRows /\ c.n \in Nat /\ c.n <= Cardinality(costs)
  BY FinanceAssumption DEF OpenOf, FinanceInv, FinanceTypeOK, CostRows, Days
<1>4. \A c \in open : EndOfSheetCost(c) \in 0 .. LastDay
  BY <1>1, FinanceAssumption DEF EndOfSheetCost, Days
<1>5. \A c \in open : /\ closed(c) \in CostRows /\ closed(c).n = c.n /\ closed(c).domain = d /\ closed(c).source = "google_sheet"
                      /\ closed(c).from = c.from /\ closed(c).to = EndOfSheetCost(c)
  BY <1>3, <1>4, Zenon DEF CostRows
<1> HIDE DEF new, closed
<1>6. F \in [costs -> CostRows]
  BY <1>5, Zenon DEF FinanceInv, FinanceTypeOK
<1>7. \A c \in open : Follows(new, closed(c))
  BY <1>1, <1>2, <1>3, <1>5 DEF Follows, EndOfSheetCost
<1>8. costs' = {F[c] : c \in costs} \cup {new}
  BY <1>1, <1>3, Zenon
<1>9. \A c \in costs : /\ F[c].n = c.n /\ F[c].domain = c.domain /\ F[c].source = c.source /\ F[c].from = c.from
                       /\ F[c].to = c.to \/ Follows(new, F[c])
  BY <1>3, <1>5, <1>7, Zenon
<1> HIDE DEF F
<1> QED
  BY <1>1, <1>2, <1>6, <1>8, <1>9, ReplaceKeeps

\* FinanceInv is an invariant.
LEMMA FinanceInvariant == FinanceSpec => []FinanceInv
<1>1. FinanceInit => FinanceInv
  BY FinanceAssumption, FS_EmptySet DEF FinanceInit, FinanceInv, FinanceTypeOK, Days
<1>2. FinanceInv /\ [FinanceNext]_financeVars => FinanceInv'
  <2> SUFFICES ASSUME FinanceInv, [FinanceNext]_financeVars
               PROVE  FinanceInv'
    BY Zenon
  <2>1. ASSUME NEW d \in Portfolio, OverrideTax(d)
        PROVE  FinanceInv'
    BY <2>1, Zenon DEF OverrideTax, FinanceInv, FinanceTypeOK
  <2>2. ASSUME NEW observed \in {today, today + 1}, AddRate(observed)
        PROVE  FinanceInv'
    <3>1. observed \in 1 .. LastDay + 1
      BY FinanceAssumption DEF FinanceInv, FinanceTypeOK, Days
    <3> QED
      BY <2>2, <3>1, ZenonT(40) DEF AddRate, FinanceInv, FinanceTypeOK
  <2>3. ASSUME NextDay
        PROVE  FinanceInv'
    <3>1. today' \in Days /\ today <= today' /\ today \in Nat /\ today' \in Nat
      BY <2>3, FinanceAssumption DEF NextDay, FinanceInv, FinanceTypeOK, Days
    <3>2. \A c \in costs : c.from \in Nat
      BY FinanceAssumption DEF FinanceInv, FinanceTypeOK, CostRows, Days
    <3>3. \A c \in costs : c.source = "google_sheet" => c.from <= today'
      BY <3>1, <3>2 DEF FinanceInv
    <3> QED
      BY <2>3, <3>1, <3>3, ZenonT(40) DEF NextDay, FinanceInv, FinanceTypeOK
  <2>4. CASE UNCHANGED financeVars
    BY <2>4, Zenon DEF financeVars, FinanceInv, FinanceTypeOK
  <2> QED
    BY <2>1, <2>2, <2>3, <2>4, AddCostKeeps, UpsertKeeps, Zenon DEF FinanceNext
<1> QED
  BY <1>1, <1>2, PTL DEF FinanceSpec
-----------------------------------------------------------------------------
\* Of costs entered there is a last one, and only one.
LEMMA LastExists ==
  ASSUME FinanceInv, NEW entered, entered \subseteq costs, entered # {}
  PROVE  \E m : LastOf(entered) = {m}
<1>1. \A c \in entered : c.from \in 1 .. LastDay /\ c.n \in 1 .. MaxCosts
  BY Zenon DEF FinanceInv, FinanceTypeOK, CostRows, Days
<1>2. LastDay \in Nat /\ MaxCosts \in Nat
  BY FinanceAssumption, Zenon
<1>3. PICK c \in entered : \A e \in entered : e.from <= c.from
  <2>1. {LastDay - e.from : e \in entered} \subseteq Nat
    BY <1>1, <1>2
  <2>2. PICK x \in {LastDay - e.from : e \in entered} : \A y \in {LastDay - e.from : e \in entered} : x <= y
    BY <2>1, LeastNatural, Zenon
  <2>3. PICK c \in entered : x = LastDay - c.from
    BY <2>2, Zenon
  <2>4. \A e \in entered : LastDay - c.from <= LastDay - e.from
    BY <2>2, <2>3, Zenon
  <2> QED
    BY <1>1, <1>2, <2>4
<1> DEFINE top == {e \in entered : e.from = c.from}
<1>4. PICK m \in top : \A e \in top : e.n <= m.n
  <2>1. {MaxCosts - e.n : e \in top} \subseteq Nat /\ c \in top
    BY <1>1, <1>2
  <2>2. PICK x \in {MaxCosts - e.n : e \in top} : \A y \in {MaxCosts - e.n : e \in top} : x <= y
    BY <2>1, LeastNatural, Zenon
  <2>3. PICK m \in top : x = MaxCosts - m.n
    BY <2>2, Zenon
  <2>4. \A e \in top : MaxCosts - m.n <= MaxCosts - e.n
    BY <2>2, <2>3, Zenon
  <2> QED
    BY <1>1, <1>2, <2>4
<1>5. m \in LastOf(entered)
  BY <1>1, <1>3, <1>4 DEF LastOf
<1>6. \A e \in LastOf(entered) : e = m
  BY <1>1, <1>5 DEF LastOf, FinanceInv
<1> QED
  BY <1>5, <1>6, Zenon

\* The last cost entered by a source for a day is in effect on it: what closed it begins later.
LEMMA LastInEffect ==
  ASSUME FinanceInv, NEW d, NEW source, NEW day \in Days, NEW m \in LastOf(EnteredBy(d, source, day))
  PROVE  m \in InEffect(d, day)
<1>1. /\ m \in costs /\ m.domain = d /\ m.source = source /\ m.from <= day
      /\ \A e \in EnteredBy(d, source, day) : m.from > e.from \/ (m.from = e.from /\ m.n >= e.n)
  BY Zenon DEF LastOf, EnteredBy
<1>2. \A c \in costs : c.from \in Nat /\ c.n \in Nat /\ c.to \in Nat
  BY FinanceAssumption DEF FinanceInv, FinanceTypeOK, CostRows, Days
<1>3. day \in Nat
  BY FinanceAssumption DEF Days
<1>4. ASSUME NEW e \in costs, Follows(e, m)
      PROVE  m.to >= day
  <2>1. e \notin EnteredBy(d, source, day)
    BY <1>1, <1>2, <1>4 DEF Follows
  <2>2. e.from > day
    BY <1>1, <1>2, <1>3, <1>4, <2>1 DEF Follows, EnteredBy
  <2> QED
    BY <1>1, <1>2, <1>3, <1>4, <2>2 DEF Follows
<1> QED
  BY <1>1, <1>4, Zenon DEF FinanceInv, InEffect

\* On every day, past or to come, the cost that counts is the sheet's last one begun by that day, else
\* the manual one that begins last, and was entered last of several: closing a cost hides none.
THEOREM CostsCorrect == FinanceSpec => []CostInEffect
<1>1. FinanceInv => CostInEffect
  <2> SUFFICES ASSUME FinanceInv, NEW d \in Portfolio, NEW day \in Days
               PROVE  CostOn(d, day) = IF LastOf(EnteredBy(d, "google_sheet", day)) # {}
                                       THEN LastOf(EnteredBy(d, "google_sheet", day))
                                       ELSE LastOf(EnteredBy(d, "manual", day))
    BY Zenon DEF CostInEffect
  <2> DEFINE sheet == EnteredBy(d, "google_sheet", day)
             manual == EnteredBy(d, "manual", day)
  <2>1. /\ \A c \in InEffect(d, day) : c \in sheet \/ c \in manual
        /\ \A c \in sheet : c \in costs /\ c.source = "google_sheet"
        /\ \A c \in manual : c \in costs /\ c.source = "manual"
        /\ sheet \subseteq costs /\ manual \subseteq costs /\ InEffect(d, day) \subseteq costs
    BY Zenon DEF InEffect, EnteredBy, FinanceInv, FinanceTypeOK, CostRows, Sources
  <2>2. \A c \in costs : c.from \in Nat /\ c.n \in Nat
    BY FinanceAssumption DEF FinanceInv, FinanceTypeOK, CostRows, Days
  <2>3. CASE sheet # {}
    <3>1. PICK m : LastOf(sheet) = {m}
      BY <2>1, <2>3, LastExists, Zenon
    <3>2. m \in InEffect(d, day) /\ m \in sheet /\ \A e \in sheet : m.from > e.from \/ (m.from = e.from /\ m.n >= e.n)
      BY <3>1, LastInEffect, ZenonT(40) DEF LastOf
    <3>3. \A e \in InEffect(d, day) : Precedes(m, e)
      BY <2>1, <2>2, <3>2 DEF Precedes, Rank
    <3>4. \A e \in InEffect(d, day) : Precedes(e, m) => e = m
      <4> SUFFICES ASSUME NEW e \in InEffect(d, day), Precedes(e, m)
                   PROVE  e = m
        BY ZenonT(40)
      <4>1. e \in sheet
        BY <2>1, <3>2 DEF Precedes, Rank
      <4>2. e.n = m.n
        BY <2>1, <2>2, <3>2, <4>1 DEF Precedes, Rank
      <4> QED
        BY <2>1, <3>2, <4>1, <4>2, Zenon DEF FinanceInv
    <3>5. CostOn(d, day) = {m}
      BY <3>2, <3>3, <3>4, Zenon DEF CostOn
    <3> QED
      BY <3>1, <3>5, Zenon
  <2>4. CASE sheet = {} /\ manual # {}
    <3>1. PICK m : LastOf(manual) = {m}
      BY <2>1, <2>4, LastExists, Zenon
    <3>2. m \in InEffect(d, day) /\ m \in manual /\ \A e \in manual : m.from > e.from \/ (m.from = e.from /\ m.n >= e.n)
      BY <3>1, LastInEffect, Zenon DEF LastOf
    <3>3. \A e \in InEffect(d, day) : Precedes(m, e)
      BY <2>1, <2>2, <2>4, <3>2, Zenon DEF Precedes
    <3>4. \A e \in InEffect(d, day) : Precedes(e, m) => e = m
      <4> SUFFICES ASSUME NEW e \in InEffect(d, day), Precedes(e, m)
                   PROVE  e = m
        BY Zenon
      <4>1. e \in manual
        BY <2>1, <2>4, Zenon
      <4>2. e.n = m.n
        BY <2>1, <2>2, <3>2, <4>1 DEF Precedes, Rank
      <4> QED
        BY <2>1, <3>2, <4>1, <4>2, Zenon DEF FinanceInv
    <3>5. CostOn(d, day) = {m}
      BY <3>2, <3>3, <3>4, Zenon DEF CostOn
    <3>6. LastOf(sheet) = {}
      BY <2>4, Zenon DEF LastOf
    <3> QED
      BY <3>1, <3>5, <3>6, Zenon
  <2>5. CASE sheet = {} /\ manual = {}
    <3>1. InEffect(d, day) = {} /\ LastOf(sheet) = {} /\ LastOf(manual) = {}
      BY <2>1, <2>5, Zenon DEF LastOf
    <3> QED
      BY <3>1, Zenon DEF CostOn
  <2> QED
    BY <2>3, <2>4, <2>5, Zenon
<1> QED
  BY <1>1, FinanceInvariant, PTL

\* A budget that calls itself complete has, for every active domain, a cost begun by today whose tax is
\* known or overridden, and counts no foreign cost without a rate of the last RateMaxAge days.
THEOREM BudgetCorrect == FinanceSpec => []CompleteBudgetIsWhole
<1>1. FinanceInv => CompleteBudgetIsWhole
  <2> SUFFICES ASSUME FinanceInv, Complete, NEW d \in Portfolio
               PROVE  /\ \E c \in costs : c.domain = d /\ c.from <= today /\ (c.kind # "untaxed" \/ d \in taxed)
                      /\ (\A r \in rates : r + RateMaxAge < today) => \A c \in CostOn(d, today) : c.kind # "foreign"
    BY Zenon DEF CompleteBudgetIsWhole
  <2> DEFINE cost == CHOOSE c \in CostOn(d, today) : TRUE
  <2>1. BudgetClass(d) = "known"
    BY Zenon DEF Complete
  <2>2. /\ CostOn(d, today) # {} /\ (cost.kind # "untaxed" \/ d \in taxed)
        /\ cost.kind # "foreign" \/ Convertible
    BY <2>1, Zenon DEF BudgetClass
  <2>3. cost \in CostOn(d, today)
    BY <2>2, Zenon
  <2>4. cost \in costs /\ cost.domain = d /\ cost.from <= today
    BY <2>3, Zenon DEF CostOn, InEffect
  <2>5. ASSUME NEW c \in CostOn(d, today)
        PROVE  c = cost
    <3>1. c \in costs /\ cost \in costs /\ Precedes(c, cost) /\ Precedes(cost, c)
      BY <2>3, Zenon DEF CostOn, InEffect
    <3>2. \A e \in costs : e.from \in Nat /\ e.n \in Nat /\ Rank(e.source) \in Nat
      BY FinanceAssumption DEF FinanceInv, FinanceTypeOK, CostRows, Days, Rank
    <3> HIDE DEF cost
    <3>3. c.n = cost.n
      BY <3>1, <3>2 DEF Precedes
    <3> QED
      BY <3>1, <3>3, Zenon DEF FinanceInv
  <2>6. (\A r \in rates : r + RateMaxAge < today) => ~Convertible
    BY FinanceAssumption DEF Convertible, LatestRate, FinanceInv, FinanceTypeOK, Days
  <2> HIDE DEF cost
  <2> QED
    BY <2>2, <2>4, <2>5, <2>6, Zenon
<1> QED
  BY <1>1, FinanceInvariant, PTL

-----------------------------------------------------------------------------
(***************************************************************************)
(* Recommendations and Reports.                                            *)
(***************************************************************************)
\* Advice that was earned: other than REVIEW only on settled evidence, DROP only for a domain not in use.
Earned(o) == (o.action # "REVIEW" => o.settled) /\ (o.action = "DROP" => o.unused)

GenRecords ==
  [phase : {"idle", "loaded", "locked"}, action : Decisions, settled : BOOLEAN, unused : BOOLEAN, sees : Nat]

\* What was loaded is an outcome of the rules: it is earned before it is stored.
AdviceInv ==
  /\ gen \in [Generators -> GenRecords]
  /\ \A g \in Generators : Earned(gen[g])
  /\ IsFiniteSet(advice)
  /\ DecisionsNeedEvidence

\* The rules in their order decide on settled inputs only.
LEMMA EvaluateEarns ==
  ASSUME NEW o \in Outcomes
  PROVE  Earned(o) /\ o.action \in Decisions /\ o.settled \in BOOLEAN /\ o.unused \in BOOLEAN
<1>1. PICK i \in Inputs : o = [action |-> Evaluate(i), settled |-> Settled(i), unused |-> Unused(i)]
  BY Zenon DEF Outcomes
<1>2. Evaluate(i) \in Decisions /\ Settled(i) \in BOOLEAN /\ Unused(i) \in BOOLEAN
  BY Zenon DEF Evaluate, Decisions, Settled, Unused
<1>3. ASSUME ~(Unknown(i) \/ ISPBlock(i) \/ TechnicalRisk(i) \/ ~i.cost)
      PROVE  Settled(i)
  <2>1. i.availability \in {"ACTIVE", "DEGRADED"} /\ i.checked
    BY <1>3, Zenon DEF Unknown, TechnicalRisk, Inputs
  <2>2. i.dns = "OK"
    BY <1>3, Zenon DEF Unknown, TechnicalRisk, badDNS, Inputs
  <2>3. i.isp = "NOT_DETECTED"
    BY <1>3, Zenon DEF Unknown, ISPBlock, Inputs
  <2>4. i.tls # "EXPIRED" /\ i.incidents = 0 /\ i.cost
    BY <1>3 DEF TechnicalRisk, badTLS, Inputs
  <2> QED
    BY <2>1, <2>2, <2>3, <2>4, Zenon DEF Settled
<1>4. Evaluate(i) # "REVIEW" => Settled(i)
  BY <1>3, Zenon DEF Evaluate
<1>5. Evaluate(i) = "DROP" => Unused(i)
  BY Zenon DEF Evaluate, Droppable, Unused
<1> QED
  BY <1>1, <1>2, <1>4, <1>5, Zenon DEF Earned

\* A generator that gets an earned record keeps the generators sound.
LEMMA GeneratorGets ==
  ASSUME NEW f \in [Generators -> GenRecords], \A g \in Generators : Earned(f[g]),
         NEW c \in Generators, NEW new \in GenRecords, Earned(new)
  PROVE  /\ [f EXCEPT ![c] = new] \in [Generators -> GenRecords]
         /\ \A g \in Generators : Earned([f EXCEPT ![c] = new][g])
<1>1. [f EXCEPT ![c] = new] \in [Generators -> GenRecords]
  BY Zenon
<1>2. ASSUME NEW g \in Generators
      PROVE  [f EXCEPT ![c] = new][g] = f[g] \/ [f EXCEPT ![c] = new][g] = new
  BY Zenon
<1> QED
  BY <1>1, <1>2, Zenon

\* Generate's reads, its lock and its insert keep AdviceInv, however generators interleave.
LEMMA AdviceStep ==
  ASSUME AdviceInv, [RecommendationsNext]_recommendationVars
  PROVE  AdviceInv'
<1>0. /\ gen \in [Generators -> GenRecords] /\ \A g \in Generators : Earned(gen[g])
      /\ IsFiniteSet(advice) /\ DecisionsNeedEvidence
  BY Zenon DEF AdviceInv
<1>1. ASSUME NEW g \in Generators, NEW o \in Outcomes, LoadInputs(g, o)
      PROVE  AdviceInv'
  <2> DEFINE new == [phase |-> "loaded", action |-> o.action, settled |-> o.settled, unused |-> o.unused, sees |-> NoAdvice]
  <2>1. new \in GenRecords
    BY EvaluateEarns, Zenon DEF GenRecords, NoAdvice
  <2>2. new.action = o.action /\ new.settled = o.settled /\ new.unused = o.unused
    BY Zenon
  <2> HIDE DEF new
  <2>3. Earned(new)
    BY <2>2, EvaluateEarns, Zenon DEF Earned
  <2>4. gen' = [gen EXCEPT ![g] = new] /\ advice' = advice
    BY <1>1, Zenon DEF LoadInputs, new
  <2> QED
    BY <1>0, <2>1, <2>3, <2>4, GeneratorGets, ZenonT(40) DEF AdviceInv, DecisionsNeedEvidence
<1>2. ASSUME NEW g \in Generators, LockLatest(g)
      PROVE  AdviceInv'
  <2> DEFINE old == gen[g]
             new == [old EXCEPT !.phase = "locked", !.sees = Newest(g)]
  <2>1. Newest(g) \in Nat
    BY <1>0, FS_CardinalityType, Zenon DEF Newest
  <2>2. old \in GenRecords /\ Earned(old)
    BY <1>0, Zenon
  <2>3. gen' = [gen EXCEPT ![g] = new] /\ advice' = advice
    BY <1>0, <1>2, Zenon DEF LockLatest
  <2> HIDE DEF old
  <2>4. new \in GenRecords /\ new.action = old.action /\ new.settled = old.settled /\ new.unused = old.unused
    BY <2>1, <2>2, Zenon DEF GenRecords
  <2> HIDE DEF new
  <2>5. Earned(new)
    BY <2>2, <2>4, Zenon DEF Earned
  <2> QED
    BY <1>0, <2>3, <2>4, <2>5, GeneratorGets, Zenon DEF AdviceInv, DecisionsNeedEvidence
<1>3. ASSUME NEW g \in Generators, StoreAdvice(g)
      PROVE  AdviceInv'
  <2> DEFINE old == gen[g]
             new == [n |-> Cardinality(advice) + 1, action |-> old.action, settled |-> old.settled,
                     unused |-> old.unused, supersedes |-> old.sees]
  <2>1. IdleGen \in GenRecords
    BY Zenon DEF IdleGen, NoAdvice, Decisions, GenRecords
  <2>2. Earned(IdleGen)
    BY Zenon DEF IdleGen, Earned
  <2>3. gen' = [gen EXCEPT ![g] = IdleGen] /\ advice' = advice \cup {new}
    BY <1>3, Zenon DEF StoreAdvice
  <2>4. new.action = old.action /\ new.settled = old.settled /\ new.unused = old.unused
    BY Zenon
  <2>5. Earned(old)
    BY <1>0, Zenon
  <2> HIDE DEF new, old
  <2>6. DecisionsNeedEvidence'
    BY <1>0, <2>3, <2>4, <2>5, Zenon DEF Earned, DecisionsNeedEvidence
  <2>7. IsFiniteSet(advice')
    BY <1>0, <2>3, FS_AddElement, Zenon
  <2> QED
    BY <1>0, <2>1, <2>2, <2>3, <2>6, <2>7, GeneratorGets, ZenonT(40) DEF AdviceInv
<1>4. CASE UNCHANGED recommendationVars
  BY <1>4, Zenon DEF recommendationVars, AdviceInv, DecisionsNeedEvidence
<1> QED
  BY <1>1, <1>2, <1>3, <1>4, Zenon DEF RecommendationsNext

\* Stored advice other than REVIEW was given on settled evidence (reached, resolved, not blocked, no
\* failed certificate, no open incident, a known cost), and DROP only for a domain not in use.
THEOREM AdviceCorrect == RecommendationsSpec => []DecisionsNeedEvidence
<1>1. RecommendationsInit => AdviceInv
  BY FS_EmptySet DEF RecommendationsInit, AdviceInv, IdleGen, NoAdvice, Decisions, GenRecords, Earned, DecisionsNeedEvidence
<1>2. AdviceInv => DecisionsNeedEvidence
  BY Zenon DEF AdviceInv
<1> QED
  BY <1>1, <1>2, AdviceStep, PTL DEF RecommendationsSpec
-----------------------------------------------------------------------------
\* Every answer is of a stored report, every report has its payload, and no two share a key.
ReportInv ==
  /\ \A a \in received : \E r \in reports : r.id = a.report /\ r.key = a.key
  /\ \A r \in reports : \E p \in payloads : p.report = r.id
  /\ \A r, s \in reports : r.key = s.key => r = s

\* Asking for a report, the queries, the transaction that stores it and every failure keep ReportInv.
LEMMA ReportStep ==
  ASSUME ReportInv, [ReportsNext]_reportVars
  PROVE  ReportInv'
<1>1. ASSUME NEW c \in ReportCalls, NEW k \in ReportKeys, NEW f \in Formats, CreateReport(c, k, f)
      PROVE  ReportInv'
  BY <1>1 DEF ReportInv, CreateReport, OfKey
<1>2. ASSUME NEW c \in ReportCalls, NEW lost \in BOOLEAN, StoreReport(c, lost)
      PROVE  ReportInv'
  <2> DEFINE k == call[c].key
             report == [id |-> NewId, key |-> k, format |-> call[c].format,
                        budget |-> call[c].budget, counts |-> call[c].counts]
             payload == [report |-> NewId, content |-> [format |-> call[c].format, budget |-> call[c].budget,
                                                        counts |-> call[c].counts]]
  <2>1. CASE KeyTaken(k)
    BY <1>2, <2>1, Zenon DEF StoreReport, ReportInv
  <2>2. CASE ~KeyTaken(k)
    <3>1. /\ reports' = reports \cup {report} /\ payloads' = payloads \cup {payload}
          /\ \A a \in received' : a \in received \/ (a.report = NewId /\ a.key = k)
      <4>1. reports' = reports \cup {report}
        BY <1>2, <2>2, Zenon DEF StoreReport
      <4>2. payloads' = payloads \cup {payload}
        BY <1>2, <2>2, Zenon DEF StoreReport
      <4>3. received' = received \/ received' = received \cup {[key |-> k, report |-> NewId]}
        BY <1>2, <2>2, Zenon DEF StoreReport
      <4> HIDE DEF report, payload, k
      <4> QED
        BY <4>1, <4>2, <4>3
    <3>2. report.id = NewId /\ report.key = k /\ payload.report = NewId
      BY Zenon
    <3>3. \A r \in reports : r.key # k
      BY <2>2, Zenon DEF KeyTaken, OfKey
    <3> HIDE DEF report, payload, k
    <3> QED
      BY <3>1, <3>2, <3>3, ZenonT(40) DEF ReportInv
  <2> QED
    BY <2>1, <2>2, Zenon
<1>3. CASE UNCHANGED <<reports, payloads, received>>
  BY <1>3, Zenon DEF ReportInv
<1> QED
  BY <1>1, <1>2, <1>3, Zenon DEF ReportsNext, QueryBudget, QueryCounts, CreateFails, ChangePortfolio, reportVars

\* All answers to an idempotency key are one report, which has its payload, however requests with the
\* key interleave and whichever answers are lost.
THEOREM ReportsCorrect == ReportsSpec => []SameKeySameReport
<1>1. ReportsInit => ReportInv
  BY Zenon DEF ReportsInit, ReportInv
<1>2. ReportInv => SameKeySameReport
  BY DEF ReportInv, SameKeySameReport
<1> QED
  BY <1>1, <1>2, ReportStep, PTL DEF ReportsSpec
=============================================================================
