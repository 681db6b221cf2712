----------------------------- MODULE Provenance -----------------------------
(***************************************************************************)
(* The expiration date of one domain and where it comes from: the column   *)
(* of domains, the manual overrides that take precedence over it           *)
(* (finance.Service), and the observations in domain_field_provenance, of  *)
(* which a unique index lets one be current.  Imports of a sheet, edits of *)
(* the domain, overrides and registration data (rdap.Service) all write    *)
(* here.  Creating an override and a check of RDAP are two steps each.     *)
(***************************************************************************)
EXTENDS Naturals

CONSTANTS
  Dates, NoDate,
  OverrideIds,
  OverrideAdmins,    \* who may be creating an override
  MaxObservations,   \* bound on domain_field_provenance
  OverrideHorizon    \* bound on time

ASSUME ProvenanceAssumption ==
  /\ NoDate \notin Dates
  /\ MaxObservations \in Nat /\ OverrideHorizon \in Nat \ {0}
  /\ "none" \notin OverrideIds

VARIABLES
  overrideTime,
  expiration,    \* domains.expiration_at
  overrides,     \* manual_overrides
  observations,  \* domain_field_provenance, n in order of creation
  creating,      \* per administrator: the open transaction of CreateOverride
  lookup         \* Check of rdap.Service: when it began

provenanceVars == <<overrideTime, expiration, overrides, observations, creating, lookup>>

OverrideTimes == 0 .. OverrideHorizon + 1
Forever == 0       \* NULL expires_at
NoOverride == "none"
NotCreating == [open |-> FALSE, value |-> NoDate, seen |-> {}]
NotLooking == [open |-> FALSE, at |-> 0]
OverrideRows == [id : OverrideIds, value : Dates, from : OverrideTimes, expires : OverrideTimes, revoked : BOOLEAN]
Observations == [n : 1 .. MaxObservations, source : {"manual", "google_sheet", "rdap"},
                 override : OverrideIds \cup {NoOverride}, value : Dates, observed : OverrideTimes, current : BOOLEAN]

ProvenanceTypeOK ==
  /\ overrideTime \in 1 .. OverrideHorizon
  /\ expiration \in Dates \cup {NoDate}
  /\ overrides \subseteq OverrideRows
  /\ observations \subseteq Observations
  /\ creating \in [OverrideAdmins -> [open : BOOLEAN, value : Dates \cup {NoDate}, seen : SUBSET OverrideIds]]
  /\ lookup \in [open : BOOLEAN, at : OverrideTimes]

ProvenanceInit ==
  /\ overrideTime = 1
  /\ expiration = NoDate
  /\ overrides = {} /\ observations = {}
  /\ creating = [a \in OverrideAdmins |-> NotCreating]
  /\ lookup = NotLooking

Unrevoked == {o \in overrides : ~o.revoked}

\* activeOverrideFields, activeOverrides
ActiveOverrides == {o \in Unrevoked : o.from <= overrideTime /\ (o.expires = Forever \/ o.expires > overrideTime)}

-----------------------------------------------------------------------------
(* domain_field_provenance                                                 *)

Slots == {n \in 1 .. MaxObservations : \A p \in observations : p.n < n}
HasRoom == \E n \in 1 .. MaxObservations : \A p \in observations : p.n < n
NextSlot == CHOOSE n \in Slots : \A m \in Slots : n <= m

Demoted == {[p EXCEPT !.current = FALSE] : p \in observations}

\* setProvenance, and the same two statements of CreateOverride: the current one steps back.
SetProvenance(source, override, value) ==
  observations' = Demoted \cup
    {[n |-> NextSlot, source |-> source, override |-> override, value |-> value,
      observed |-> overrideTime, current |-> TRUE]}

-----------------------------------------------------------------------------
(* The domain                                                              *)

\* Patch of domain.Service writes the column and no observation.
PatchExpiration(value) ==
  /\ value # expiration
  /\ expiration' = value
  /\ UNCHANGED <<overrideTime, overrides, observations, creating, lookup>>

NotShielded(value) == value
ShieldedBy(value) == IF ActiveOverrides # {} THEN expiration ELSE value

\* applyModify and applySheetFields: an active override keeps the column, the sheet's
\* date is observed all the same, a row without one observes nothing.
ApplySheetRow(value) ==
  /\ HasRoom
  /\ expiration' = ShieldedBy(value)
  /\ IF value = NoDate THEN UNCHANGED observations ELSE SetProvenance("google_sheet", NoOverride, value)
  /\ UNCHANGED <<overrideTime, overrides, creating, lookup>>

-----------------------------------------------------------------------------
(* Overrides                                                               *)

\* CreateOverride's first statement sees the overrides committed so far.
BeginOverride(a, value) ==
  /\ ~creating[a].open
  /\ creating' = [creating EXCEPT ![a] =
                    [open |-> TRUE, value |-> value, seen |-> {o.id : o \in Unrevoked}]]
  /\ UNCHANGED <<overrideTime, expiration, overrides, observations, lookup>>

RevokedOf(seen) == {IF o.id \in seen THEN [o EXCEPT !.revoked = TRUE] ELSE o : o \in overrides}

\* The rest of the transaction and its commit.
EndOverride(a, id, expires) ==
  /\ creating[a].open /\ HasRoom
  /\ id \notin {o.id : o \in overrides}
  /\ expires = Forever \/ expires > overrideTime
  /\ overrides' = RevokedOf(creating[a].seen) \cup
       {[id |-> id, value |-> creating[a].value, from |-> overrideTime, expires |-> expires, revoked |-> FALSE]}
  /\ SetProvenance("manual", id, creating[a].value)
  /\ creating' = [creating EXCEPT ![a] = NotCreating]
  /\ UNCHANGED <<overrideTime, expiration, lookup>>

\* ORDER BY observed_at DESC, created_at DESC, without the override's own
Newer(p, q) == p.observed > q.observed \/ (p.observed = q.observed /\ p.n >= q.n)
Others(id) == {p \in observations : p.override # id}
NewestOther(id) == {p \in Others(id) : \A q \in Others(id) : Newer(p, q)}

\* The override's observation steps back and the newest other one becomes current.
AllStepBack(id) == {[p EXCEPT !.current = p \in NewestOther(id)] : p \in observations}
AfterRevoke(id) ==
  {[p EXCEPT !.current = p \in NewestOther(id) \/ (p.current /\ p.override # id)] : p \in observations}

AtMostOneCurrent(obs) == \A p, q \in obs : p.current /\ q.current => p = q

\* Two current observations violate the unique index: the transaction fails.
RevokeOverride(o) ==
  /\ ~o.revoked
  /\ AtMostOneCurrent(AfterRevoke(o.id))
  /\ overrides' = (overrides \ {o}) \cup {[o EXCEPT !.revoked = TRUE]}
  /\ observations' = AfterRevoke(o.id)
  /\ UNCHANGED <<overrideTime, expiration, creating, lookup>>

-----------------------------------------------------------------------------
(* Registration data                                                       *)

BeginLookup ==
  /\ ~lookup.open
  /\ lookup' = [open |-> TRUE, at |-> overrideTime]
  /\ UNCHANGED <<overrideTime, expiration, overrides, observations, creating>>

\* persist: the observation bears the time the check began, and is not current.
EndLookup(value) ==
  /\ lookup.open /\ HasRoom
  /\ observations' = observations \cup
       {[n |-> NextSlot, source |-> "rdap", override |-> NoOverride, value |-> value,
         observed |-> lookup.at, current |-> FALSE]}
  /\ lookup' = NotLooking
  /\ UNCHANGED <<overrideTime, expiration, overrides, creating>>

OverrideTick ==
  /\ overrideTime < OverrideHorizon
  /\ overrideTime' = overrideTime + 1
  /\ UNCHANGED <<expiration, overrides, observations, creating, lookup>>

ProvenanceNext ==
  \/ \E v \in Dates \cup {NoDate} : PatchExpiration(v) \/ ApplySheetRow(v)
  \/ \E a \in OverrideAdmins :
       \/ \E v \in Dates : BeginOverride(a, v)
       \/ \E id \in OverrideIds, t \in {Forever, overrideTime + 1} : EndOverride(a, id, t)
  \/ \E o \in overrides : RevokeOverride(o)
  \/ BeginLookup
  \/ \E v \in Dates : EndLookup(v)
  \/ OverrideTick

ProvenanceSpec == ProvenanceInit /\ [][ProvenanceNext]_provenanceVars

-----------------------------------------------------------------------------
(***************************************************************************)
(* While an override of the expiration is active, no import changes the    *)
(* date it will fall back to when the override ends; only an administrator *)
(* editing the domain does.                                                *)
(***************************************************************************)
OverrideShieldsExpiration ==
  [][ActiveOverrides # {} /\ observations' # observations => expiration' = expiration]_provenanceVars

(***************************************************************************)
(* Of the observations at most one is current, and an active override that *)
(* was recorded last is the current one, whatever was revoked before.      *)
(***************************************************************************)
CurrentObservation ==
  /\ AtMostOneCurrent(observations)
  /\ \A o \in ActiveOverrides, p \in observations :
       p.override = o.id /\ (\A q \in observations : q.source = "rdap" \/ q.n <= p.n) => p.current

(***************************************************************************)
(* An observation of registration data is never the current one: RDAP does *)
(* not overwrite what the inventory holds.                                 *)
(***************************************************************************)
RdapNeverCurrent == \A p \in observations : p.current => p.source # "rdap"
=============================================================================
