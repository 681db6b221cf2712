----------------------------- MODULE MCServices ------------------------------
(***************************************************************************)
(* The services around the monitoring of domains, for TLC: they meet only  *)
(* in rows no two of them write, so that a behaviour follows one of them,  *)
(* named by service, while the others stay where they begin.               *)
(***************************************************************************)
EXTENDS Scheduler, AuditChain, Sessions, ProbeIdentity,
        DriveConnection, Rdap, Outbox

VARIABLE service

MCJitter == [d \in Monitored |-> IF d = "n1" THEN 1 ELSE 0]
MCRolesOf == [a \in Accounts |-> IF a = "ann" THEN {"ADMIN"} ELSE {"VIEWER"}]
MCNameOf == [r \in RegistrationTokens |-> r]

Services == {"scheduler", "audit", "sessions", "identity", "drive", "rdap", "outbox"}

servicesVars == <<schedulerVars, auditVars, sessionVars, identityVars, driveVars, rdapVars, vars, service>>

ServicesInit ==
  /\ service \in Services
  /\ SchedulerInit /\ AuditInit /\ SessionsInit /\ IdentityInit
  /\ DriveInit /\ RdapInit /\ Init

ServicesNext ==
  /\ UNCHANGED service
  /\ IF service = "scheduler" THEN SchedulerNext ELSE UNCHANGED schedulerVars
  /\ IF service = "audit" THEN AuditNext ELSE UNCHANGED auditVars
  /\ IF service = "sessions" THEN SessionsNext ELSE UNCHANGED sessionVars
  /\ IF service = "identity" THEN IdentityNext ELSE UNCHANGED identityVars
  /\ IF service = "drive" THEN DriveNext ELSE UNCHANGED driveVars
  /\ IF service = "rdap" THEN RdapNext ELSE UNCHANGED rdapVars
  /\ IF service = "outbox" THEN Next ELSE UNCHANGED vars

ServicesSpec == ServicesInit /\ [][ServicesNext]_servicesVars

ServicesTypeOK ==
  /\ service = "scheduler" => SchedulerTypeOK
  /\ service = "audit" => AuditTypeOK
  /\ service = "sessions" => SessionsTypeOK
  /\ service = "identity" => IdentityTypeOK
  /\ service = "drive" => DriveTypeOK
  /\ service = "rdap" => RdapTypeOK
  /\ service = "outbox" => TypeOK
=============================================================================
