--------------------------- MODULE DriveConnection --------------------------
(***************************************************************************)
(* A user's Google Drive connection: drive.Service.  Complete consumes the *)
(* OAuth state in one transaction, talks to Google outside of any, and     *)
(* stores the tokens in another; AccessToken refreshes an expiring token   *)
(* while it holds the connection's row; Disconnect deletes the tokens.     *)
(* All of them may run at once for one user.  A token is known by the      *)
(* number of the grant it comes from (0: no token).                        *)
(***************************************************************************)
EXTENDS Naturals, FiniteSets

CONSTANTS
  OAuthStates,   \* states of Begin
  Callers,       \* requests and scheduled previews that want an access token
  DriveTTL,      \* lifetime of an access token
  ExpiryMargin,  \* a token that expires within it is refreshed
  DriveHorizon   \* bound on time

ASSUME DriveAssumption == DriveTTL \in Nat /\ ExpiryMargin \in Nat /\ DriveHorizon \in Nat

VARIABLES
  driveTime,
  oauth,       \* google_oauth_states: expiry, and whether consumed
  completing,  \* Completes that consumed their state and are with Google
  conn,        \* the row of google_drive_connections
  caller,      \* per caller: where its AccessToken is, and what it read
  grants       \* number of grants Google gave, with the state of each

driveVars == <<driveTime, oauth, completing, conn, caller, grants>>

DriveTimes == 0 .. DriveHorizon + DriveTTL + 1
NoConnection == [status |-> "none", access |-> 0, refresh |-> 0, expires |-> 0]
Waiting == [phase |-> "idle", refresh |-> 0]

DriveTypeOK ==
  /\ driveTime \in 0 .. DriveHorizon
  /\ oauth \subseteq [id : OAuthStates, expires : DriveTimes, consumed : BOOLEAN]
  /\ completing \subseteq OAuthStates
  /\ conn \in [status : {"none", "active", "revoked", "error"}, access : Nat, refresh : Nat, expires : DriveTimes]
  /\ caller \in [Callers -> [phase : {"idle", "refreshing", "got"}, refresh : Nat]]
  /\ grants \subseteq OAuthStates \X Nat

DriveInit ==
  /\ driveTime = 0
  /\ oauth = {} /\ completing = {} /\ grants = {}
  /\ conn = NoConnection
  /\ caller = [c \in Callers |-> Waiting]

-----------------------------------------------------------------------------
\* FOR UPDATE: a caller holds the row from its read until it commits.
NobodyHolds == TRUE
RowFree == \A c \in Callers : caller[c].phase # "refreshing"

Begin(st) ==
  /\ \A o \in oauth : o.id # st
  /\ oauth' = oauth \cup {[id |-> st, expires |-> driveTime + 1, consumed |-> FALSE]}
  /\ UNCHANGED <<driveTime, completing, conn, caller, grants>>

UsableState(o) == ~o.consumed /\ o.expires > driveTime

\* The callback may come twice; the state is consumed whatever comes of the rest.
ConsumeState(st) ==
  /\ \E o \in oauth :
       /\ o.id = st /\ UsableState(o)
       /\ oauth' = (oauth \ {o}) \cup {[o EXCEPT !.consumed = TRUE]}
  /\ completing' = completing \cup {st}
  /\ UNCHANGED <<driveTime, conn, caller, grants>>

\* Google refuses the code, or the process stops: the connection stays as it was.
ExchangeFails(st) ==
  /\ st \in completing
  /\ completing' = completing \ {st}
  /\ UNCHANGED <<driveTime, oauth, conn, caller, grants>>

\* COALESCE keeps the stored refresh token when Google sends none.
StoreTokens(st, withRefresh) ==
  LET n == Cardinality(grants) + 1 IN
  /\ st \in completing
  /\ RowFree
  /\ conn' = [status |-> "active", access |-> n,
              refresh |-> IF withRefresh THEN n ELSE conn.refresh,
              expires |-> driveTime + DriveTTL]
  /\ grants' = grants \cup {<<st, n>>}
  /\ completing' = completing \ {st}
  /\ UNCHANGED <<driveTime, oauth, caller>>

Disconnect ==
  /\ RowFree
  /\ conn.status = "active"
  /\ conn' = [NoConnection EXCEPT !.status = "revoked"]
  /\ UNCHANGED <<driveTime, oauth, completing, caller, grants>>

-----------------------------------------------------------------------------
\* A stored access token with time left is returned at once; without a refresh
\* token there is nothing to do.
TakeToken(c) ==
  /\ caller[c].phase = "idle"
  /\ RowFree /\ conn.status = "active"
  /\ conn.expires > driveTime + ExpiryMargin \/ conn.refresh # 0
  /\ caller' = [caller EXCEPT ![c] =
       IF conn.expires > driveTime + ExpiryMargin
       THEN [phase |-> "got", refresh |-> 0]
       ELSE [phase |-> "refreshing", refresh |-> conn.refresh]]
  /\ UNCHANGED <<driveTime, oauth, completing, conn, grants>>

\* The UPDATE that stores the new token names the row by its id only.
RefreshSucceeds(c) ==
  /\ caller[c].phase = "refreshing"
  /\ conn' = [conn EXCEPT !.access = caller[c].refresh, !.expires = driveTime + DriveTTL]
  /\ caller' = [caller EXCEPT ![c] = [phase |-> "got", refresh |-> 0]]
  /\ UNCHANGED <<driveTime, oauth, completing, grants>>

\* Any failure, also one of the network, marks the connection.
RefreshFails(c) ==
  /\ caller[c].phase = "refreshing"
  /\ conn' = [conn EXCEPT !.status = "error"]
  /\ caller' = [caller EXCEPT ![c] = Waiting]
  /\ UNCHANGED <<driveTime, oauth, completing, grants>>

\* The process stops, or its transaction is rolled back.
RefreshAborts(c) ==
  /\ caller[c].phase = "refreshing"
  /\ caller' = [caller EXCEPT ![c] = Waiting]
  /\ UNCHANGED <<driveTime, oauth, completing, conn, grants>>

UseToken(c) ==
  /\ caller[c].phase = "got"
  /\ caller' = [caller EXCEPT ![c] = Waiting]
  /\ UNCHANGED <<driveTime, oauth, completing, conn, grants>>

DriveTick ==
  /\ driveTime < DriveHorizon
  /\ driveTime' = driveTime + 1
  /\ UNCHANGED <<oauth, completing, conn, caller, grants>>

DriveNext ==
  \/ \E st \in OAuthStates :
       \/ Begin(st) \/ ConsumeState(st) \/ ExchangeFails(st)
       \/ \E withRefresh \in BOOLEAN : StoreTokens(st, withRefresh)
  \/ Disconnect
  \/ \E c \in Callers :
       TakeToken(c) \/ RefreshSucceeds(c) \/ RefreshFails(c) \/ RefreshAborts(c) \/ UseToken(c)
  \/ DriveTick

DriveSpec == DriveInit /\ [][DriveNext]_driveVars

-----------------------------------------------------------------------------
(***************************************************************************)
(* A disconnected user's tokens are gone: a refresh that was under way     *)
(* when Disconnect was asked for does not write a token into the revoked   *)
(* row, nor turn it into an 'error' one.                                   *)
(***************************************************************************)
RevokedHasNoTokens ==
  /\ conn.status = "revoked" => conn.access = 0 /\ conn.refresh = 0
  /\ conn.status = "error" => conn.refresh # 0

(***************************************************************************)
(* One authorization gives one connection: the callback of a state that is *)
(* repeated, or races with itself, exchanges and stores tokens once.       *)
(***************************************************************************)
StatesWorkOnce == \A g, h \in grants : g[1] = h[1] => g = h
=============================================================================
