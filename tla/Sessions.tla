------------------------------ MODULE Sessions ------------------------------
(***************************************************************************)
(* Sessions and the guards of the API: auth.Service, the middleware in     *)
(* front of every protected route, and the web application's route         *)
(* handlers that log a browser in and out.  All tabs of a browser share    *)
(* the session cookie and the cookie that holds the CSRF token; a request  *)
(* carries the cookies of the moment it was sent.  It is authenticated by  *)
(* one query, and its handler runs later with the principal that query     *)
(* returned, so other requests come in between.                            *)
(*                                                                         *)
(* Only cmd/seed writes users and their roles, so they are constants here. *)
(* A session token and a CSRF token are known by the session they are of.  *)
(***************************************************************************)
EXTENDS Naturals, FiniteSets

CONSTANTS
  Accounts,      \* users
  RolesOf,       \* the roles of each user
  Tabs,          \* tabs of one browser
  SessionIds, NoSession,
  SessionTTL,
  SessionSkew,   \* how far the clock of the API may be ahead of now()
  SessionHorizon \* bound on time

ASSUME SessionAssumption ==
  /\ NoSession \notin SessionIds
  /\ SessionTTL \in Nat /\ SessionSkew \in Nat /\ SessionHorizon \in Nat

\* The groups of routes and the roles their middleware requires (no requireRoles
\* in front of logout).
RoutesWithLogoutByStaff == {
  [kind |-> "logout", roles |-> {"ADMIN", "STAFF"}],
  [kind |-> "admin",  roles |-> {"ADMIN"}] }
Routes == {
  [kind |-> "logout", roles |-> {}],
  [kind |-> "read",   roles |-> {"ADMIN", "STAFF", "VIEWER"}],
  [kind |-> "admin",  roles |-> {"ADMIN"}] }

VARIABLES
  sessionTime,
  sessions,    \* rows of sessions
  trail,       \* audit entries of sessions: action, session and request
  cookies,     \* the browser's session cookie, and the CSRF cookie with it
  request,     \* per tab: its request in flight
  closed       \* ghost: sessions whose logout the API decided on, refused or handled

sessionVars == <<sessionTime, sessions, trail, cookies, request, closed>>

Token == SessionIds \cup {NoSession}
Idle == [phase |-> "idle"]

SessionsTypeOK ==
  /\ sessionTime \in 0 .. SessionHorizon
  /\ sessions \subseteq [id : SessionIds, user : Accounts, expires : Nat, revoked : BOOLEAN]
  /\ trail \subseteq [session : SessionIds, action : {"SESSION_CREATED", "SESSION_REVOKED"}, by : Tabs]
  /\ cookies \in Token
  /\ request \in [Tabs -> {Idle} \cup
       [phase : {"sent", "admitted", "refused", "unanswered", "handled"}, route : Routes, cookies : Token]]
  /\ closed \subseteq SessionIds

SessionsInit ==
  /\ sessionTime = 0
  /\ sessions = {} /\ trail = {} /\ closed = {}
  /\ cookies = NoSession
  /\ request = [t \in Tabs |-> Idle]

-----------------------------------------------------------------------------
\* A wrong password or an unknown user changes nothing.  The two cookies are set
\* by one response.
Login(t, u, id, ahead) ==
  /\ request[t] = Idle
  /\ \A s \in sessions : s.id # id
  /\ sessions' = sessions \cup
       {[id |-> id, user |-> u, expires |-> sessionTime + ahead + SessionTTL, revoked |-> FALSE]}
  /\ trail' = trail \cup {[session |-> id, action |-> "SESSION_CREATED", by |-> t]}
  /\ cookies' = id
  /\ UNCHANGED <<sessionTime, request, closed>>

\* Without its cookies a request is refused before it reaches the API.
SendRequest(t, route) ==
  /\ request[t] = Idle
  /\ cookies # NoSession
  /\ request' = [request EXCEPT ![t] = [phase |-> "sent", route |-> route, cookies |-> cookies]]
  /\ UNCHANGED <<sessionTime, sessions, trail, cookies, closed>>

\* Authenticate
LiveSession(s) == ~s.revoked /\ s.expires > sessionTime

\* The middleware of a route: Authenticate, requireRoles, requireCSRF (the token
\* sent is the one of the session sent).  A failure answers 401 or 403.
AdmitRequest(t) ==
  LET r == request[t]
      admitted == \E s \in sessions :
        /\ s.id = r.cookies /\ LiveSession(s)
        /\ r.route.roles = {} \/ RolesOf[s.user] \cap r.route.roles # {}
  IN
  /\ r.phase = "sent"
  /\ request' = [request EXCEPT ![t].phase = IF admitted THEN "admitted" ELSE "refused"]
  /\ UNCHANGED <<sessionTime, sessions, trail, cookies, closed>>

\* The API is unreachable, the connection is lost, or the database fails: in
\* Authenticate that is a 401 like any other, in the handler a 500.
LoseRequest(t) ==
  /\ request[t].phase \in {"sent", "admitted"}
  /\ request' = [request EXCEPT ![t].phase = "unanswered"]
  /\ UNCHANGED <<sessionTime, sessions, trail, cookies, closed>>

\* Logout: a session another request has revoked meanwhile is an error, with no
\* audit entry.
AnySession(s) == TRUE
NotYetRevoked(s) == ~s.revoked

HandleRequest(t) ==
  LET r == request[t]
      own == {s \in sessions : r.route.kind = "logout" /\ s.id = r.cookies /\ NotYetRevoked(s)}
  IN
  /\ r.phase = "admitted"
  /\ sessions' = (sessions \ own) \cup {[s EXCEPT !.revoked = TRUE] : s \in own}
  /\ trail' = trail \cup {[session |-> s.id, action |-> "SESSION_REVOKED", by |-> t] : s \in own}
  /\ request' = [request EXCEPT ![t].phase = "handled"]
  /\ UNCHANGED <<sessionTime, cookies, closed>>

\* The web application's logout clears the browser's cookies whatever the API
\* answered, and whichever session they are of by then.
Respond(t) ==
  LET r == request[t]
      out == r.phase # "idle" /\ r.route.kind = "logout"
  IN
  /\ r.phase \in {"refused", "unanswered", "handled"}
  /\ cookies' = IF out THEN NoSession ELSE cookies
  /\ closed' = IF out /\ r.phase # "unanswered" THEN closed \cup {r.cookies} ELSE closed
  /\ request' = [request EXCEPT ![t] = Idle]
  /\ UNCHANGED <<sessionTime, sessions, trail>>

SessionTick ==
  /\ sessionTime < SessionHorizon
  /\ sessionTime' = sessionTime + 1
  /\ UNCHANGED <<sessions, trail, cookies, request, closed>>

SessionsNext ==
  \/ \E t \in Tabs, u \in Accounts, id \in SessionIds, ahead \in 0 .. SessionSkew : Login(t, u, id, ahead)
  \/ \E t \in Tabs, route \in Routes : SendRequest(t, route)
  \/ \E t \in Tabs : AdmitRequest(t) \/ LoseRequest(t) \/ HandleRequest(t) \/ Respond(t)
  \/ SessionTick

SessionsSpec == SessionsInit /\ [][SessionsNext]_sessionVars

-----------------------------------------------------------------------------
(***************************************************************************)
(* A logout that reached the database ended its session, even when it was  *)
(* refused, which the web application does not report: what was refused    *)
(* was a session that had ended.                                           *)
(***************************************************************************)
ClosedSessionsAreDead ==
  \A s \in sessions : s.id \in closed => ~LiveSession(s)

(***************************************************************************)
(* Sessions and their trail agree, with logouts of several tabs racing for *)
(* one session: each has its SESSION_CREATED entry, and one                *)
(* SESSION_REVOKED entry if and only if it is revoked.                     *)
(***************************************************************************)
TrailMatchesSessions ==
  \A s \in sessions :
    /\ Cardinality({e \in trail : e.session = s.id /\ e.action = "SESSION_CREATED"}) = 1
    /\ Cardinality({e \in trail : e.session = s.id /\ e.action = "SESSION_REVOKED"})
         = (IF s.revoked THEN 1 ELSE 0)
=============================================================================
