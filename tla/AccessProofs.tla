---------------------------- MODULE AccessProofs ----------------------------
(***************************************************************************)
(* Proofs about what gives access and what remembers it, for any number of *)
(* agents, nodes, callers, secrets and browser tabs: the identities,       *)
(* one-time secrets and revocation of remote probes (ProbeIdentity), the   *)
(* tokens of a Google Drive connection (DriveConnection) and the sessions  *)
(* of users (Sessions).                                                    *)
(***************************************************************************)
EXTENDS ProbeIdentity, DriveConnection, Sessions, FiniteSetTheorems, TLAPS

\* The module is large: every leaf may take longer than the default of the provers.
USE SMTT(15), ZenonT(15)

Challenges == [id : Secrets, node : NodeIds, expires : Nat, used : BOOLEAN]
Tokens == [id : Secrets, node : NodeIds, expires : Nat, revoked : BOOLEAN, for : Secrets]
Nodes == [id : NodeIds, name : {NameOf[t] : t \in RegistrationTokens}, revoked : BOOLEAN]

IdentityTypes ==
  /\ identityTime \in Nat
  /\ nodes \subseteq Nodes
  /\ challenges \subseteq Challenges
  /\ tokens \subseteq Tokens

\* The challenge of an open IssueToken is unused, that of a token is used.
ChallengeInv ==
  /\ \A x, y \in challenges : x.id = y.id => x = y
  /\ \A c \in issuing : \E ch \in challenges : ch.id = c /\ ~ch.used
  /\ \A tok \in tokens : \E ch \in challenges : ch.id = tok.for /\ ch.used

IdentityInv == IdentityTypes /\ ChallengeInv /\ SecretsWorkOnce /\ RevokedProbesAreOut

-----------------------------------------------------------------------------
\* Register uses an unused registration token and makes a node that is not revoked.
LEMMA RegisterKeeps ==
  ASSUME IdentityInv,
         NEW a \in Agents, NEW t \in RegistrationTokens, NEW n \in NodeIds, NEW lost \in BOOLEAN,
         Register(a, t, n, lost)
  PROVE  IdentityInv'
<1> DEFINE node == [id |-> n, name |-> NameOf[t], revoked |-> FALSE]
<1>1. /\ nodes' = nodes \cup {node} /\ spent' = spent \cup {<<t, n>>}
      /\ UNCHANGED <<identityTime, challenges, tokens, issuing, served>>
      /\ \A u \in spent : u[1] # t
  BY Zenon DEF Register, TokenUnused
<1>2. node \in Nodes
  BY Zenon DEF Nodes
<1> HIDE DEF node
<1>3. IdentityTypes' /\ ChallengeInv'
  BY <1>1, <1>2, Zenon DEF IdentityInv, IdentityTypes, ChallengeInv
<1>4. SecretsWorkOnce'
  BY <1>1 DEF IdentityInv, SecretsWorkOnce
<1>5. RevokedProbesAreOut'
  BY <1>1, Zenon DEF IdentityInv, RevokedProbesAreOut, NotRevokedNode
<1> QED
  BY <1>3, <1>4, <1>5, Zenon DEF IdentityInv

\* CreateChallenge makes a challenge nobody has used.
LEMMA ChallengeKeeps ==
  ASSUME IdentityInv, NEW a \in Agents, NEW c \in Secrets, CreateChallenge(a, c)
  PROVE  IdentityInv'
<1> DEFINE ch == [id |-> c, node |-> agent[a].node, expires |-> identityTime + ChallengeTTL, used |-> FALSE]
<1>1. /\ challenges' = challenges \cup {ch}
      /\ UNCHANGED <<identityTime, spent, nodes, tokens, issuing, served>>
      /\ \A x \in challenges : x.id # c
      /\ NotRevokedNode(agent[a].node)
  BY Zenon DEF CreateChallenge
<1>2. identityTime + ChallengeTTL \in Nat
  BY IdentityAssumption DEF IdentityInv, IdentityTypes
<1>3. agent[a].node \in NodeIds
  BY <1>1, Zenon DEF NotRevokedNode, IdentityInv, IdentityTypes, Nodes
<1>4. ch \in Challenges /\ ch.id = c
  BY <1>2, <1>3, Zenon DEF Challenges
<1> HIDE DEF ch
<1>5. IdentityTypes'
  BY <1>1, <1>4, Zenon DEF IdentityInv, IdentityTypes
<1>6. ChallengeInv'
  BY <1>1, <1>4, Zenon DEF IdentityInv, ChallengeInv
<1>7. SecretsWorkOnce' /\ RevokedProbesAreOut'
  BY <1>1, Zenon DEF IdentityInv, SecretsWorkOnce, RevokedProbesAreOut, NotRevokedNode
<1> QED
  BY <1>5, <1>6, <1>7, Zenon DEF IdentityInv

\* The UPDATE of a challenge and the INSERT of its token come together.
LEMMA IssueCommitKeeps ==
  ASSUME IdentityInv, NEW c \in Secrets, NEW s \in Secrets, IssueCommit(c, s)
  PROVE  IdentityInv'
<1> DEFINE ch == CHOOSE x \in challenges : x.id = c
           used == [ch EXCEPT !.used = TRUE]
           tok == [id |-> s, node |-> ch.node, expires |-> identityTime + TokenTTL, revoked |-> FALSE, for |-> c]
<1>1. /\ c \in issuing /\ issuing' = issuing \ {c}
      /\ challenges' = (challenges \ {ch}) \cup {used}
      /\ tokens' = tokens \cup {tok}
      /\ UNCHANGED <<identityTime, spent, nodes, served>>
  BY Zenon DEF IssueCommit
<1>2. ch \in challenges /\ ch.id = c
  BY <1>1, Zenon DEF IdentityInv, ChallengeInv
<1>3. ~ch.used
  BY <1>1, <1>2, ZenonT(40) DEF IdentityInv, ChallengeInv
<1>4. ch \in Challenges
  BY <1>2, Zenon DEF IdentityInv, IdentityTypes
<1> HIDE DEF ch
<1>5. used \in Challenges /\ used.id = c /\ used.used
  BY <1>2, <1>4, Zenon DEF Challenges
<1>6. identityTime + TokenTTL \in Nat
  BY IdentityAssumption DEF IdentityInv, IdentityTypes
<1>7. tok \in Tokens /\ tok.for = c
  BY <1>4, <1>6, Zenon DEF Challenges, Tokens
<1> HIDE DEF used, tok
<1>8. IdentityTypes'
  BY <1>1, <1>5, <1>7, Zenon DEF IdentityInv, IdentityTypes
<1>9. \A old \in tokens : old.for # c
  BY <1>2, <1>3, Zenon DEF IdentityInv, ChallengeInv
<1>10. ChallengeInv'
  <2>1. \A x, y \in challenges' : x.id = y.id => x = y
    BY <1>1, <1>2, <1>5 DEF IdentityInv, ChallengeInv
  <2>2. \A i \in issuing' : \E x \in challenges' : x.id = i /\ ~x.used
    BY <1>1, <1>2, Zenon DEF IdentityInv, ChallengeInv
  <2>3. \A k \in tokens' : \E x \in challenges' : x.id = k.for /\ x.used
    BY <1>1, <1>3, <1>5, <1>7, Zenon DEF IdentityInv, ChallengeInv
  <2> QED
    BY <2>1, <2>2, <2>3, Zenon DEF ChallengeInv
<1>11. SecretsWorkOnce'
  BY <1>1, <1>7, <1>9, Zenon DEF IdentityInv, SecretsWorkOnce
<1>12. RevokedProbesAreOut'
  BY <1>1, Zenon DEF IdentityInv, RevokedProbesAreOut, NotRevokedNode
<1> QED
  BY <1>8, <1>10, <1>11, <1>12, Zenon DEF IdentityInv

\* Revoke marks the node and its tokens, and ends what the node was served.
LEMMA RevokeKeeps ==
  ASSUME IdentityInv, NEW n \in NodeIds, RevokeProbe(n)
  PROVE  IdentityInv'
<1> DEFINE marked(tok) == IF tok.node = n THEN [tok EXCEPT !.revoked = TRUE] ELSE tok
           out(node) == IF node.id = n THEN [node EXCEPT !.revoked = TRUE] ELSE node
<1>1. /\ nodes' = {out(node) : node \in nodes} /\ tokens' = {marked(tok) : tok \in tokens}
      /\ served' = served \ {n}
      /\ UNCHANGED <<identityTime, spent, challenges, issuing>>
  BY Zenon DEF RevokeProbe
<1>2. \A tok \in Tokens : marked(tok) \in Tokens /\ marked(tok).for = tok.for
  BY Zenon DEF Tokens
<1>3. \A node \in Nodes : out(node) \in Nodes
  BY Zenon DEF Nodes
<1>4. \A node \in nodes : node.id # n => out(node) = node
  BY Zenon
<1> HIDE DEF marked, out
<1>5. IdentityTypes'
  BY <1>1, <1>2, <1>3, Zenon DEF IdentityInv, IdentityTypes
<1>6. \A tok \in tokens : marked(tok).for = tok.for
  BY <1>2, Zenon DEF IdentityInv, IdentityTypes
<1>7. ChallengeInv'
  BY <1>1, <1>6 DEF IdentityInv, ChallengeInv
<1>8. SecretsWorkOnce'
  BY <1>1, <1>6 DEF IdentityInv, SecretsWorkOnce
<1>9. RevokedProbesAreOut'
  <2> SUFFICES ASSUME NEW m \in served, m # n
               PROVE  \E node \in nodes' : node.id = m /\ ~node.revoked
    BY <1>1, Zenon DEF RevokedProbesAreOut, NotRevokedNode
  <2>1. PICK node \in nodes : node.id = m /\ ~node.revoked
    BY Zenon DEF IdentityInv, RevokedProbesAreOut, NotRevokedNode
  <2>2. out(node) = node
    BY <2>1, <1>4, Zenon
  <2> QED
    BY <1>1, <2>1, <2>2, Zenon
<1> QED
  BY <1>5, <1>7, <1>8, <1>9, Zenon DEF IdentityInv

\* Every step keeps the invariant of the probes' secrets.
LEMMA IdentityStep ==
  ASSUME IdentityInv, [IdentityNext]_identityVars
  PROVE  IdentityInv'
<1>1. CASE UNCHANGED <<identityTime, spent, nodes, challenges, tokens, issuing, served>>
  <2>1. IdentityTypes' /\ ChallengeInv'
    BY <1>1, Zenon DEF IdentityInv, IdentityTypes, ChallengeInv
  <2>2. SecretsWorkOnce' /\ RevokedProbesAreOut'
    BY <1>1, Zenon DEF IdentityInv, SecretsWorkOnce, RevokedProbesAreOut, NotRevokedNode
  <2> QED
    BY <2>1, <2>2, Zenon DEF IdentityInv
<1>2. ASSUME NEW a \in Agents, StartAgent(a) \/ StopAgent(a) \/ PersistIdentity(a) \/ GiveUpWaiting(a)
      PROVE  IdentityInv'
  BY <1>1, <1>2, Zenon DEF StartAgent, StopAgent, PersistIdentity, GiveUpWaiting
<1>3. ASSUME NEW a \in Agents, NEW file \in NodeIds \cup {"absent", "garbled"}, CrashAgent(a, file)
      PROVE  IdentityInv'
  BY <1>1, <1>3, Zenon DEF CrashAgent
<1>4. ASSUME NEW a \in Agents, AuthenticateProbe(a)
      PROVE  IdentityInv'
  <2>1. PICK tok \in tokens : TokenAccepted(tok) /\ served' = {tok.node}
    BY <1>4, Zenon DEF AuthenticateProbe
  <2>2. UNCHANGED <<identityTime, spent, nodes, challenges, tokens, issuing>>
    BY <1>4, Zenon DEF AuthenticateProbe
  <2>3. RevokedProbesAreOut'
    BY <2>1, <2>2, Zenon DEF TokenAccepted, RevokedProbesAreOut, NotRevokedNode
  <2> QED
    BY <2>2, <2>3, Zenon DEF IdentityInv, IdentityTypes, ChallengeInv, SecretsWorkOnce
<1>5. ASSUME NEW c \in Secrets, IssueRead(c)
      PROVE  IdentityInv'
  <2>1. PICK ch \in challenges : ch.id = c /\ UsableChallenge(ch)
    BY <1>5, Zenon DEF IssueRead
  <2>2. issuing' = issuing \cup {c} /\ UNCHANGED <<identityTime, spent, nodes, challenges, tokens, served>>
    BY <1>5, Zenon DEF IssueRead
  <2>3. ChallengeInv'
    BY <2>1, <2>2, Zenon DEF IdentityInv, ChallengeInv, UsableChallenge
  <2> QED
    BY <2>2, <2>3, Zenon DEF IdentityInv, IdentityTypes, SecretsWorkOnce, RevokedProbesAreOut, NotRevokedNode
<1>6. CASE IdentityTick
  <2>1. identityTime' = identityTime + 1 /\ UNCHANGED <<spent, nodes, challenges, tokens, issuing, served>>
    BY <1>6, Zenon DEF IdentityTick
  <2>2. IdentityTypes'
    BY <2>1 DEF IdentityInv, IdentityTypes
  <2> QED
    BY <2>1, <2>2, Zenon DEF IdentityInv, ChallengeInv, SecretsWorkOnce, RevokedProbesAreOut, NotRevokedNode
<1>7. CASE UNCHANGED identityVars
  BY <1>1, <1>7, Zenon DEF identityVars
<1> QED
  BY <1>2, <1>3, <1>4, <1>5, <1>6, <1>7, RegisterKeeps, ChallengeKeeps, IssueCommitKeeps, RevokeKeeps, Zenon DEF IdentityNext

\* The invariant of the probes' secrets holds in every reachable state.
THEOREM IdentityInvariance == IdentitySpec => []IdentityInv
<1>1. IdentityInit => IdentityInv
  BY DEF IdentityInit, IdentityInv, IdentityTypes, ChallengeInv, SecretsWorkOnce, RevokedProbesAreOut
<1> QED
  BY <1>1, IdentityStep, PTL DEF IdentitySpec

\* Register and IssueToken let a registration token and a challenge work once.
THEOREM SecretsCorrect == IdentitySpec => []SecretsWorkOnce
BY IdentityInvariance, PTL DEF IdentityInv

\* Authenticate admits no revoked probe, whatever IssueToken had read before Revoke.
THEOREM RevocationCorrect == IdentitySpec => []RevokedProbesAreOut
BY IdentityInvariance, PTL DEF IdentityInv

-----------------------------------------------------------------------------
(* Google Drive                                                            *)

Connections == [status : {"none", "active", "revoked", "error"}, access : Nat, refresh : Nat, expires : Nat]
DriveCalls == [phase : {"idle", "refreshing", "got"}, refresh : Nat]

DriveTypes ==
  /\ driveTime \in Nat
  /\ conn \in Connections
  /\ caller \in [Callers -> DriveCalls]
  /\ oauth \subseteq [id : OAuthStates, expires : Nat, consumed : BOOLEAN]
  /\ IsFiniteSet(grants)

\* A caller that holds the row read an active connection with a refresh token,
\* and nobody else holds it.
HoldInv ==
  /\ \A c \in Callers : caller[c].phase = "refreshing" => conn.status = "active" /\ conn.refresh # 0
  /\ \A c, d \in Callers : caller[c].phase = "refreshing" /\ caller[d].phase = "refreshing" => c = d

\* A state is consumed before its Complete goes on, and gives one grant at most.
Consumed(st) == \E o \in oauth : o.id = st /\ o.consumed
StateInv ==
  /\ \A o, p \in oauth : o.id = p.id => o = p
  /\ \A st \in completing : Consumed(st) /\ \A g \in grants : g[1] # st
  /\ \A g \in grants : Consumed(g[1])

DriveInv == DriveTypes /\ HoldInv /\ StateInv /\ RevokedHasNoTokens /\ StatesWorkOnce

\* Begin, and Complete up to the exchange: a state is consumed once.
LEMMA StatesKeep ==
  ASSUME DriveInv, NEW st \in OAuthStates, Begin(st) \/ ConsumeState(st) \/ ExchangeFails(st)
  PROVE  DriveInv'
<1>1. UNCHANGED <<driveTime, conn, caller, grants>>
  BY Zenon DEF Begin, ConsumeState, ExchangeFails
<1>2. HoldInv' /\ RevokedHasNoTokens' /\ StatesWorkOnce'
  BY <1>1, Zenon DEF DriveInv, HoldInv, RevokedHasNoTokens, StatesWorkOnce
<1>3. CASE Begin(st)
  <2> DEFINE new == [id |-> st, expires |-> driveTime + 1, consumed |-> FALSE]
  <2>1. oauth' = oauth \cup {new} /\ completing' = completing /\ \A o \in oauth : o.id # st
    BY <1>3, Zenon DEF Begin
  <2>2. new \in [id : OAuthStates, expires : Nat, consumed : BOOLEAN] /\ new.id = st
    BY DEF DriveInv, DriveTypes
  <2> HIDE DEF new
  <2>3. DriveTypes'
    BY <1>1, <2>1, <2>2, Zenon DEF DriveInv, DriveTypes
  <2>4. StateInv'
    BY <1>1, <2>1, <2>2, Zenon DEF DriveInv, StateInv, Consumed
  <2> QED
    BY <1>2, <2>3, <2>4, Zenon DEF DriveInv
<1>4. CASE ConsumeState(st)
  <2>1. PICK o \in oauth : /\ o.id = st /\ ~o.consumed
                           /\ oauth' = (oauth \ {o}) \cup {[o EXCEPT !.consumed = TRUE]}
    BY <1>4, Zenon DEF ConsumeState, UsableState
  <2> DEFINE used == [o EXCEPT !.consumed = TRUE]
  <2>2. /\ used \in [id : OAuthStates, expires : Nat, consumed : BOOLEAN]
        /\ used.id = st /\ used.consumed
    BY <2>1, Zenon DEF DriveInv, DriveTypes
  <2>3. oauth' = (oauth \ {o}) \cup {used} /\ completing' = completing \cup {st}
    BY <1>4, <2>1, Zenon DEF ConsumeState
  <2> HIDE DEF used
  <2>4. DriveTypes'
    BY <1>1, <2>2, <2>3, Zenon DEF DriveInv, DriveTypes
  <2>5. ~Consumed(st)
    BY <2>1, Zenon DEF DriveInv, StateInv, Consumed
  <2>6. Consumed(st)' /\ \A t \in OAuthStates : Consumed(t) => Consumed(t)'
    BY <2>1, <2>2, <2>3, Zenon DEF Consumed
  <2>7. \A q, r \in oauth' : q.id = r.id => q = r
    BY <2>1, <2>2, <2>3, Zenon DEF DriveInv, StateInv
  <2>8. \A t : Consumed(t) => t \in OAuthStates
    BY Zenon DEF Consumed, DriveInv, DriveTypes
  <2>9. StateInv'
    BY <1>1, <2>3, <2>5, <2>6, <2>7, <2>8 DEF DriveInv, StateInv
  <2> QED
    BY <1>2, <2>4, <2>9, Zenon DEF DriveInv
<1>5. CASE ExchangeFails(st)
  <2>1. completing' = completing \ {st} /\ oauth' = oauth
    BY <1>5, Zenon DEF ExchangeFails
  <2>2. DriveTypes'
    BY <1>1, <2>1, Zenon DEF DriveInv, DriveTypes
  <2>3. StateInv'
    BY <1>1, <2>1, Zenon DEF DriveInv, StateInv, Consumed
  <2> QED
    BY <1>2, <2>2, <2>3, Zenon DEF DriveInv
<1> QED
  BY <1>3, <1>4, <1>5, Zenon

\* The second transaction of Complete.
LEMMA StoreKeeps ==
  ASSUME DriveInv, NEW st \in OAuthStates, NEW withRefresh \in BOOLEAN, StoreTokens(st, withRefresh)
  PROVE  DriveInv'
<1> DEFINE n == Cardinality(grants) + 1
           refresh == IF withRefresh THEN n ELSE conn.refresh
<1>1. /\ st \in completing /\ RowFree /\ completing' = completing \ {st}
      /\ conn' = [status |-> "active", access |-> n, refresh |-> refresh, expires |-> driveTime + DriveTTL]
      /\ grants' = grants \cup {<<st, n>>}
      /\ UNCHANGED <<driveTime, oauth, caller>>
  BY Zenon DEF StoreTokens
<1>2. n \in Nat
  BY FS_CardinalityType DEF DriveInv, DriveTypes
<1>3. driveTime + DriveTTL \in Nat
  BY DriveAssumption DEF DriveInv, DriveTypes
<1>4. conn' \in Connections /\ conn'.status = "active"
  BY <1>1, <1>2, <1>3, Zenon DEF DriveInv, DriveTypes, Connections
<1>5. IsFiniteSet(grants')
  BY <1>1, FS_AddElement, Zenon DEF DriveInv, DriveTypes
<1> HIDE DEF n, refresh
<1>6. DriveTypes'
  BY <1>1, <1>4, <1>5, Zenon DEF DriveInv, DriveTypes
<1>7. HoldInv'
  BY <1>1, Zenon DEF HoldInv, RowFree
<1>8. RevokedHasNoTokens'
  BY <1>4, Zenon DEF RevokedHasNoTokens
<1>9. StateInv'
  BY <1>1 DEF DriveInv, StateInv, Consumed
<1>10. StatesWorkOnce'
  BY <1>1 DEF DriveInv, StateInv, StatesWorkOnce
<1> QED
  BY <1>6, <1>7, <1>8, <1>9, <1>10, Zenon DEF DriveInv

\* Disconnect waits for the caller that holds the row.
LEMMA DisconnectKeeps ==
  ASSUME DriveInv, Disconnect
  PROVE  DriveInv'
<1>1. /\ RowFree /\ UNCHANGED <<driveTime, oauth, completing, caller, grants>>
      /\ conn' = [NoConnection EXCEPT !.status = "revoked"]
  BY Zenon DEF Disconnect
<1>2. conn' \in Connections /\ conn'.status = "revoked" /\ conn'.access = 0 /\ conn'.refresh = 0
  BY <1>1, Zenon DEF NoConnection, Connections
<1>3. DriveTypes' /\ StateInv' /\ StatesWorkOnce'
  BY <1>1, <1>2, Zenon DEF DriveInv, DriveTypes, StateInv, Consumed, StatesWorkOnce
<1>4. HoldInv'
  BY <1>1, Zenon DEF HoldInv, RowFree
<1> QED
  BY <1>2, <1>3, <1>4, Zenon DEF DriveInv, RevokedHasNoTokens

\* AccessToken takes the row and gives it back.
LEMMA CallersKeep ==
  ASSUME DriveInv, NEW c \in Callers,
         TakeToken(c) \/ RefreshSucceeds(c) \/ RefreshFails(c) \/ RefreshAborts(c) \/ UseToken(c)
  PROVE  DriveInv'
<1>1. UNCHANGED <<driveTime, oauth, completing, grants>>
  BY Zenon DEF TakeToken, RefreshSucceeds, RefreshFails, RefreshAborts, UseToken
<1>2. StateInv' /\ StatesWorkOnce'
  BY <1>1, Zenon DEF DriveInv, StateInv, Consumed, StatesWorkOnce
<1>3. conn \in Connections /\ caller \in [Callers -> DriveCalls] /\ driveTime + DriveTTL \in Nat
  BY DriveAssumption DEF DriveInv, DriveTypes
<1>4. CASE TakeToken(c)
  <2>1. conn' = conn /\ RowFree /\ conn.status = "active"
    BY <1>4, Zenon DEF TakeToken
  <2>2. PICK call \in DriveCalls : /\ caller' = [caller EXCEPT ![c] = call]
                                   /\ call.phase = "refreshing" => conn.refresh # 0
    <3>1. conn.refresh \in Nat
      BY <1>3, Zenon DEF Connections
    <3>2. [phase |-> "got", refresh |-> 0] \in DriveCalls /\ [phase |-> "refreshing", refresh |-> conn.refresh] \in DriveCalls
      BY <3>1, Zenon DEF DriveCalls
    <3>3. CASE conn.expires > driveTime + ExpiryMargin
      BY <1>4, <3>2, <3>3, Zenon DEF TakeToken
    <3>4. CASE ~(conn.expires > driveTime + ExpiryMargin)
      BY <1>4, <3>2, <3>4, Zenon DEF TakeToken
    <3> QED
      BY <3>3, <3>4, Zenon
  <2>3. caller' \in [Callers -> DriveCalls] /\ caller'[c] = call /\ \A d \in Callers \ {c} : caller'[d] = caller[d]
    BY <1>3, <2>2, Zenon
  <2>4. HoldInv'
    BY <2>1, <2>2, <2>3, Zenon DEF HoldInv, RowFree
  <2> QED
    BY <1>1, <1>2, <1>3, <2>1, <2>3, <2>4, Zenon DEF DriveInv, DriveTypes, RevokedHasNoTokens
<1>5. CASE RefreshSucceeds(c) \/ RefreshFails(c) \/ RefreshAborts(c) \/ UseToken(c)
  <2>1. PICK call \in DriveCalls : caller' = [caller EXCEPT ![c] = call] /\ call.phase # "refreshing"
    <3> DEFINE got == [phase |-> "got", refresh |-> 0]
    <3>1. got \in DriveCalls /\ got.phase # "refreshing" /\ Waiting \in DriveCalls /\ Waiting.phase # "refreshing"
      BY Zenon DEF Waiting, DriveCalls
    <3>2. caller' = [caller EXCEPT ![c] = got] \/ caller' = [caller EXCEPT ![c] = Waiting]
      BY <1>5, Zenon DEF RefreshSucceeds, RefreshFails, RefreshAborts, UseToken
    <3> HIDE DEF got
    <3> QED
      BY <3>1, <3>2, Zenon
  <2>2. /\ caller' \in [Callers -> DriveCalls]
        /\ caller'[c].phase # "refreshing" /\ \A d \in Callers \ {c} : caller'[d] = caller[d]
    BY <1>3, <2>1, Zenon
  <2>3. CASE conn' = conn
    BY <1>1, <1>2, <1>3, <2>2, <2>3 DEF DriveInv, DriveTypes, HoldInv, RevokedHasNoTokens
  <2>4. CASE caller[c].phase = "refreshing" /\ conn' \in Connections /\ conn'.refresh = conn.refresh
                /\ conn'.status \in {conn.status, "error"}
    <3>1. conn.status = "active" /\ conn.refresh # 0 /\ \A d \in Callers : caller'[d].phase # "refreshing"
      BY <2>2, <2>4, Zenon DEF DriveInv, HoldInv
    <3> QED
      BY <1>1, <1>2, <2>2, <2>4, <3>1, Zenon DEF DriveInv, DriveTypes, HoldInv, RevokedHasNoTokens
  <2>5. CASE RefreshSucceeds(c)
    <3> DEFINE first == [conn EXCEPT !.access = caller[c].refresh]
    <3>1. first \in Connections /\ first.status = conn.status /\ first.refresh = conn.refresh
      BY <1>3, Zenon DEF Connections, DriveCalls
    <3>2. /\ [first EXCEPT !.expires = driveTime + DriveTTL] \in Connections
          /\ [first EXCEPT !.expires = driveTime + DriveTTL].status = first.status
          /\ [first EXCEPT !.expires = driveTime + DriveTTL].refresh = first.refresh
      BY <1>3, <3>1, Zenon DEF Connections
    <3>3. conn' = [first EXCEPT !.expires = driveTime + DriveTTL]
      BY <1>3, <2>5, Zenon DEF RefreshSucceeds, Connections
    <3> HIDE DEF first
    <3> QED
      BY <2>4, <2>5, <3>1, <3>2, <3>3, Zenon DEF RefreshSucceeds
  <2>6. CASE RefreshFails(c)
    <3>1. conn' \in Connections /\ conn'.status = "error" /\ conn'.refresh = conn.refresh
      BY <1>3, <2>6, Zenon DEF RefreshFails, Connections
    <3> QED
      BY <2>4, <2>6, <3>1, Zenon DEF RefreshFails
  <2> QED
    BY <1>5, <2>3, <2>5, <2>6, Zenon DEF RefreshAborts, UseToken
<1> QED
  BY <1>4, <1>5, Zenon

\* The invariant of the connection holds in every reachable state.
THEOREM DriveInvariance == DriveSpec => []DriveInv
<1>1. DriveInit => DriveInv
  <2> SUFFICES ASSUME DriveInit PROVE DriveInv
    BY Zenon
  <2>1. NoConnection \in Connections /\ NoConnection.status = "none" /\ Waiting \in DriveCalls /\ Waiting.phase = "idle"
    BY Zenon DEF NoConnection, Connections, Waiting, DriveCalls
  <2>2. IsFiniteSet(grants)
    BY FS_EmptySet, Zenon DEF DriveInit
  <2>3. DriveTypes
    BY <2>1, <2>2, Zenon DEF DriveInit, DriveTypes
  <2> QED
    BY <2>1, <2>3, Zenon DEF DriveInit, DriveInv, HoldInv, StateInv, RevokedHasNoTokens, StatesWorkOnce
<1>2. ASSUME DriveInv, [DriveNext]_driveVars
      PROVE  DriveInv'
  <2>1. CASE driveTime' \in Nat /\ UNCHANGED <<oauth, completing, conn, caller, grants>>
    <3>1. DriveTypes' /\ HoldInv'
      BY <1>2, <2>1, Zenon DEF DriveInv, DriveTypes, HoldInv
    <3>2. StateInv' /\ RevokedHasNoTokens' /\ StatesWorkOnce'
      BY <1>2, <2>1, Zenon DEF DriveInv, StateInv, Consumed, RevokedHasNoTokens, StatesWorkOnce
    <3> QED
      BY <3>1, <3>2, Zenon DEF DriveInv
  <2>2. CASE DriveTick
    BY <1>2, <2>1, <2>2 DEF DriveTick, DriveInv, DriveTypes
  <2>3. CASE UNCHANGED driveVars
    BY <1>2, <2>1, <2>3, Zenon DEF driveVars, DriveInv, DriveTypes
  <2> QED
    BY <1>2, <2>2, <2>3, StatesKeep, StoreKeeps, DisconnectKeeps, CallersKeep, Zenon DEF DriveNext
<1> QED
  BY <1>1, <1>2, PTL DEF DriveSpec

\* Disconnect leaves no token, with any number of refreshes under way.
THEOREM DisconnectCorrect == DriveSpec => []RevokedHasNoTokens
BY DriveInvariance, PTL DEF DriveInv

\* Complete exchanges a state once, however often its callback comes.
THEOREM StatesCorrect == DriveSpec => []StatesWorkOnce
BY DriveInvariance, PTL DEF DriveInv

-----------------------------------------------------------------------------
(***************************************************************************)
(* ProbeIdentity: who has which identity.                                  *)
(***************************************************************************)
\* The ids of the nodes that are registered.
Taken == {node.id : node \in nodes}

\* An agent's memory.
AgentRows == [phase : Phases, node : NodeIds \cup {Nothing}, challenge : Secrets \cup {Nothing},
              token : Secrets \cup {Nothing}, expiry : Nat]

\* The inductive invariant: what an agent has in its file, or is about to write there, is a registered
\* node, and no other agent has it.
OwnerInv ==
  /\ agent \in [Agents -> AgentRows]
  /\ identity \in [Agents -> NodeIds \cup {"absent", "garbled"}]
  /\ mishaps \in Nat
  /\ \A a \in Agents : agent[a].phase = "registered" => identity[a] = "absent" /\ agent[a].node \in NodeIds
  /\ \A a \in Agents, n \in NodeIds : Claims(a, n) => n \in Taken
  /\ \A a, b \in Agents, n \in NodeIds : Claims(a, n) /\ Claims(b, n) => a = b

\* Every node nobody has is due to a mishap of its own.
OrphanInv == IsFiniteSet(Orphans) /\ Cardinality(Orphans) <= mishaps

\* Orphans that become fewer, or one more by a mishap.
LEMMA SameOrphans ==
  ASSUME OrphanInv, mishaps \in Nat, mishaps' \in Nat, mishaps' >= mishaps, Orphans' \subseteq Orphans
  PROVE  OrphanInv'
<1>1. IsFiniteSet(Orphans') /\ Cardinality(Orphans') <= Cardinality(Orphans)
  BY FS_Subset, Zenon DEF OrphanInv
<1>2. Cardinality(Orphans) \in Nat /\ Cardinality(Orphans') \in Nat
  BY <1>1, FS_CardinalityType, Zenon DEF OrphanInv
<1> QED
  BY <1>1, <1>2 DEF OrphanInv

\* A mishap accounts for one more orphan.
LEMMA OneMoreOrphan ==
  ASSUME OrphanInv, mishaps \in Nat, mishaps' = mishaps + 1, NEW n, Orphans' \subseteq Orphans \cup {n}
  PROVE  OrphanInv'
<1>1. /\ IsFiniteSet(Orphans \cup {n})
      /\ Cardinality(Orphans \cup {n}) = Cardinality(Orphans) \/ Cardinality(Orphans \cup {n}) = Cardinality(Orphans) + 1
  BY FS_AddElement, Zenon DEF OrphanInv
<1>2. IsFiniteSet(Orphans') /\ Cardinality(Orphans') <= Cardinality(Orphans \cup {n})
  BY <1>1, FS_Subset, Zenon
<1>3. Cardinality(Orphans) \in Nat /\ Cardinality(Orphans') \in Nat
  BY <1>2, FS_CardinalityType, Zenon DEF OrphanInv
<1> QED
  BY <1>1, <1>2, <1>3 DEF OrphanInv

\* Steps after which the same agents claim the same nodes.
LEMMA SameClaims ==
  ASSUME OwnerInv, OrphanInv, Taken' = Taken, mishaps' \in Nat, mishaps' >= mishaps,
         agent' \in [Agents -> AgentRows], identity' \in [Agents -> NodeIds \cup {"absent", "garbled"}],
         nodes \subseteq Nodes,
         \A a \in Agents, n \in NodeIds : Claims(a, n)' <=> Claims(a, n),
         \A a \in Agents : agent'[a].phase = "registered" => identity'[a] = "absent" /\ agent'[a].node \in NodeIds
  PROVE  OwnerInv' /\ OrphanInv'
<1>1. OwnerInv'
  BY Zenon DEF OwnerInv
<1>2. Orphans' \subseteq Orphans
  <2>1. Taken \subseteq NodeIds
    BY Zenon DEF Taken, Nodes
  <2>2. Orphans = {n \in Taken : Owners(n) = {}} /\ Orphans' = {n \in Taken' : Owners(n)' = {}}
    BY Zenon DEF Orphans, Taken
  <2>3. \A n \in NodeIds : Owners(n)' = Owners(n)
    BY Zenon DEF Owners
  <2> QED
    BY <2>1, <2>2, <2>3, Zenon
<1> QED
  BY <1>1, <1>2, SameOrphans, Zenon DEF OwnerInv

\* Register: the new node is the caller's alone, or an orphan if the answer is lost.
LEMMA RegisterKeepsOwners ==
  ASSUME nodes \subseteq Nodes, OwnerInv, OrphanInv, NEW a \in Agents, NEW t \in RegistrationTokens,
         NEW n \in NodeIds, NEW lost \in BOOLEAN, Register(a, t, n, lost)
  PROVE  OwnerInv' /\ OrphanInv'
<1>1. /\ agent[a].phase = "stopped" /\ identity[a] = "absent" /\ identity' = identity
      /\ nodes' = nodes \cup {[id |-> n, name |-> NameOf[t], revoked |-> FALSE]}
      /\ \A node \in nodes : node.id # n
      /\ mishaps' = IF lost THEN mishaps + 1 ELSE mishaps
  BY Zenon DEF Register, NoIdentityYet
<1>2. Taken' = Taken \cup {n} /\ n \notin Taken /\ Taken \subseteq NodeIds
  <2> DEFINE new == [id |-> n, name |-> NameOf[t], revoked |-> FALSE]
  <2>1. new.id = n /\ nodes' = nodes \cup {new}
    BY <1>1, Zenon
  <2> HIDE DEF new
  <2>2. Taken' = Taken \cup {n}
    BY <2>1, Zenon DEF Taken
  <2>3. n \notin Taken
    BY <1>1, Zenon DEF Taken
  <2>4. Taken \subseteq NodeIds
    BY Zenon DEF Taken, Nodes
  <2> QED
    BY <2>2, <2>3, <2>4, Zenon
<1>3. \A m : Claims(a, m) => m \notin NodeIds
  BY <1>1, IdentityAssumption, Zenon DEF Claims
<1>4. \A b \in Agents : ~Claims(b, n)
  BY <1>2, Zenon DEF OwnerInv
<1>5. mishaps \in Nat /\ mishaps' \in Nat /\ mishaps' >= mishaps
  BY <1>1 DEF OwnerInv
<1>6. Orphans = {m \in Taken : Owners(m) = {}} /\ Orphans' = {m \in Taken' : Owners(m)' = {}}
  BY Zenon DEF Orphans, Taken
<1>7. CASE lost
  <2>1. agent' = agent
    BY <1>7, Zenon DEF Register
  <2>2. \A b, m : Claims(b, m)' <=> Claims(b, m)
    BY <1>1, <2>1, Zenon DEF Claims
  <2>3. OwnerInv'
    BY <1>1, <1>2, <1>5, <2>1, <2>2, Zenon DEF OwnerInv
  <2>4. Orphans' \subseteq Orphans \cup {n}
    <3>1. \A m : Owners(m)' = Owners(m)
      BY <2>2, Zenon DEF Owners
    <3> QED
      BY <1>2, <1>6, <3>1, Zenon
  <2> QED
    BY <1>1, <1>5, <1>7, <2>3, <2>4, OneMoreOrphan, Zenon
<1>8. CASE ~lost
  <2>1. agent' = [agent EXCEPT ![a] = [Stopped EXCEPT !.phase = "registered", !.node = n]]
    BY <1>8, Zenon DEF Register
  <2>2. /\ agent'[a].phase = "registered" /\ agent'[a].node = n /\ agent' \in [Agents -> AgentRows]
        /\ \A b \in Agents : b # a => agent'[b] = agent[b]
    <3> DEFINE new == [Stopped EXCEPT !.phase = "registered", !.node = n]
    <3>1. new \in AgentRows /\ new.phase = "registered" /\ new.node = n
      BY Zenon DEF AgentRows, Stopped, Phases
    <3> HIDE DEF new
    <3> QED
      BY <2>1, <3>1, Zenon DEF OwnerInv, new
  <2>3. /\ \A b \in Agents : b # a => \A m : Claims(b, m)' <=> Claims(b, m)
        /\ \A m \in NodeIds : Claims(a, m)' <=> m = n
    BY <1>1, <2>2, IdentityAssumption, Zenon DEF Claims
  <2>4. OwnerInv'
    <3>1. \A b \in Agents, m \in NodeIds : Claims(b, m)' => m \in Taken'
      BY <1>2, <2>3, Zenon DEF OwnerInv
    <3>2. \A b, c \in Agents, m \in NodeIds : Claims(b, m)' /\ Claims(c, m)' => b = c
      BY <1>4, <2>3 DEF OwnerInv
    <3>3. \A b \in Agents : agent'[b].phase = "registered" => identity'[b] = "absent" /\ agent'[b].node \in NodeIds
      BY <1>1, <2>2, Zenon DEF OwnerInv
    <3> QED
      BY <1>1, <1>5, <2>2, <3>1, <3>2, <3>3, Zenon DEF OwnerInv
  <2>5. Orphans' \subseteq Orphans
    <3>1. a \in Owners(n)'
      BY <2>3, Zenon DEF Owners
    <3>2. \A m \in Taken : Owners(m) \subseteq Owners(m)'
      BY <1>2, <1>3, <2>3, Zenon DEF Owners
    <3> QED
      BY <1>2, <1>6, <3>1, <3>2, Zenon
  <2> QED
    BY <1>5, <2>4, <2>5, SameOrphans, Zenon
<1> QED
  BY <1>7, <1>8, Zenon

\* A crash leaves at most the node of the agent that crashed without an owner.
LEMMA CrashKeepsOwners ==
  ASSUME nodes \subseteq Nodes, OwnerInv, OrphanInv, NEW a \in Agents,
         NEW file \in NodeIds \cup {"absent", "garbled"}, CrashAgent(a, file)
  PROVE  OwnerInv' /\ OrphanInv'
<1>1. /\ nodes' = nodes /\ mishaps' = mishaps + 1
      /\ \A b \in Agents : agent'[b] = IF b = a THEN Stopped ELSE agent[b]
      /\ \A b \in Agents : identity'[b] = IF b = a THEN file ELSE identity[b]
      /\ identity' \in [Agents -> NodeIds \cup {"absent", "garbled"}]
      /\ file \in (IF agent[a].phase = "registered" THEN {"absent", "garbled"} ELSE {identity[a]})
  BY Zenon DEF CrashAgent, OwnerInv
<1>2. agent' \in [Agents -> AgentRows] /\ Stopped.phase = "stopped"
  <2>1. Stopped \in AgentRows
    BY Zenon DEF Stopped, AgentRows, Phases
  <2> QED
    BY <2>1, Zenon DEF CrashAgent, OwnerInv, Stopped
<1>3. mishaps \in Nat /\ mishaps' \in Nat /\ mishaps' >= mishaps /\ Taken' = Taken
  BY <1>1 DEF OwnerInv, Taken
<1>4. \A b \in Agents : agent'[b].phase = "registered" => identity'[b] = "absent" /\ agent'[b].node \in NodeIds
  BY <1>1, <1>2, Zenon DEF OwnerInv
<1>5. \A b \in Agents : b # a => \A m : Claims(b, m)' <=> Claims(b, m)
  BY <1>1, Zenon DEF Claims
<1>6. CASE agent[a].phase = "registered"
  <2>1. \A m \in NodeIds : ~Claims(a, m)'
    BY <1>1, <1>2, <1>6, IdentityAssumption, Zenon DEF Claims
  <2>2. \A m \in NodeIds : Claims(a, m) => m = agent[a].node
    BY <1>6, IdentityAssumption, Zenon DEF Claims, OwnerInv
  <2>3. OwnerInv'
    BY <1>1, <1>2, <1>3, <1>4, <1>5, <2>1 DEF OwnerInv
  <2>4. Orphans' \subseteq Orphans \cup {agent[a].node}
    <3>1. Orphans = {m \in Taken : Owners(m) = {}} /\ Orphans' = {m \in Taken' : Owners(m)' = {}} /\ Taken \subseteq NodeIds
      BY Zenon DEF Orphans, Taken, Nodes
    <3>2. \A m \in NodeIds : m # agent[a].node => Owners(m) \subseteq Owners(m)'
      BY <1>5, <2>2, Zenon DEF Owners
    <3> QED
      BY <1>3, <3>1, <3>2, Zenon
  <2> QED
    BY <1>1, <1>3, <2>3, <2>4, OneMoreOrphan, Zenon
<1>7. CASE agent[a].phase # "registered"
  <2>1. \A m : Claims(a, m)' <=> Claims(a, m)
    BY <1>1, <1>2, <1>7, Zenon DEF Claims
  <2> QED
    BY <1>1, <1>2, <1>3, <1>4, <1>5, <2>1, SameClaims, Zenon
<1> QED
  BY <1>6, <1>7, Zenon

\* Steps that keep the identity, the phase and the node of every agent.
LEMMA QuietOwners ==
  ASSUME nodes \subseteq Nodes, OwnerInv, OrphanInv, Taken' = Taken, UNCHANGED identity, mishaps' \in Nat, mishaps' >= mishaps,
         agent' \in [Agents -> AgentRows],
         \A a \in Agents : agent'[a].node = agent[a].node /\ agent'[a].phase = agent[a].phase
  PROVE  OwnerInv' /\ OrphanInv'
<1>1. \A a \in Agents : \A n : Claims(a, n)' <=> Claims(a, n)
  BY Zenon DEF Claims
<1>2. \A a \in Agents : agent'[a].phase = "registered" => identity'[a] = "absent" /\ agent'[a].node \in NodeIds
  BY Zenon DEF OwnerInv
<1>3. identity' \in [Agents -> NodeIds \cup {"absent", "garbled"}]
  BY Zenon DEF OwnerInv
<1> QED
  BY <1>1, <1>2, <1>3, SameClaims, Zenon

\* Every step keeps both.
LEMMA OwnerStep ==
  ASSUME IdentityInv, OwnerInv, OrphanInv, [IdentityNext]_identityVars
  PROVE  OwnerInv' /\ OrphanInv'
<1>0. /\ nodes \subseteq Nodes /\ mishaps \in Nat /\ agent \in [Agents -> AgentRows] /\ identityTime \in Nat
      /\ ChallengeTTL \in Nat /\ TokenTTL \in Nat
      /\ identity \in [Agents -> NodeIds \cup {"absent", "garbled"}]
      /\ \A a \in Agents : agent[a] \in AgentRows
  BY IdentityAssumption, Zenon DEF IdentityInv, IdentityTypes, OwnerInv
<1>1. ASSUME NEW a \in Agents, StartAgent(a) \/ StopAgent(a)
      PROVE  OwnerInv' /\ OrphanInv'
  <2>1. UNCHANGED <<nodes, identity, mishaps>> /\ agent[a].phase # "registered"
    BY <1>1, Zenon DEF StartAgent, StopAgent
  <2>2. PICK new \in AgentRows : agent' = [agent EXCEPT ![a] = new] /\ new.phase # "registered"
    <3>1. Stopped \in AgentRows /\ Stopped.phase = "stopped"
      BY Zenon DEF Stopped, AgentRows, Phases
    <3>2. ASSUME NEW n \in NodeIds
          PROVE  [Stopped EXCEPT !.phase = "running", !.node = n] \in AgentRows
                 /\ [Stopped EXCEPT !.phase = "running", !.node = n].phase = "running"
      BY Zenon DEF Stopped, AgentRows, Phases
    <3> QED
      BY <1>1, <3>1, <3>2, Zenon DEF StartAgent, StopAgent
  <2>3. /\ agent' \in [Agents -> AgentRows] /\ agent'[a] = new
        /\ \A b \in Agents : b # a => agent'[b] = agent[b]
    BY <1>0, <2>2, Zenon
  <2>4. \A b \in Agents : \A n : Claims(b, n)' <=> Claims(b, n)
    BY <2>1, <2>2, <2>3, Zenon DEF Claims
  <2>5. \A b \in Agents : agent'[b].phase = "registered" => identity'[b] = "absent" /\ agent'[b].node \in NodeIds
    BY <2>1, <2>2, <2>3, Zenon DEF OwnerInv
  <2>6. Taken' = Taken
    BY <2>1, Zenon DEF Taken
  <2>7. mishaps' \in Nat /\ mishaps' >= mishaps /\ nodes \subseteq Nodes
    BY <1>0, <2>1
  <2>8. agent' \in [Agents -> AgentRows] /\ identity' \in [Agents -> NodeIds \cup {"absent", "garbled"}]
    BY <1>0, <2>1, <2>3, Zenon
  <2> QED
    BY <2>4, <2>5, <2>6, <2>7, <2>8, SameClaims, Zenon
<1>2. ASSUME NEW a \in Agents, PersistIdentity(a)
      PROVE  OwnerInv' /\ OrphanInv'
  <2> DEFINE new == [agent[a] EXCEPT !.phase = "running"]
  <2>1. /\ UNCHANGED <<nodes, mishaps>> /\ agent[a].phase = "registered"
        /\ agent[a].node \in NodeIds /\ identity[a] = "absent"
        /\ identity' = [identity EXCEPT ![a] = agent[a].node]
        /\ agent' = [agent EXCEPT ![a] = new]
    BY <1>2, Zenon DEF PersistIdentity, OwnerInv
  <2>2. new \in AgentRows /\ new.phase = "running"
    BY <1>0, Zenon DEF AgentRows, Phases
  <2> HIDE DEF new
  <2>3. /\ agent' \in [Agents -> AgentRows] /\ agent'[a] = new
        /\ \A b \in Agents : b # a => agent'[b] = agent[b] /\ identity'[b] = identity[b]
        /\ identity' \in [Agents -> NodeIds \cup {"absent", "garbled"}] /\ identity'[a] = agent[a].node
    BY <1>0, <2>1, <2>2, Zenon
  <2>4. \A b \in Agents, n \in NodeIds : Claims(b, n)' <=> Claims(b, n)
    BY <2>1, <2>2, <2>3, IdentityAssumption DEF Claims
  <2>5. \A b \in Agents : agent'[b].phase = "registered" => identity'[b] = "absent" /\ agent'[b].node \in NodeIds
    BY <2>1, <2>2, <2>3, Zenon DEF OwnerInv
  <2>6. Taken' = Taken
    BY <2>1, Zenon DEF Taken
  <2>7. mishaps' \in Nat /\ mishaps' >= mishaps /\ nodes \subseteq Nodes
    BY <1>0, <2>1
  <2>8. agent' \in [Agents -> AgentRows] /\ identity' \in [Agents -> NodeIds \cup {"absent", "garbled"}]
    BY <1>0, <2>1, <2>3, Zenon
  <2> QED
    BY <2>4, <2>5, <2>6, <2>7, <2>8, SameClaims, Zenon
<1>3. ASSUME NEW a \in Agents, GiveUpWaiting(a) \/ \E c \in Secrets : CreateChallenge(a, c)
      PROVE  OwnerInv' /\ OrphanInv'
  <2>1. PICK c \in Secrets \cup {Nothing} : agent' = [agent EXCEPT ![a] = [agent[a] EXCEPT !.challenge = c]]
    BY <1>0, <1>3, Zenon DEF GiveUpWaiting, CreateChallenge
  <2>2. UNCHANGED <<nodes, identity>> /\ (mishaps' = mishaps \/ mishaps' = mishaps + 1)
    BY <1>3, Zenon DEF GiveUpWaiting, CreateChallenge
  <2> DEFINE new == [agent[a] EXCEPT !.challenge = c]
  <2>3. new \in AgentRows /\ new.phase = agent[a].phase /\ new.node = agent[a].node
    BY <1>0, Zenon DEF AgentRows
  <2>4. agent' = [agent EXCEPT ![a] = new]
    BY <2>1, Zenon
  <2> HIDE DEF new
  <2>5. /\ agent' \in [Agents -> AgentRows]
        /\ \A b \in Agents : agent'[b].node = agent[b].node /\ agent'[b].phase = agent[b].phase
    BY <1>0, <2>3, <2>4, Zenon
  <2>6. Taken' = Taken
    BY <2>2, Zenon DEF Taken
  <2> QED
    BY <1>0, <2>2, <2>5, <2>6, QuietOwners
<1>4. ASSUME NEW c \in Secrets, NEW s \in Secrets, IssueCommit(c, s)
      PROVE  OwnerInv' /\ OrphanInv'
  <2>1. /\ UNCHANGED <<nodes, identity, mishaps>>
        /\ agent' = [a \in Agents |-> IF agent[a].challenge = c
             THEN [agent[a] EXCEPT !.token = s, !.expiry = identityTime + TokenTTL, !.challenge = Nothing]
             ELSE agent[a]]
    BY <1>4, Zenon DEF IssueCommit
  <2>2. ASSUME NEW a \in Agents
        PROVE  LET new == [agent[a] EXCEPT !.token = s, !.expiry = identityTime + TokenTTL, !.challenge = Nothing]
               IN new \in AgentRows /\ new.phase = agent[a].phase /\ new.node = agent[a].node
    <3>1. identityTime + TokenTTL \in Nat
      BY <1>0
    <3> QED
      BY <1>0, <3>1, Zenon DEF AgentRows
  <2>3. /\ agent' \in [Agents -> AgentRows]
        /\ \A b \in Agents : agent'[b].node = agent[b].node /\ agent'[b].phase = agent[b].phase
    BY <1>0, <2>1, <2>2, Zenon
  <2>4. Taken' = Taken
    BY <2>1, Zenon DEF Taken
  <2>5. identity' = identity /\ mishaps' = mishaps
    BY <2>1, Zenon
  <2>6. mishaps' \in Nat /\ mishaps' >= mishaps
    BY <1>0, <2>5
  <2> QED
    BY <1>0, <2>3, <2>4, <2>5, <2>6, QuietOwners, Zenon
<1>5. ASSUME NEW n \in NodeIds, RevokeProbe(n)
      PROVE  OwnerInv' /\ OrphanInv'
  <2> DEFINE out(node) == IF node.id = n THEN [node EXCEPT !.revoked = TRUE] ELSE node
  <2>1. nodes' = {out(node) : node \in nodes} /\ UNCHANGED <<agent, identity, mishaps>>
    BY <1>5, Zenon DEF RevokeProbe
  <2>2. \A node \in nodes : out(node).id = node.id
    BY <1>0, Zenon DEF Nodes
  <2> HIDE DEF out
  <2>3. Taken' = Taken
    BY <2>1, <2>2, Zenon DEF Taken
  <2> QED
    BY <1>0, <2>1, <2>3, QuietOwners
<1>6. ASSUME UNCHANGED <<nodes, agent, identity, mishaps>>
      PROVE  OwnerInv' /\ OrphanInv'
  <2>1. Taken' = Taken
    BY <1>6, Zenon DEF Taken
  <2> QED
    BY <1>0, <1>6, <2>1, QuietOwners
<1>7. CASE IdentityTick \/ UNCHANGED identityVars
  BY <1>6, <1>7, Zenon DEF IdentityTick, identityVars
<1>8. ASSUME NEW a \in Agents, AuthenticateProbe(a)
      PROVE  OwnerInv' /\ OrphanInv'
  BY <1>6, <1>8, Zenon DEF AuthenticateProbe
<1>9. ASSUME NEW c \in Secrets, IssueRead(c)
      PROVE  OwnerInv' /\ OrphanInv'
  BY <1>6, <1>9, Zenon DEF IssueRead
<1> QED
  BY <1>0, <1>1, <1>2, <1>3, <1>4, <1>5, <1>7, <1>8, <1>9, RegisterKeepsOwners, CrashKeepsOwners, Zenon DEF IdentityNext

\* No two agents share a node's identity, and there are no more nodes nobody has than answers lost
\* and agents crashed.
THEOREM IdentitiesCorrect == IdentitySpec => []IdentitiesAreKept
<1>1. IdentityInit => OwnerInv /\ OrphanInv
  <2> SUFFICES ASSUME IdentityInit PROVE OwnerInv /\ OrphanInv
    BY Zenon
  <2>1. Stopped \in AgentRows /\ Stopped.phase = "stopped"
    BY Zenon DEF Stopped, AgentRows, Phases
  <2>2. OwnerInv
    BY <2>1, IdentityAssumption, Zenon DEF IdentityInit, OwnerInv, Claims
  <2>3. Orphans = {}
    BY Zenon DEF IdentityInit, Orphans
  <2> QED
    BY <2>2, <2>3, FS_EmptySet DEF OrphanInv, IdentityInit
<1>2. IdentityInv /\ OwnerInv /\ OrphanInv /\ [IdentityNext]_identityVars => OwnerInv' /\ OrphanInv'
  BY OwnerStep, Zenon
<1>3. IdentityInv /\ OwnerInv /\ OrphanInv => IdentitiesAreKept
  <2> SUFFICES ASSUME IdentityInv, OwnerInv, OrphanInv, NEW node \in nodes
               PROVE  Cardinality(Owners(node.id)) <= 1
    BY Zenon DEF IdentitiesAreKept, OrphanInv
  <2>1. node.id \in NodeIds
    BY Zenon DEF IdentityInv, IdentityTypes, Nodes
  <2>2. CASE Owners(node.id) = {}
    BY <2>2, FS_EmptySet
  <2>3. ASSUME NEW a \in Owners(node.id)
        PROVE  Cardinality(Owners(node.id)) = 1
    <3>1. Owners(node.id) = {a}
      BY <2>1, Zenon DEF Owners, OwnerInv
    <3> QED
      BY <3>1, FS_Singleton, Zenon
  <2> QED
    BY <2>2, <2>3
<1> QED
  BY <1>1, <1>2, <1>3, IdentityInvariance, PTL DEF IdentitySpec

-----------------------------------------------------------------------------
(***************************************************************************)
(* Sessions: login, logout and their trail.                                *)
(***************************************************************************)
\* The rows of the sessions table.
SessionRows == [id : SessionIds, user : Accounts, expires : Nat, revoked : BOOLEAN]
\* The entries of the audit trail about sessions.
TrailEntries == [session : SessionIds, action : {"SESSION_CREATED", "SESSION_REVOKED"}, by : Tabs]
\* A request of a browser tab.
Requests == {Idle} \cup
  [phase : {"sent", "admitted", "refused", "unanswered", "handled"}, route : Routes, cookies : Token]
\* The sessions that exist.
Known == {s.id : s \in sessions}

\* The types of the variables.
SessionTypes ==
  /\ sessionTime \in Nat
  /\ sessions \subseteq SessionRows
  /\ trail \subseteq TrailEntries
  /\ request \in [Tabs -> Requests]

\* Cookies, requests and closed sessions are of sessions that exist, and their
\* ids are not used again: a session that has ended cannot come back.
KnownInv ==
  /\ \A s, q \in sessions : s.id = q.id => s = q
  /\ cookies \in Known \cup {NoSession}
  /\ \A t \in Tabs : request[t] # Idle => request[t].cookies \in Known
  /\ closed \subseteq Known

\* The answer to a logout says that the session has ended.
LogoutInv ==
  \A t \in Tabs, s \in sessions :
    request[t] # Idle /\ request[t].route.kind = "logout" /\ request[t].cookies = s.id =>
      /\ request[t].phase = "refused" => ~LiveSession(s)
      /\ request[t].phase = "handled" => s.revoked

\* The entries of one action about one session.
Marks(id, action) == {e \in trail : e.session = id /\ e.action = action}

\* Every entry is of a session, has no twin, and a session has those of its life.
TrailInv ==
  /\ \A e \in trail : e.session \in Known
  /\ \A e, f \in trail : e.session = f.session /\ e.action = f.action => e = f
  /\ \A s \in sessions :
       /\ Marks(s.id, "SESSION_CREATED") # {}
       /\ Marks(s.id, "SESSION_REVOKED") # {} <=> s.revoked

\* The inductive invariant.
SessionInv == SessionTypes /\ KnownInv /\ LogoutInv /\ TrailInv /\ ClosedSessionsAreDead
-----------------------------------------------------------------------------
\* What was dead stays dead: time does not go back, and no revocation is undone.
LEMMA DeadStaysDead ==
  ASSUME SessionTypes, NEW s \in SessionRows, ~LiveSession(s), sessionTime' \in Nat, sessionTime' >= sessionTime
  PROVE  ~LiveSession(s)'
BY DEF SessionTypes, LiveSession, SessionRows

\* A login makes a session that no cookie, request or entry can be of yet.
LEMMA LoginKeeps ==
  ASSUME SessionInv, NEW t \in Tabs, NEW u \in Accounts, NEW id \in SessionIds, NEW ahead \in 0 .. SessionSkew,
         Login(t, u, id, ahead)
  PROVE  SessionInv'
<1> DEFINE row == [id |-> id, user |-> u, expires |-> sessionTime + ahead + SessionTTL, revoked |-> FALSE]
           entry == [session |-> id, action |-> "SESSION_CREATED", by |-> t]
<1>1. /\ sessions' = sessions \cup {row} /\ trail' = trail \cup {entry} /\ cookies' = id
      /\ UNCHANGED <<sessionTime, request, closed>>
      /\ id \notin Known
  BY Zenon DEF Login, Known
<1>2. row \in SessionRows /\ entry \in TrailEntries
  BY SessionAssumption DEF SessionInv, SessionTypes, SessionRows, TrailEntries
<1>3. SessionTypes'
  BY <1>1, <1>2, Zenon DEF SessionInv, SessionTypes
<1>a. /\ row.id = id /\ ~row.revoked /\ \A s \in sessions : s.id # id
  BY <1>1, Zenon DEF Known
<1> HIDE DEF row
<1>4. Known' = Known \cup {id}
  BY <1>1, <1>a, Zenon DEF Known
<1>5. KnownInv'
  <2>1. \A s, q \in sessions' : s.id = q.id => s = q
    BY <1>1, <1>a, Zenon DEF SessionInv, KnownInv
  <2> QED
    BY <1>1, <1>4, <2>1, Zenon DEF SessionInv, KnownInv
<1>6. \A s \in sessions : LiveSession(s)' <=> LiveSession(s)
  BY <1>1, Zenon DEF LiveSession
<1>7. LogoutInv' /\ ClosedSessionsAreDead'
  <2>1. \A x \in Tabs : request[x] # Idle => request[x].cookies # id
    BY <1>1, Zenon DEF SessionInv, KnownInv
  <2>2. id \notin closed
    BY <1>1, Zenon DEF SessionInv, KnownInv
  <2> QED
    BY <1>1, <1>a, <1>6, <2>1, <2>2, Zenon DEF SessionInv, LogoutInv, ClosedSessionsAreDead
<1>8. TrailInv'
  <2>1. \A e \in trail : e.session # id
    BY <1>1, Zenon DEF SessionInv, TrailInv
  <2>2. \A e \in trail' : e.session \in Known'
    BY <1>1, <1>4 DEF SessionInv, TrailInv
  <2>3. \A e, f \in trail' : e.session = f.session /\ e.action = f.action => e = f
    BY <1>1, <2>1 DEF SessionInv, TrailInv
  <2>4. ASSUME NEW s \in sessions
        PROVE  /\ Marks(s.id, "SESSION_CREATED")' # {}
               /\ Marks(s.id, "SESSION_REVOKED")' # {} <=> s.revoked
    <3>1. s.id # id
      BY <1>1, Zenon DEF Known
    <3>2. \A a : Marks(s.id, a)' = Marks(s.id, a)
      BY <1>1, <3>1 DEF Marks
    <3> QED
      BY <3>2, Zenon DEF SessionInv, TrailInv
  <2>5. entry \in Marks(id, "SESSION_CREATED")'
    BY <1>1, Zenon DEF Marks
  <2>6. Marks(id, "SESSION_REVOKED")' = {}
    BY <1>1, <2>1 DEF Marks
  <2> QED
    BY <1>1, <1>a, <2>2, <2>3, <2>4, <2>5, <2>6, Zenon DEF TrailInv
<1> QED
  BY <1>3, <1>5, <1>7, <1>8, Zenon DEF SessionInv

\* Logging out takes no role.
LEMMA AnyoneLogsOut ==
  \A route \in Routes : route.kind = "logout" => route.roles = {}
BY DEF Routes

\* A step of a request that only moves the request.
LEMMA RequestMoves ==
  ASSUME SessionInv, NEW t \in Tabs, NEW r \in Requests, request' = [request EXCEPT ![t] = r],
         UNCHANGED <<sessionTime, sessions, trail, cookies, closed>>,
         r # Idle => r.cookies \in Known,
         r # Idle /\ r.route.kind = "logout" =>
           \A s \in sessions : s.id = r.cookies =>
             (r.phase = "refused" => ~LiveSession(s)) /\ (r.phase = "handled" => s.revoked)
  PROVE  SessionInv'
<1>1. SessionTypes'
  BY Zenon DEF SessionInv, SessionTypes
<1>2. \A x \in Tabs : request'[x] = IF x = t THEN r ELSE request[x]
  BY Zenon DEF SessionInv, SessionTypes
<1>3. KnownInv'
  BY <1>2, Zenon DEF SessionInv, KnownInv, Known
<1>4. LogoutInv'
  BY <1>2 DEF SessionInv, LogoutInv, LiveSession
<1>5. TrailInv' /\ ClosedSessionsAreDead'
  BY Zenon DEF SessionInv, TrailInv, Known, Marks, ClosedSessionsAreDead, LiveSession
<1> QED
  BY <1>1, <1>3, <1>4, <1>5, Zenon DEF SessionInv

\* The handler of a logout revokes the one session of its cookie, and leaves one
\* entry if it did.
LEMMA HandleKeeps ==
  ASSUME SessionInv, NEW t \in Tabs, HandleRequest(t)
  PROVE  SessionInv'
<1> DEFINE r == request[t]
           own == {s \in sessions : r.route.kind = "logout" /\ s.id = r.cookies /\ NotYetRevoked(s)}
           after(s) == IF s \in own THEN [s EXCEPT !.revoked = TRUE] ELSE s
           entry(s) == [session |-> s.id, action |-> "SESSION_REVOKED", by |-> t]
<1>1. /\ r.phase = "admitted" /\ r # Idle /\ r \in Requests /\ r.cookies \in Known
  BY DEF HandleRequest, Idle, SessionInv, SessionTypes, KnownInv
<1>2. /\ sessions' = {after(s) : s \in sessions}
      /\ trail' = trail \cup {entry(s) : s \in own}
      /\ request' = [request EXCEPT ![t].phase = "handled"]
      /\ UNCHANGED <<sessionTime, cookies, closed>>
  BY Zenon DEF HandleRequest
<1>3. \A s \in sessions : /\ after(s) \in SessionRows /\ after(s).id = s.id /\ after(s).expires = s.expires
                          /\ after(s).revoked <=> (s.revoked \/ s \in own)
                          /\ s \in own => ~s.revoked
  BY Zenon DEF SessionInv, SessionTypes, SessionRows, NotYetRevoked
<1> HIDE DEF after
<1>4. Known' = Known
  BY <1>2, <1>3 DEF Known
<1>5. \A s \in own : entry(s) \in TrailEntries /\ entry(s).session = s.id /\ entry(s).action = "SESSION_REVOKED"
  BY Zenon DEF TrailEntries, SessionInv, SessionTypes, SessionRows
<1>6. request'[t] = [r EXCEPT !.phase = "handled"] /\ \A x \in Tabs \ {t} : request'[x] = request[x]
  BY <1>2, Zenon DEF SessionInv, SessionTypes
<1>7. /\ request'[t] \in Requests /\ request'[t].cookies = r.cookies /\ request'[t].route = r.route
      /\ request'[t].phase = "handled"
  BY <1>1, <1>6, Zenon DEF Requests, Idle
<1>8. SessionTypes'
  <2>1. sessions' \subseteq SessionRows
    BY <1>2, <1>3
  <2>2. trail' \subseteq TrailEntries
    BY <1>2, <1>5, Zenon DEF SessionInv, SessionTypes
  <2>3. request' \in [Tabs -> Requests]
    BY <1>2, <1>6, <1>7, Zenon DEF SessionInv, SessionTypes
  <2> QED
    BY <1>2, <2>1, <2>2, <2>3, Zenon DEF SessionInv, SessionTypes
<1>9. \A s, q \in sessions : after(s).id = after(q).id => s = q
  <2>1. \A s, q \in sessions : s.id = q.id => s = q
    BY Zenon DEF SessionInv, KnownInv
  <2> QED
    BY <1>3, <2>1
<1>10. KnownInv'
  <2>1. \A x \in Tabs : request'[x] # Idle => request'[x].cookies \in Known
    BY <1>1, <1>6, <1>7, Zenon DEF SessionInv, KnownInv
  <2> QED
    BY <1>2, <1>4, <1>9, <2>1 DEF SessionInv, KnownInv
<1>11. \A q \in sessions' : \E s \in sessions :
         q.id = s.id /\ q.revoked = after(s).revoked /\ after(s).id = s.id /\ (LiveSession(q)' => LiveSession(s))
  BY <1>2, <1>3 DEF LiveSession
<1>12. ClosedSessionsAreDead'
  BY <1>2, <1>11, Zenon DEF SessionInv, ClosedSessionsAreDead
<1>13. LogoutInv'
  <2> SUFFICES ASSUME NEW x \in Tabs, NEW q \in sessions',
                      request'[x] # Idle, request'[x].route.kind = "logout", request'[x].cookies = q.id
               PROVE  /\ request'[x].phase = "refused" => ~LiveSession(q)'
                      /\ request'[x].phase = "handled" => q.revoked
    BY Zenon DEF LogoutInv
  <2>0. PICK s \in sessions : q.id = s.id /\ q.revoked = after(s).revoked /\ (LiveSession(q)' => LiveSession(s))
    BY <1>11, Zenon
  <2>1. CASE x = t
    <3>1. s.revoked \/ s \in own
      BY <1>3, <1>7, <2>0, <2>1, Zenon DEF NotYetRevoked
    <3> QED
      BY <1>3, <1>7, <2>0, <2>1, <3>1, Zenon
  <2>2. CASE x # t
    BY <1>3, <1>6, <2>0, <2>2 DEF SessionInv, LogoutInv
  <2> QED
    BY <2>1, <2>2, Zenon
<1>14. TrailInv'
  <2>1. \A e \in trail' : e.session \in Known
    BY <1>2, <1>5, Zenon DEF SessionInv, TrailInv, Known
  <2>2. \A s, q \in own : s = q
    BY Zenon DEF SessionInv, KnownInv
  <2>3. \A s \in own : Marks(s.id, "SESSION_REVOKED") = {}
    BY <1>3, Zenon DEF SessionInv, TrailInv
  <2>4. \A e \in trail, s \in own : ~(e.session = s.id /\ e.action = "SESSION_REVOKED")
    BY <2>3, Zenon DEF Marks
  <2>5. \A e, f \in trail' : e.session = f.session /\ e.action = f.action => e = f
    BY <1>2, <1>5, <2>2, <2>4 DEF SessionInv, TrailInv
  <2>6. ASSUME NEW s \in sessions
        PROVE  /\ Marks(s.id, "SESSION_CREATED")' # {}
               /\ Marks(s.id, "SESSION_REVOKED")' # {} <=> (s.revoked \/ s \in own)
    <3>1. Marks(s.id, "SESSION_CREATED") \subseteq Marks(s.id, "SESSION_CREATED")'
      BY <1>2, Zenon DEF Marks
    <3>2. CASE s \in own
      <4>1. entry(s) \in Marks(s.id, "SESSION_REVOKED")'
        BY <1>2, <1>5, <3>2, Zenon DEF Marks
      <4> QED
        BY <3>1, <3>2, <4>1, Zenon DEF SessionInv, TrailInv
    <3>3. CASE s \notin own
      <4>1. \A q \in own : q.id # s.id
        BY <3>3, Zenon DEF SessionInv, KnownInv
      <4>2. Marks(s.id, "SESSION_REVOKED")' = Marks(s.id, "SESSION_REVOKED")
        BY <1>2, <1>5, <4>1, ZenonT(40) DEF Marks
      <4> QED
        BY <3>1, <3>3, <4>2, Zenon DEF SessionInv, TrailInv
    <3> QED
      BY <3>2, <3>3, Zenon
  <2> QED
    BY <1>2, <1>3, <1>4, <2>1, <2>5, <2>6 DEF TrailInv
<1> QED
  BY <1>8, <1>10, <1>12, <1>13, <1>14, Zenon DEF SessionInv

\* The other steps of a request.
LEMMA RequestKeeps ==
  ASSUME SessionInv, NEW t \in Tabs,
         \/ \E route \in Routes : SendRequest(t, route)
         \/ AdmitRequest(t) \/ LoseRequest(t) \/ Respond(t)
  PROVE  SessionInv'
<1>1. request[t] \in Requests /\ request \in [Tabs -> Requests]
  BY Zenon DEF SessionInv, SessionTypes
<1>2. ASSUME NEW route \in Routes, SendRequest(t, route)
      PROVE  SessionInv'
  <2> DEFINE r == [phase |-> "sent", route |-> route, cookies |-> cookies]
  <2>1. cookies \in Known /\ Known \subseteq SessionIds
    BY <1>2 DEF SendRequest, SessionInv, KnownInv, Known, SessionTypes, SessionRows
  <2>2. r \in Requests /\ r.cookies \in Known /\ r.phase = "sent"
    BY <2>1, Zenon DEF Requests, Token
  <2>3. request' = [request EXCEPT ![t] = r] /\ UNCHANGED <<sessionTime, sessions, trail, cookies, closed>>
    BY <1>2, Zenon DEF SendRequest
  <2> HIDE DEF r
  <2> QED
    BY <2>2, <2>3, RequestMoves, Zenon
<1>3. ASSUME AdmitRequest(t)
      PROVE  SessionInv'
  <2> DEFINE o == request[t]
             admitted == \E s \in sessions :
               /\ s.id = o.cookies /\ LiveSession(s)
               /\ o.route.roles = {} \/ RolesOf[s.user] \cap o.route.roles # {}
             r == [o EXCEPT !.phase = IF admitted THEN "admitted" ELSE "refused"]
  <2>1. o.phase = "sent" /\ o # Idle /\ o.cookies \in Known /\ o.route \in Routes
    BY <1>1, <1>3 DEF AdmitRequest, Idle, SessionInv, KnownInv, Requests
  <2>2. request' = [request EXCEPT ![t] = r] /\ UNCHANGED <<sessionTime, sessions, trail, cookies, closed>>
    BY <1>1, <1>3, Zenon DEF AdmitRequest
  <2>3. /\ r \in Requests /\ r.cookies = o.cookies /\ r.route = o.route
        /\ r.phase = IF admitted THEN "admitted" ELSE "refused"
    BY <1>1, <2>1, Zenon DEF Requests, Idle
  <2>4. o.route.kind = "logout" => o.route.roles = {}
    BY <2>1, AnyoneLogsOut, Zenon
  <2>5. o.route.kind = "logout" /\ ~admitted => \A s \in sessions : s.id = o.cookies => ~LiveSession(s)
    BY <2>4, Zenon
  <2> HIDE DEF r, admitted
  <2> QED
    BY <2>1, <2>2, <2>3, <2>5, RequestMoves, Zenon
<1>4. ASSUME LoseRequest(t)
      PROVE  SessionInv'
  <2> DEFINE o == request[t]
             r == [o EXCEPT !.phase = "unanswered"]
  <2>1. o # Idle /\ o.cookies \in Known
    BY <1>1, <1>4 DEF LoseRequest, Idle, SessionInv, KnownInv
  <2>2. request' = [request EXCEPT ![t] = r] /\ UNCHANGED <<sessionTime, sessions, trail, cookies, closed>>
    BY <1>1, <1>4, Zenon DEF LoseRequest
  <2>3. r \in Requests /\ r.cookies = o.cookies /\ r.phase = "unanswered"
    BY <1>1, <2>1, Zenon DEF Requests, Idle
  <2> HIDE DEF r
  <2> QED
    BY <2>1, <2>2, <2>3, RequestMoves, Zenon
<1>5. ASSUME Respond(t)
      PROVE  SessionInv'
  <2> DEFINE o == request[t]
  <2>1. o # Idle /\ o.cookies \in Known /\ o.phase \in {"refused", "unanswered", "handled"}
    <3>1. o.phase \in {"refused", "unanswered", "handled"}
      BY <1>5, Zenon DEF Respond
    <3>2. o # Idle
      <4>1. Idle.phase = "idle"
        BY Zenon DEF Idle
      <4>2. o.phase # "idle"
        BY <3>1, Zenon
      <4> QED
        BY <4>1, <4>2, Zenon
    <3>3. \A x \in Tabs : request[x] # Idle => request[x].cookies \in Known
      BY Zenon DEF SessionInv, KnownInv
    <3> QED
      BY <3>1, <3>2, <3>3, Zenon
  <2>2. /\ request' = [request EXCEPT ![t] = Idle] /\ UNCHANGED <<sessionTime, sessions, trail>>
        /\ cookies' \in {cookies, NoSession}
        /\ closed' = closed \/ (closed' = closed \cup {o.cookies} /\ o.route.kind = "logout" /\ o.phase # "unanswered")
    BY <1>5, Zenon DEF Respond
  <2>3. Known' = Known /\ \A s \in sessions : LiveSession(s)' <=> LiveSession(s)
    BY <2>2, Zenon DEF Known, LiveSession
  <2>4. \A x \in Tabs : request'[x] = IF x = t THEN Idle ELSE request[x]
    BY <1>1, <2>2, Zenon
  <2>5. SessionTypes'
    BY <2>2, Zenon DEF SessionInv, SessionTypes, Requests
  <2>6. KnownInv'
    <3>1. KnownInv
      BY Zenon DEF SessionInv
    <3>2. \A x \in Tabs : request'[x] # Idle => request'[x].cookies \in Known'
      BY <2>3, <2>4, <3>1, Zenon DEF KnownInv
    <3>3. closed' \subseteq Known'
      BY <2>1, <2>2, <2>3, <3>1, Zenon DEF KnownInv
    <3>4. cookies' \in Known' \cup {NoSession}
      BY <2>2, <2>3, <3>1, Zenon DEF KnownInv
    <3>5. \A s, q \in sessions' : s.id = q.id => s = q
      BY <2>2, <3>1, Zenon DEF KnownInv
    <3> QED
      BY <3>2, <3>3, <3>4, <3>5, Zenon DEF KnownInv
  <2>7. LogoutInv'
    <3>1. LogoutInv
      BY Zenon DEF SessionInv
    <3>2. SUFFICES ASSUME NEW x \in Tabs, NEW s \in sessions, request'[x] # Idle,
                          request'[x].route.kind = "logout", request'[x].cookies = s.id
                   PROVE  /\ request'[x].phase = "refused" => ~LiveSession(s)'
                          /\ request'[x].phase = "handled" => s.revoked
      BY <2>2, Zenon DEF LogoutInv
    <3>3. request'[x] = request[x]
      BY <2>4, <3>2, Zenon
    <3> QED
      BY <2>3, <3>1, <3>2, <3>3, Zenon DEF LogoutInv
  <2>8. TrailInv'
    BY <2>2, <2>3, Zenon DEF SessionInv, TrailInv, Marks
  <2>9. ClosedSessionsAreDead'
    <3>1. ASSUME NEW s \in sessions, s.id = o.cookies, o.route.kind = "logout", o.phase # "unanswered"
          PROVE  ~LiveSession(s)
      BY <2>1, <3>1, Zenon DEF SessionInv, LogoutInv, LiveSession
    <3> QED
      BY <2>2, <2>3, <3>1, Zenon DEF SessionInv, ClosedSessionsAreDead
  <2> QED
    BY <2>5, <2>6, <2>7, <2>8, <2>9, Zenon DEF SessionInv
<1> QED
  BY <1>2, <1>3, <1>4, <1>5, Zenon

\* Every step keeps the invariant.
LEMMA SessionStep ==
  ASSUME SessionInv, [SessionsNext]_sessionVars
  PROVE  SessionInv'
<1>1. ASSUME SessionTick
      PROVE  SessionInv'
  <2>1. sessionTime' \in Nat /\ sessionTime' >= sessionTime /\ UNCHANGED <<sessions, trail, cookies, request, closed>>
    BY <1>1, SessionAssumption DEF SessionTick, SessionInv, SessionTypes
  <2>2. \A s \in sessions : ~LiveSession(s) => ~LiveSession(s)'
    BY <2>1, DeadStaysDead, Zenon DEF SessionInv, SessionTypes
  <2>3. SessionTypes' /\ KnownInv' /\ TrailInv'
    BY <2>1, Zenon DEF SessionInv, SessionTypes, KnownInv, TrailInv, Known, Marks
  <2>4. LogoutInv' /\ ClosedSessionsAreDead'
    BY <2>1, <2>2, Zenon DEF SessionInv, LogoutInv, ClosedSessionsAreDead
  <2> QED
    BY <2>3, <2>4, Zenon DEF SessionInv
<1>2. CASE UNCHANGED sessionVars
  BY <1>2, Zenon DEF sessionVars, SessionInv, SessionTypes, KnownInv, LogoutInv, TrailInv, Known, Marks, ClosedSessionsAreDead, LiveSession
<1> QED
  BY <1>1, <1>2, LoginKeeps, RequestKeeps, HandleKeeps, Zenon DEF SessionsNext

\* The invariant holds at the start.
LEMMA SessionStart ==
  ASSUME SessionsInit
  PROVE  SessionInv
BY Zenon DEF SessionsInit, SessionInv, SessionTypes, KnownInv, LogoutInv, TrailInv, Known, Requests, ClosedSessionsAreDead

\* The invariant, in every reachable state.
LEMMA SessionInvariant == SessionsSpec => []SessionInv
<1> QED
  BY SessionStart, SessionStep, PTL DEF SessionsSpec

(***************************************************************************)
(* A logout the API answered, even with a refusal, was of a session that   *)
(* is over, for any number of users, tabs and sessions and any clock skew. *)
(***************************************************************************)
THEOREM LogoutCorrect == SessionsSpec => []ClosedSessionsAreDead
<1>1. SessionInv => ClosedSessionsAreDead
  BY Zenon DEF SessionInv
<1> QED
  BY <1>1, SessionInvariant, PTL

(***************************************************************************)
(* Sessions and their audit entries agree: one SESSION_CREATED each, and   *)
(* one SESSION_REVOKED exactly for those revoked, however many tabs raced  *)
(* to log out.                                                             *)
(***************************************************************************)
THEOREM TrailCorrect == SessionsSpec => []TrailMatchesSessions
<1>1. SessionInv => TrailMatchesSessions
  <2> SUFFICES ASSUME SessionInv, NEW s \in sessions
               PROVE  /\ Cardinality(Marks(s.id, "SESSION_CREATED")) = 1
                      /\ Cardinality(Marks(s.id, "SESSION_REVOKED")) = (IF s.revoked THEN 1 ELSE 0)
    BY Zenon DEF TrailMatchesSessions, Marks
  <2>1. \A a : Marks(s.id, a) # {} => \E e : Marks(s.id, a) = {e}
    BY DEF SessionInv, TrailInv, Marks
  <2>2. \A a : Marks(s.id, a) # {} => Cardinality(Marks(s.id, a)) = 1
    BY <2>1, FS_Singleton, Zenon
  <2>3. Marks(s.id, "SESSION_CREATED") # {} /\ (Marks(s.id, "SESSION_REVOKED") # {} <=> s.revoked)
    BY Zenon DEF SessionInv, TrailInv
  <2> QED
    BY <2>2, <2>3, FS_EmptySet, Zenon
<1> QED
  BY <1>1, SessionInvariant, PTL
=============================================================================
