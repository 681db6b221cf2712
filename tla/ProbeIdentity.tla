---------------------------- MODULE ProbeIdentity ---------------------------
(***************************************************************************)
(* How a remote probe gets and proves its identity: the agent's initialize *)
(* and ensureToken (cmd/probe) against Register, CreateChallenge,          *)
(* IssueToken, Authenticate and Revoke (internal/probe/auth.go).  Agents   *)
(* crash, answers get lost, and a transaction of the platform goes on      *)
(* after the agent has given up waiting for it.                            *)
(*                                                                         *)
(* A key pair is known by the node it was registered for, so a signature   *)
(* is right exactly when it is made with the agent's current identity.     *)
(***************************************************************************)
EXTENDS Naturals, FiniteSets

CONSTANTS
  Agents,
  RegistrationTokens,  \* tokens an administrator made; each carries a probe name
  NameOf,              \* the name a registration token is for
  NodeIds, Secrets,    \* ids of probe_nodes; ids of challenges and access tokens
  Nothing,
  RegistrationTTL, TokenTTL, ChallengeTTL,
  RefreshMargin,       \* ensureToken renews a token this long before it expires
  MaxMishaps,          \* bound on crashes and lost answers
  IdentityHorizon      \* bound on time

ASSUME IdentityAssumption ==
  /\ Nothing \notin NodeIds \cup Secrets /\ {"absent", "garbled"} \cap NodeIds = {}
  /\ RegistrationTTL \in Nat /\ TokenTTL \in Nat /\ ChallengeTTL \in Nat /\ RefreshMargin \in Nat
  /\ MaxMishaps \in Nat /\ IdentityHorizon \in Nat

VARIABLES
  identityTime,
  spent,       \* registration tokens with used_at set, and the node made with each
  nodes,       \* probe_nodes
  challenges,  \* probe_auth_challenges
  tokens,      \* probe_access_tokens
  issuing,     \* open transactions of IssueToken: their challenge
  agent,       \* the agent process: what it does and what it holds in memory
  identity,    \* the agent's identity.json: a node, or absent, or cut short
  served,      \* the nodes Authenticate has returned a principal for
  mishaps

identityVars ==
  <<identityTime, spent, nodes, challenges, tokens, issuing, agent, identity, served, mishaps>>

Times == 0 .. IdentityHorizon + TokenTTL + ChallengeTTL
Stopped == [phase |-> "stopped", node |-> Nothing, challenge |-> Nothing, token |-> Nothing, expiry |-> 0]
Phases == {"stopped", "registered", "running"}

IdentityTypeOK ==
  /\ identityTime \in 0 .. IdentityHorizon
  /\ spent \subseteq RegistrationTokens \X NodeIds
  /\ nodes \subseteq [id : NodeIds, name : {NameOf[t] : t \in RegistrationTokens}, revoked : BOOLEAN]
  /\ challenges \subseteq [id : Secrets, node : NodeIds, expires : Times, used : BOOLEAN]
  /\ tokens \subseteq [id : Secrets, node : NodeIds, expires : Times, revoked : BOOLEAN, for : Secrets]
  /\ issuing \subseteq Secrets
  /\ agent \in [Agents -> [phase : Phases, node : NodeIds \cup {Nothing}, challenge : Secrets \cup {Nothing},
                           token : Secrets \cup {Nothing}, expiry : Times]]
  /\ identity \in [Agents -> NodeIds \cup {"absent", "garbled"}]
  /\ served \subseteq NodeIds
  /\ mishaps \in 0 .. MaxMishaps

IdentityInit ==
  /\ identityTime = 0
  /\ spent = {} /\ nodes = {} /\ challenges = {} /\ tokens = {} /\ issuing = {} /\ served = {}
  /\ agent = [a \in Agents |-> Stopped]
  /\ identity = [a \in Agents |-> "absent"]
  /\ mishaps = 0

NotRevokedNode(n) == \E node \in nodes : node.id = n /\ ~node.revoked

-----------------------------------------------------------------------------
(* initialize                                                              *)

\* A stored identity is taken over; one that cannot be decoded ends the process.
StartAgent(a) ==
  /\ agent[a].phase = "stopped"
  /\ identity[a] \in NodeIds
  /\ agent' = [agent EXCEPT ![a] = [Stopped EXCEPT !.phase = "running", !.node = identity[a]]]
  /\ UNCHANGED <<identityTime, spent, nodes, challenges, tokens, issuing, identity, served, mishaps>>

UnlessGarbled(a) == identity[a] # "garbled"
NoIdentityYet(a) == identity[a] = "absent"

TokenUnused(t) == identityTime < RegistrationTTL /\ \A u \in spent : u[1] # t

\* Register is one transaction.  Any error, and a name that is taken is one, ends
\* the agent without effect, as does an answer that is lost, with its effect.
Register(a, t, n, lost) ==
  /\ agent[a].phase = "stopped"
  /\ NoIdentityYet(a)
  /\ TokenUnused(t)
  /\ \A node \in nodes : node.id # n /\ node.name # NameOf[t]
  /\ lost => mishaps < MaxMishaps
  /\ nodes' = nodes \cup {[id |-> n, name |-> NameOf[t], revoked |-> FALSE]}
  /\ spent' = spent \cup {<<t, n>>}
  /\ agent' = IF lost THEN agent
              ELSE [agent EXCEPT ![a] = [Stopped EXCEPT !.phase = "registered", !.node = n]]
  /\ mishaps' = IF lost THEN mishaps + 1 ELSE mishaps
  /\ UNCHANGED <<identityTime, challenges, tokens, issuing, identity, served>>

PersistIdentity(a) ==
  /\ agent[a].phase = "registered"
  /\ identity' = [identity EXCEPT ![a] = agent[a].node]
  /\ agent' = [agent EXCEPT ![a].phase = "running"]
  /\ UNCHANGED <<identityTime, spent, nodes, challenges, tokens, issuing, served, mishaps>>

\* SIGTERM: run returns.
StopAgent(a) ==
  /\ agent[a].phase = "running"
  /\ agent' = [agent EXCEPT ![a] = Stopped]
  /\ UNCHANGED <<identityTime, spent, nodes, challenges, tokens, issuing, identity, served, mishaps>>

\* A crash before, within or after the write of identity.json.
CrashAgent(a, file) ==
  /\ agent[a].phase # "stopped"
  /\ mishaps < MaxMishaps
  /\ file \in (IF agent[a].phase = "registered" THEN {"absent", "garbled"} ELSE {identity[a]})
  /\ identity' = [identity EXCEPT ![a] = file]
  /\ agent' = [agent EXCEPT ![a] = Stopped]
  /\ mishaps' = mishaps + 1
  /\ UNCHANGED <<identityTime, spent, nodes, challenges, tokens, issuing, served>>

-----------------------------------------------------------------------------
(* ensureToken                                                             *)

NeedsToken(a) ==
  /\ agent[a].phase = "running"
  /\ agent[a].token = Nothing \/ agent[a].expiry <= identityTime + RefreshMargin

CreateChallenge(a, c) ==
  /\ NeedsToken(a)
  /\ NotRevokedNode(agent[a].node)
  /\ \A ch \in challenges : ch.id # c
  /\ challenges' = challenges \cup
       {[id |-> c, node |-> agent[a].node, expires |-> identityTime + ChallengeTTL, used |-> FALSE]}
  /\ agent' = [agent EXCEPT ![a].challenge = c]
  /\ UNCHANGED <<identityTime, spent, nodes, tokens, issuing, identity, served, mishaps>>

\* IssueToken locks the challenge's row and reads the node without a lock.  The
\* signed request for a challenge may arrive again, or after the agent gave up.
UsableChallenge(ch) == ~ch.used /\ ch.expires > identityTime

IssueRead(c) ==
  /\ c \notin issuing
  /\ \E ch \in challenges : ch.id = c /\ UsableChallenge(ch) /\ NotRevokedNode(ch.node)
  /\ issuing' = issuing \cup {c}
  /\ UNCHANGED <<identityTime, spent, nodes, challenges, tokens, agent, identity, served, mishaps>>

\* The agent takes the answer unless it stopped or its request timed out.
IssueCommit(c, s) ==
  /\ c \in issuing
  /\ \A tok \in tokens : tok.id # s
  /\ LET ch == CHOOSE x \in challenges : x.id = c
         tok == [id |-> s, node |-> ch.node, expires |-> identityTime + TokenTTL, revoked |-> FALSE, for |-> c]
     IN /\ challenges' = (challenges \ {ch}) \cup {[ch EXCEPT !.used = TRUE]}
        /\ tokens' = tokens \cup {tok}
        /\ agent' = [a \in Agents |->
             IF agent[a].challenge = c
             THEN [agent[a] EXCEPT !.token = s, !.expiry = tok.expires, !.challenge = Nothing]
             ELSE agent[a]]
  /\ issuing' = issuing \ {c}
  /\ UNCHANGED <<identityTime, spent, nodes, identity, served, mishaps>>

\* The request for a token times out at the agent, which asks for a new challenge.
GiveUpWaiting(a) ==
  /\ agent[a].challenge # Nothing
  /\ mishaps < MaxMishaps
  /\ mishaps' = mishaps + 1
  /\ agent' = [agent EXCEPT ![a].challenge = Nothing]
  /\ UNCHANGED <<identityTime, spent, nodes, challenges, tokens, issuing, identity, served>>

-----------------------------------------------------------------------------
(* Requests with a token, and revocation                                   *)

TokenAccepted(tok) == ~tok.revoked /\ tok.expires > identityTime /\ NotRevokedNode(tok.node)

AuthenticateProbe(a) ==
  /\ agent[a].phase = "running"
  /\ \E tok \in tokens : tok.id = agent[a].token /\ TokenAccepted(tok) /\ served' = {tok.node}
  /\ served' # served
  /\ UNCHANGED <<identityTime, spent, nodes, challenges, tokens, issuing, agent, identity, mishaps>>

RevokeProbe(n) ==
  /\ NotRevokedNode(n)
  /\ nodes' = {IF node.id = n THEN [node EXCEPT !.revoked = TRUE] ELSE node : node \in nodes}
  /\ tokens' = {IF tok.node = n THEN [tok EXCEPT !.revoked = TRUE] ELSE tok : tok \in tokens}
  /\ served' = served \ {n}
  /\ UNCHANGED <<identityTime, spent, challenges, issuing, agent, identity, mishaps>>

IdentityTick ==
  /\ identityTime < IdentityHorizon
  /\ identityTime' = identityTime + 1
  /\ UNCHANGED <<spent, nodes, challenges, tokens, issuing, agent, identity, served, mishaps>>

IdentityNext ==
  \/ \E a \in Agents :
       \/ StartAgent(a) \/ StopAgent(a) \/ PersistIdentity(a) \/ GiveUpWaiting(a) \/ AuthenticateProbe(a)
       \/ \E t \in RegistrationTokens, n \in NodeIds, lost \in BOOLEAN : Register(a, t, n, lost)
       \/ \E file \in NodeIds \cup {"absent", "garbled"} : CrashAgent(a, file)
       \/ \E c \in Secrets : CreateChallenge(a, c)
  \/ \E c \in Secrets : IssueRead(c) \/ \E s \in Secrets : IssueCommit(c, s)
  \/ \E n \in NodeIds : RevokeProbe(n)
  \/ IdentityTick

IdentitySpec == IdentityInit /\ [][IdentityNext]_identityVars

-----------------------------------------------------------------------------
(***************************************************************************)
(* One-time secrets work once: a registration token makes one node, and a  *)
(* challenge one access token, with agents that start over, share a token  *)
(* or repeat a request whose answer was lost.                              *)
(***************************************************************************)
SecretsWorkOnce ==
  /\ \A u, v \in spent : u[1] = v[1] => u = v
  /\ \A p, q \in tokens : p.for = q.for => p = q

(***************************************************************************)
(* A revoked probe is out.  A token issued by a transaction that read the  *)
(* node before Revoke committed is not revoked, and still admits nobody.   *)
(***************************************************************************)
RevokedProbesAreOut == \A n \in served : NotRevokedNode(n)

Claims(a, n) == identity[a] = n \/ (agent[a].phase = "registered" /\ agent[a].node = n)
Owners(n) == {a \in Agents : Claims(a, n)}
Orphans == {n \in {node.id : node \in nodes} : Owners(n) = {}}

(***************************************************************************)
(* A node without its agent's identity is the mark of a mishap: every node *)
(* but as many as there were lost answers and crashes is the identity of   *)
(* an agent, in its file or about to be written, and of only one.          *)
(***************************************************************************)
IdentitiesAreKept ==
  /\ Cardinality(Orphans) <= mishaps
  /\ \A node \in nodes : Cardinality(Owners(node.id)) <= 1
=============================================================================
