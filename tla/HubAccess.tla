------------------------------ MODULE HubAccess ------------------------------
(***************************************************************************)
(* Who may do what on a hub: sessions and tokens, the edge that turns the  *)
(* secret of a request into a credential, the boundary the request acts    *)
(* in, and the placement of what goes on to a gateway (internal/hub/       *)
(* auth.go, projects.go, placement.go, api.go, admin_token.go).            *)
(*                                                                         *)
(* A request is four steps: the secret is looked up, its account's roles   *)
(* are read, the boundary is read and the rule applied, the handler acts.  *)
(* Members leave, machines move, projects go and secrets are revoked       *)
(* between any two of them.                                                *)
(***************************************************************************)
EXTENDS Authz

CONSTANTS
  Accounts,          \* accounts of the hub
  Operator,          \* the platform admin, or None
  Legacy,            \* subject of the anonymous password of an old hub
  Orgs, Projects, Connectors,
  Sessions, Tokens,  \* ids a session, a token may get
  Requests,          \* the requests served at the same time
  ScopeSets,         \* scope lists somebody asks a token for
  Asks,              \* what requests ask, see Ask
  Hosted,            \* whether the hub serves customers
  MaxCalls, MaxMoves \* bounds: requests, changes around them

VARIABLES
  orgs,              \* organizations that exist
  roles,             \* [Orgs -> [Accounts -> role or None]]
  projects,          \* [Projects -> its organization, None without one, "gone"]
  attached,          \* SUBSET (Projects \X Connectors)
  sessions,          \* [Sessions -> account or None] (memory)
  tokens,            \* [Tokens -> row or None]
  access,            \* [Requests -> a request between two of its steps]
  seen,              \* [Requests -> worlds since it began] (history)
  served, moves      \* so far (bounds only)

rows == <<orgs, roles, projects, attached>>
bounds == <<served, moves>>
vars == <<rows, sessions, tokens, access, seen, bounds>>

----------------------------------------------------------------------------
Deleted == "gone"
Existing == {p \in Projects : projects[p] # Deleted}

(* A token is of an organization, or of a project in it, or of the          *)
(* installation.                                                            *)
OrgGrant == [installation : {FALSE}, org : Orgs, project : Projects \cup {None},
             scopes : SUBSET GrantableScopes]
InstallationGrant == [installation : {TRUE}, org : {None}, project : {None},
                      scopes : SUBSET installationGrantable]
Grant == OrgGrant \cup InstallationGrant
Token == [account : Accounts, grant : Grant, live : BOOLEAN]

(* What a request asks.  "connector" and "project" name their target in the *)
(* path, "org" too; "fleet" may name either in its query, or neither;       *)
(* "mint" and "mint admin" ask for a token.                                 *)
Ask == [route : {"connector", "fleet", "installation", "project", "org", "mint", "mint admin"},
        cap : GrantableScopes \cup installation, org : Orgs \cup {None},
        project : Projects \cup {None}, connector : Connectors \cup {None}]

(* Fleet routes that go on to a gateway once they are allowed.              *)
Proxied == {"create:project.task", "read:project.task", "create:fleet.connector",
            "attach:fleet.terminal"}

(* Routes about a machine that dials the hub or a gateway: its sessions,    *)
(* its files, its commands, its setup.                                      *)
SessionRoutes == {"read:fleet.terminal", "attach:fleet.terminal"}
FileRoutes == {"read:fleet.file", "write:fleet.file"}
OnMachine == SessionRoutes \cup FileRoutes \cup {"exec:fleet.connector", "read:fleet.connector"}

(* Whoever may hold a session.                                              *)
Subjects == Accounts \cup {Legacy}

(* None is no id, no role and no row; the mark of a deleted project is no   *)
(* organization.                                                            *)
Names ==
  /\ None \notin Orgs \cup Projects \cup Connectors \cup Subjects \cup Roles
  /\ None \notin Grant \cup Token
  /\ Deleted \notin Orgs \cup {None}

(* A route about a machine or a project names it, and the latter no machine *)
(* (both are in the path).                                                  *)
Routes ==
  /\ Asks \subseteq Ask
  /\ \A ask \in Asks : /\ ask.route = "connector" => ask.connector # None
                       /\ ask.route = "project" => ask.project # None /\ ask.connector = None

----------------------------------------------------------------------------
(* The identity behind a request, and where it may act.                     *)

resolveRequester(account) ==
  IF account = Legacy
    THEN [platform |-> TRUE, unpartitioned |-> orgs = {}, roles |-> [o \in Orgs |-> None]]
    ELSE [platform |-> account = Operator, unpartitioned |-> FALSE,
          roles |-> [o \in Orgs |-> roles[o][account]]]

(* Every project a machine serves; {} is out of everybody's reach.          *)
ConnectorBoundaries(c) == {<<projects[p], p>> : p \in {q \in Existing : <<q, c>> \in attached}}
boundsForConnector(c) == ConnectorBoundaries(c)

(* A project that is gone is a 404 before anything is decided.              *)
boundsForProject(p) == IF p \in Existing THEN {<<projects[p], p>>} ELSE {}

credentialBounds(cred) ==
  IF cred.grant # None THEN {<<cred.grant.org, cred.grant.project>>}
  ELSE {<<o, None>> : o \in {x \in Orgs : cred.requester.roles[x] # None}} \cup {<<None, None>>}

(* A named machine first, then a named project, then the credential's own.  *)
atFleet(cred, ask) ==
  IF ask.connector # None THEN boundsForConnector(ask.connector)
  ELSE IF ask.project # None THEN boundsForProject(ask.project)
  ELSE credentialBounds(cred)

BoundsOf(cred, ask) ==
  CASE ask.route = "connector" -> boundsForConnector(ask.connector)
    [] ask.route = "fleet" -> atFleet(cred, ask)
    [] ask.route = "project" -> boundsForProject(ask.project)
    [] ask.route = "org" -> {<<ask.org, None>>}
    [] OTHER -> {<<None, None>>}

requireAt(cred, ask) == \E b \in BoundsOf(cred, ask) : CredentialCan(cred, ask.cap, b[1], b[2])

----------------------------------------------------------------------------
(* What a credential lists, and what it can be routed to.                   *)

(* Slip: a token of one project lists what its account could list.          *)
readableProjectsOfAccount(cred) ==
  {p \in Existing : \E b \in credentialBounds([cred EXCEPT !.grant = None]) :
     b[1] = projects[p] /\ CredentialCan([cred EXCEPT !.grant = None], "read:hub.project", b[1], b[2])}

readableProjects(cred) ==
  IF cred.grant # None /\ cred.grant.project # None
    THEN {p \in Existing \cap {cred.grant.project} :
            CredentialCan(cred, "read:hub.project", projects[p], p)}
    ELSE {p \in Existing : \E b \in credentialBounds(cred) :
            b[1] = projects[p] /\ CredentialCan(cred, "read:hub.project", b[1], b[2])}

(* The catalogue: of an organization that is named, or all that is read.    *)
handleListProjects(cred, org) ==
  IF org = None THEN readableProjects(cred)
  ELSE IF CredentialCan(cred, "read:hub.project", org, None)
         THEN {p \in Existing : projects[p] = org} ELSE {}

(* The project a gateway-bound request goes to: the named one if it can be  *)
(* read, the only readable one if none is named; {} refuses.                *)
resolveProject(cred, requested) ==
  IF requested # None
    THEN {p \in Existing \cap {requested} : CredentialCan(cred, "read:hub.project", projects[p], p)}
    ELSE IF Cardinality(readableProjects(cred)) = 1 THEN readableProjects(cred) ELSE {}

(* Without a project the hub's own gateway answers, if it has one.          *)
gatewayFor(cred, requested) ==
  IF requested = None /\ readableProjects(cred) = {} THEN {None}
  ELSE resolveProject(cred, requested)

(* Every gateway a credential reaches, for the lists that merge them.       *)
gatewayTargets(cred) ==
  IF readableProjects(cred) = {} THEN {None} ELSE readableProjects(cred)

connectorIdsByProjects(S) == {c \in Connectors : \E p \in S : <<p, c>> \in attached}

connectorFilter(cred) ==
  IF CredentialCan(cred, "read:fleet.connector", None, None) THEN Connectors
  ELSE connectorIdsByProjects(readableProjects(cred))

----------------------------------------------------------------------------
(* The steps of a request.                                                  *)

Idle == [at |-> "idle"]
Standing == {x \in Sessions : sessions[x] # None} \cup
            {t \in Tokens : tokens[t] # None /\ tokens[t].live}
World == [roles |-> roles, projects |-> projects, attached |-> attached, orgs |-> orgs,
          standing |-> Standing]

Step(r, next) == access' = [access EXCEPT ![r] = next]
Done(r) == Step(r, Idle)
Reads == UNCHANGED <<rows, sessions, tokens, seen, bounds>>
At(r, stage) == access[r].at = stage

(* A session admits to every route; a token not to minting.                 *)
Present(r, x, subject, grant, ask) ==
  /\ At(r, "idle") /\ served < MaxCalls
  /\ served' = served + 1
  /\ Step(r, [at |-> "resolve", secret |-> x, account |-> subject, grant |-> grant, ask |-> ask])
  /\ seen' = [seen EXCEPT ![r] = {World}]
  /\ UNCHANGED <<rows, sessions, tokens, moves>>

PresentSession(r, x, ask) ==
  sessions[x] # None /\ Present(r, x, sessions[x], None, ask)

ApiTokenAuth(r, t, ask) ==
  /\ tokens[t] # None /\ tokens[t].live /\ ask.route \notin {"mint", "mint admin"}
  /\ Present(r, t, tokens[t].account, tokens[t].grant, ask)

credentialOf(r) ==
  /\ At(r, "resolve")
  /\ Step(r, [at |-> "decide", secret |-> access[r].secret,
              account |-> access[r].account, ask |-> access[r].ask,
              cred |-> [requester |-> resolveRequester(access[r].account),
                        grant |-> access[r].grant]])
  /\ Reads

Minting(r) == access[r].ask.route \in {"mint", "mint admin"}

(* What the handler begins with once the route is allowed.  A list of       *)
(* machines is one gateway's, or the hub's own, or all of them.             *)
Handler(ask) ==
  CASE ask.route = "connector" /\ ask.cap \in OnMachine -> {"live"}
    [] ask.route = "project" /\ ask.cap = "exec:fleet.connector" -> {"project exec"}
    [] ask.route = "fleet" /\ ask.cap = "read:fleet.connector" -> {"place", "filter"}
    [] ask.route = "fleet" /\ ask.cap \in Proxied -> {"place"}
    [] ask.route = "installation" /\ ask.cap = "read:hub.update" -> {"fan out"}
    [] OTHER -> {"act"}

Decide(r) ==
  LET a == access[r]
  IN  /\ At(r, "decide") /\ ~Minting(r)
      /\ IF ~requireAt(a.cred, a.ask) THEN Done(r)
         ELSE \E h \in Handler(a.ask) : Step(r, [a EXCEPT !.at = h])
      /\ Reads

(* The request goes on to the gateways of these projects.                   *)
Forward(a, ps) == [at |-> "forward", secret |-> a.secret, account |-> a.account, ask |-> a.ask,
                   cred |-> a.cred, placed |-> ps]

(* gatewayFor reads the projects again; the request acts on the one it is   *)
(* placed on.                                                               *)
Place(r) ==
  LET a == access[r]
      at == gatewayFor(a.cred, a.ask.project)
  IN  /\ At(r, "place")
      /\ IF at = {} THEN Done(r) ELSE \E p \in at : Step(r, Forward(a, {p}))
      /\ Reads

(* On a socket of the hub, or wherever the request can be placed: the       *)
(* project it names need not be one of the machine's.  Machines dial in and *)
(* out at any time, and a hub without a gateway has them all.               *)
resolveLiveConnector(r) ==
  /\ At(r, "live")
  /\ \/ Step(r, [access[r] EXCEPT !.at = "act"])
     \/ Step(r, [access[r] EXCEPT !.at = "place"])
     \/ Done(r)
  /\ Reads

(* The machine the project has selected, on the hub's plane, on that of the *)
(* project's gateway, or none.                                              *)
handleProjectExec(r) ==
  LET a == access[r]
  IN  /\ At(r, "project exec")
      /\ \/ Step(r, [a EXCEPT !.at = "act"])
         \/ Step(r, Forward(a, {a.ask.project}))
         \/ Done(r)
      /\ Reads

(* The machines of the hub's plane the list shows, and then, for            *)
(* handleFleetAgents, those of the gateways.                                *)
Filter(r) ==
  LET a == access[r]
  IN  /\ At(r, "filter")
      /\ \E next \in {"act", "fan out"} :
           Step(r, [at |-> next, secret |-> a.secret, account |-> a.account, ask |-> a.ask,
                    cred |-> a.cred, sees |-> connectorFilter(a.cred)])
      /\ Reads

FanOut(r) ==
  /\ At(r, "fan out")
  /\ Step(r, Forward(access[r], gatewayTargets(access[r].cred)))
  /\ Reads

(* What the handler does is another component's business, as is what the    *)
(* gateway answers.                                                         *)
Act(r) == At(r, "act") /\ Done(r) /\ Reads
proxyGateway(r) == At(r, "forward") /\ Done(r) /\ Reads

(* Slip: the project of the token is not compared with its organization.    *)
MintRefusedUnpaired(a, o, scopes) ==
  \/ scopes = {} \/ ~(scopes \subseteq GrantableScopes)
  \/ a.ask.project # None /\ a.ask.project \notin Existing
  \/ \E c \in scopes : ~RequesterCan(a.cred.requester, c, o)

(* A token names its organization; a person may leave out their only one.   *)
resolveProjectOrg(cred, requested) ==
  IF requested # None THEN requested
  ELSE IF cred.grant # None THEN cred.grant.org ELSE SoleOrg(cred.requester)

(* handleCreateApiToken: a person asks for scopes in one organization, the  *)
(* only one they belong to when they name none, and maybe a project of it.  *)
MintRefused(a, o, scopes) ==
  \/ scopes = {} \/ ~(scopes \subseteq GrantableScopes)
  \/ a.ask.project # None /\ (a.ask.project \notin Existing \/ projects[a.ask.project] # o)
  \/ \E c \in scopes : ~RequesterCan(a.cred.requester, c, o)

handleCreateApiToken(r, scopes) ==
  LET a == access[r]
      o == resolveProjectOrg(a.cred, a.ask.org)
  IN  /\ At(r, "decide") /\ a.ask.route = "mint"
      /\ IF a.account = Legacy \/ o = None \/ MintRefused(a, o, scopes) THEN Done(r)
         ELSE Step(r, [at |-> "mint", account |-> a.account,
                       grant |-> [installation |-> FALSE, org |-> o, project |-> a.ask.project,
                                  scopes |-> scopes]])
      /\ Reads

handleCreateAdminToken(r, scopes) ==
  LET a == access[r]
  IN  /\ At(r, "decide") /\ a.ask.route = "mint admin"
      /\ IF \/ a.account = Legacy \/ ~RequesterCan(a.cred.requester, "admin:hub.account", None)
            \/ scopes = {} \/ ~(scopes \subseteq installationGrantable)
           THEN Done(r)
           ELSE Step(r, [at |-> "mint", account |-> a.account,
                         grant |-> [installation |-> TRUE, org |-> None, project |-> None,
                                    scopes |-> scopes]])
      /\ Reads

IsNext(x, table) == table[x] = None /\ x = CHOOSE y \in DOMAIN table : table[y] = None

CreateApiToken(r, t) ==
  /\ At(r, "mint") /\ IsNext(t, tokens)
  /\ tokens' = [tokens EXCEPT ![t] =
       [account |-> access[r].account, grant |-> access[r].grant, live |-> TRUE]]
  /\ Done(r)
  /\ UNCHANGED <<rows, sessions, seen, bounds>>

----------------------------------------------------------------------------
(* What changes around the requests.                                        *)

Moved ==
  /\ moves < MaxMoves /\ moves' = moves + 1
  /\ seen' = [r \in Requests |-> IF At(r, "idle") THEN {} ELSE seen[r] \cup {World'}]

(* Members come, go and change roles: HubPeople.                            *)
MemberChanges(o, a, role) ==
  /\ o \in orgs /\ roles[o][a] # role
  /\ roles' = [roles EXCEPT ![o][a] = role]
  /\ UNCHANGED <<orgs, projects, attached, sessions, tokens, access, served>>
  /\ Moved

(* A customer registers: on an old hub the operator stops being alone.      *)
OrgAppears(o, a) ==
  /\ o \notin orgs /\ Hosted
  /\ orgs' = orgs \cup {o}
  /\ roles' = [roles EXCEPT ![o][a] = "owner"]
  /\ UNCHANGED <<projects, attached, sessions, tokens, access, served>>
  /\ Moved

AttachProjectConnector(p, c) ==
  /\ p \in Existing /\ <<p, c>> \notin attached
  /\ attached' = attached \cup {<<p, c>>}
  /\ UNCHANGED <<orgs, roles, projects, sessions, tokens, access, served>>
  /\ Moved

DetachProjectConnector(p, c) ==
  /\ <<p, c>> \in attached
  /\ attached' = attached \ {<<p, c>>}
  /\ UNCHANGED <<orgs, roles, projects, sessions, tokens, access, served>>
  /\ Moved

DeleteProject(p) ==
  /\ p \in Existing
  /\ projects' = [projects EXCEPT ![p] = Deleted]
  /\ attached' = {x \in attached : x[1] # p}
  /\ UNCHANGED <<orgs, roles, sessions, tokens, access, served>>
  /\ Moved

issueSession(x, account) ==
  /\ IsNext(x, sessions)
  /\ sessions' = [sessions EXCEPT ![x] = account]
  /\ UNCHANGED <<rows, tokens, access, served>>
  /\ Moved

(* By password.  That of an old hub has no account.                         *)
handleLogin(x) == \E a \in Accounts : issueSession(x, a)
loginLegacy(x) == issueSession(x, Legacy)

(* Logging out, or thirty days.                                             *)
revoke(x) ==
  /\ sessions[x] # None
  /\ sessions' = [sessions EXCEPT ![x] = None]
  /\ UNCHANGED <<rows, tokens, access, served>>
  /\ Moved

(* A password reset signs the account out everywhere; its tokens stay.      *)
revokeAccount(a) ==
  /\ \E x \in Sessions : sessions[x] = a
  /\ sessions' = [x \in Sessions |-> IF sessions[x] = a THEN None ELSE sessions[x]]
  /\ UNCHANGED <<rows, tokens, access, served>>
  /\ Moved

(* By its owner, or an installation token by the operator.                  *)
RevokeApiToken(t) ==
  /\ tokens[t] # None /\ tokens[t].live
  /\ \E x \in Sessions : \/ sessions[x] = tokens[t].account
                         \/ tokens[t].grant.installation /\ sessions[x] \in {Operator, Legacy} \ {None}
  /\ tokens' = [tokens EXCEPT ![t].live = FALSE]
  /\ UNCHANGED <<rows, sessions, access, served>>
  /\ Moved

(* The operator of a hosted hub is a member of nothing.                     *)
DetachHostedOperator ==
  roles' = [o \in Orgs |-> [a \in Accounts |->
              IF Hosted /\ a = Operator THEN None ELSE roles[o][a]]]

(* With one organization the projects that had none become its own.         *)
backfillProjectOrgs ==
  projects' = IF Cardinality(orgs) # 1 THEN projects
              ELSE [p \in Projects |-> IF projects[p] = None THEN CHOOSE o \in orgs : TRUE
                                       ELSE projects[p]]

(* Sessions and requests are memory.                                        *)
Restart ==
  /\ sessions' = [x \in Sessions |-> None]
  /\ access' = [r \in Requests |-> Idle]
  /\ backfillProjectOrgs /\ DetachHostedOperator
  /\ moves < MaxMoves /\ moves' = moves + 1
  /\ seen' = [r \in Requests |-> {}]
  /\ UNCHANGED <<orgs, attached, tokens, served>>

----------------------------------------------------------------------------
Serve(r) ==
  \/ \E ask \in Asks : \/ \E x \in Sessions : PresentSession(r, x, ask)
                       \/ \E t \in Tokens : ApiTokenAuth(r, t, ask)
  \/ credentialOf(r) \/ Decide(r)
  \/ resolveLiveConnector(r) \/ handleProjectExec(r) \/ Filter(r) \/ FanOut(r) \/ Place(r)
  \/ Act(r) \/ proxyGateway(r)
  \/ \E scopes \in ScopeSets : handleCreateApiToken(r, scopes) \/ handleCreateAdminToken(r, scopes)
  \/ \E t \in Tokens : CreateApiToken(r, t)

Around ==
  \/ \E o \in Orgs, a \in Accounts : \/ \E role \in Roles \cup {None} : MemberChanges(o, a, role)
                                     \/ OrgAppears(o, a)
  \/ \E p \in Projects : \/ \E c \in Connectors : AttachProjectConnector(p, c)
                                                  \/ DetachProjectConnector(p, c)
                         \/ DeleteProject(p)
  \/ \E x \in Sessions : handleLogin(x) \/ loginLegacy(x) \/ revoke(x)
  \/ \E a \in Accounts : revokeAccount(a)
  \/ \E t \in Tokens : RevokeApiToken(t)
  \/ Restart

Next == (\E r \in Requests : Serve(r)) \/ Around

----------------------------------------------------------------------------
TypeOK ==
  /\ orgs \subseteq Orgs
  /\ roles \in [Orgs -> [Accounts -> Roles \cup {None}]]
  /\ \A o \in Orgs, a \in Accounts : roles[o][a] # None => o \in orgs
  /\ projects \in [Projects -> orgs \cup {None, Deleted}]
  /\ attached \subseteq Existing \X Connectors
  /\ sessions \in [Sessions -> Accounts \cup {Legacy, None}]
  /\ tokens \in [Tokens -> Token \cup {None}]

(* No request has begun, on a hub with any tables.                          *)
Quiet ==
  /\ access = [r \in Requests |-> Idle] /\ seen = [r \in Requests |-> {}]
  /\ served = 0 /\ moves = 0

Init == TypeOK /\ Quiet

Spec == Init /\ [][Next]_vars

----------------------------------------------------------------------------
(* Properties.                                                              *)

(* A world in which the account held what the ask needs in an organization, *)
(* and one in which the ask's target was in it: the reference for Can, the  *)
(* boundaries and the placement, stated over the tables alone.              *)
HeldIn(r, c, o) ==
  LET a == access[r].account
  IN  \E w \in seen[r] :
        IF o = None THEN \/ a = Legacy /\ (w.orgs = {} \/ c \in installation)
                         \/ a # Legacy /\ a = Operator /\ c \in installation
        ELSE IF a = Legacy THEN w.orgs = {}
        ELSE rank(w.roles[o][a]) >= rank(orgMinimum(c)) /\ c \in GrantableScopes

InGrant(g, c, o, p) ==
  \/ g = None
  \/ g # None /\ c \in g.scopes /\ g.org = o /\ g.project \in {p, None}
     /\ (o = None => g.installation)

Covered(r, c, o, p) == HeldIn(r, c, o) /\ InGrant(access[r].cred.grant, c, o, p)

ProjectWas(r, p, o) == \E w \in seen[r] : w.projects[p] = o
MachineWas(r, x, p, o) == \E w \in seen[r] : <<p, x>> \in w.attached /\ w.projects[p] = o

Homes == Orgs \cup {None}

SecretStood(r) == \E w \in seen[r] : access[r].secret \in w.standing

(* Whatever members, machines, projects and secrets do while a request is   *)
(* served, its secret stood and its account held the capability during the  *)
(* request, in the organization the target was in, and a token held it too; *)
(* what goes on to a gateway goes to a project the credential could read,   *)
(* and a list shows machines of such projects (authz.Credential.Can: "an    *)
(* intersection, never a union").                                           *)
ActsAreCovered ==
  \A r \in Requests : access[r].at \in {"act", "forward"} =>
    LET ask == access[r].ask
    IN  /\ SecretStood(r)
        /\ IF ask.route = "installation" THEN Covered(r, ask.cap, None, None)
           ELSE IF ask.route = "org" THEN Covered(r, ask.cap, ask.org, None)
           ELSE IF ask.connector # None
             THEN \E p \in Projects, o \in Homes : MachineWas(r, ask.connector, p, o)
                                                   /\ Covered(r, ask.cap, o, p)
           ELSE IF ask.project # None
             THEN \E o \in Homes : ProjectWas(r, ask.project, o) /\ Covered(r, ask.cap, o, ask.project)
           ELSE \E o \in Homes, p \in Projects \cup {None} : Covered(r, ask.cap, o, p)
        /\ At(r, "forward") => \A p \in access[r].placed \ {None} :
             \E o \in Homes : ProjectWas(r, p, o)
               /\ Covered(r, IF ask.route = "project" THEN ask.cap ELSE "read:hub.project", o, p)
        /\ "sees" \in DOMAIN access[r] => \A x \in access[r].sees :
             \/ access[r].cred.requester.unpartitioned
             \/ \E p \in Projects, o \in Homes : MachineWas(r, x, p, o)
                                                /\ Covered(r, "read:hub.project", o, p)

(* A token is minted for what its account held while it asked, in one       *)
(* organization, for a project of that organization or for all of it; one   *)
(* for the installation only by the operator                                *)
(* (handleCreateApiToken: "a credential narrower than the person asking").  *)
TokensWithinMinter ==
  \A r \in Requests : At(r, "mint") =>
    LET g == access[r].grant
    IN  /\ \A c \in g.scopes : HeldIn(r, c, g.org)
        /\ g.project # None => ProjectWas(r, g.project, g.org)
        /\ g.installation <=> g.org = None

Credentials ==
  {[requester |-> resolveRequester(sessions[x]), grant |-> None] :
     x \in {y \in Sessions : sessions[y] # None}}
  \cup {[requester |-> resolveRequester(tokens[t].account), grant |-> tokens[t].grant] :
     t \in {u \in Tokens : tokens[u] # None}}

(* What a credential lists is what it can be routed to, and the machines it *)
(* sees are those it could be allowed on (handleListProjects: "the          *)
(* catalogue a caller can list and the projects it can route to cannot      *)
(* drift apart").                                                           *)
ListedIsRoutable ==
  \A cred \in Credentials :
    /\ handleListProjects(cred, None) = {p \in Projects : resolveProject(cred, p) # {}}
    /\ \A o \in orgs : handleListProjects(cred, o) \subseteq handleListProjects(cred, None)
    /\ \A c \in connectorFilter(cred) : \/ cred.requester.unpartitioned
                                        \/ \E b \in boundsForConnector(c) :
                                             CredentialCan(cred, "read:hub.project", b[1], b[2])

=============================================================================
