-------------------------- MODULE HubAccess_proofs ---------------------------
(****************************************************************************)
(* Theorems about the permissions of HubServices (HubAccess), for any       *)
(* number of accounts, organizations, projects, machines, secrets and       *)
(* requests, and from any tables: what a request does its account could do  *)
(* while it ran, a token never reaches beyond its minter, and what is       *)
(* listed can be reached.                                                   *)
(****************************************************************************)
EXTENDS HubServices, FiniteSetTheorems, TLAPS

----------------------------------------------------------------------------
(* Permissions.                                                             *)

(* HubAccess counts as the theorems about finite sets do.                   *)
LEMMA AccessCounts ==
  ASSUME NEW S
  PROVE  Access!Cardinality(S) = Cardinality(S)
BY DEF Access!Cardinality, Cardinality

(* The stages of a request.                                                 *)

Requester ==
  [platform : BOOLEAN, unpartitioned : BOOLEAN, roles : [AccessOrgs -> Access!Roles \cup {None}]]
Credential == [requester : Requester, grant : Access!Grant \cup {None}]
Secrets == AccessSessions \cup AccessTokens

Resolving == [at : {"resolve"}, secret : Secrets, account : Access!Subjects,
              grant : Access!Grant \cup {None},
              ask : AccessAsks]
Deciding ==
  [at : {"decide"}, secret : Secrets, account : Access!Subjects, ask : AccessAsks,
   cred : Credential]
Handling == [at : {"act", "live", "place", "project exec", "filter", "fan out"}, secret : Secrets,
             account : Access!Subjects, ask : AccessAsks, cred : Credential]
Seeing == [at : {"act", "fan out"}, secret : Secrets, account : Access!Subjects, ask : AccessAsks,
           cred : Credential, sees : SUBSET AccessConnectors]
Forwarding == [at : {"forward"}, secret : Secrets, account : Access!Subjects, ask : AccessAsks,
               cred : Credential, placed : SUBSET (AccessProjects \cup {None})]
Minted == [at : {"mint"}, account : AccessAccounts, grant : Access!Grant]

Allowed == Handling \cup Seeing \cup Forwarding
Stages == {Access!Idle} \cup Resolving \cup Deciding \cup Allowed \cup Minted

----------------------------------------------------------------------------
(* What the properties say of a request, of its record a and the worlds S   *)
(* it has seen.  All of it stays true as more worlds are seen.              *)

Held(a, S, c, o) ==
  \E w \in S :
    IF o = None THEN \/ a.account = AccessLegacy /\ (w.orgs = {} \/ c \in Access!installation)
                     \/ a.account # AccessLegacy /\ a.account = AccessOperator /\ c \in
                            Access!installation
    ELSE IF a.account = AccessLegacy THEN w.orgs = {}
    ELSE Access!rank(w.roles[o][a.account]) >= Access!rank(Access!orgMinimum(c)) /\ c \in
        Access!GrantableScopes

CoveredBy(a, S, c, o, p) == Held(a, S, c, o) /\ Access!InGrant(a.cred.grant, c, o, p)
ProjectIn(S, p, o) == \E w \in S : w.projects[p] = o
MachineIn(S, x, p, o) == \E w \in S : <<p, x>> \in w.attached /\ w.projects[p] = o
Stood(a, S) == \E w \in S : a.secret \in w.standing

(* The identity the request was given is that of a world it ran in.         *)
RequesterIn(w, account) ==
  IF account = AccessLegacy
    THEN [platform |-> TRUE, unpartitioned |-> w.orgs = {}, roles |-> [o \in AccessOrgs |-> None]]
    ELSE [platform |-> account = AccessOperator, unpartitioned |-> FALSE,
          roles |-> [o \in AccessOrgs |-> w.roles[o][account]]]

Resolved(a, S) == \E w \in S : a.cred.requester = RequesterIn(w, a.account)

(* The decision, once it is made.                                           *)
OnTarget(a, S) ==
  LET ask == a.ask
  IN  IF ask.route = "installation" THEN CoveredBy(a, S, ask.cap, None, None)
      ELSE IF ask.route = "org" THEN CoveredBy(a, S, ask.cap, ask.org, None)
      ELSE IF ask.connector # None
        THEN \E p \in AccessProjects, o \in Access!Homes : MachineIn(S, ask.connector, p, o)
                                              /\ CoveredBy(a, S, ask.cap, o, p)
      ELSE IF ask.project # None
        THEN \E o \in Access!Homes :
            ProjectIn(S, ask.project, o) /\ CoveredBy(a, S, ask.cap, o, ask.project)
      ELSE \E o \in Access!Homes, p \in AccessProjects \cup {None} : CoveredBy(a, S, ask.cap, o, p)

(* Which routes lead to which stage.                                        *)
OnRoute(a) ==
  /\ a.at = "live" => a.ask.route = "connector"
  /\ a.at = "project exec" => a.ask.route = "project"
  /\ a.at \in {"place", "filter", "fan out"} => a.ask.route # "project"

ReadCovered(a, S, p, c) == \E o \in Access!Homes : ProjectIn(S, p, o) /\ CoveredBy(a, S, c, o, p)

PlacedWell(a, S) ==
  \A p \in a.placed \ {None} :
    ReadCovered(a, S, p, IF a.ask.route = "project" THEN a.ask.cap ELSE "read:hub.project")

SeesWell(a, S) ==
  \A x \in a.sees :
    \/ a.cred.requester.unpartitioned
    \/ \E p \in AccessProjects, o \in Access!Homes : MachineIn(S, x, p, o)
                                        /\ CoveredBy(a, S, "read:hub.project", o, p)

MintedWell(a, S) ==
  /\ \A c \in a.grant.scopes : Held(a, S, c, a.grant.org)
  /\ a.grant.project # None => ProjectIn(S, a.grant.project, a.grant.org)

Past(a, S) ==
  /\ a \in Resolving \cup Deciding \cup Allowed => Stood(a, S)
  /\ a \in Deciding \cup Allowed => Resolved(a, S)
  /\ a \in Allowed => OnTarget(a, S) /\ OnRoute(a)
  /\ a \in Seeing => SeesWell(a, S)
  /\ a \in Forwarding => PlacedWell(a, S)
  /\ a \in Minted => MintedWell(a, S)

----------------------------------------------------------------------------
(* The inductive invariant.                                                 *)

(* The tables of today are of a world the request has seen.                 *)
SeesNow(S) ==
  \E w \in S :
      /\ w.roles = access_roles /\ w.projects = access_projects /\ w.attached = access_attached
      /\ w.orgs = access_orgs

AccessOK ==
  /\ access_access \in [AccessRequests -> Stages]
  /\ DOMAIN access_seen = AccessRequests
  /\ \A r \in AccessRequests : /\ ~Access!At(r, "idle") => SeesNow(access_seen[r])
                               /\ Past(access_access[r], access_seen[r])

AccessInv == Access!TypeOK /\ AccessOK

----------------------------------------------------------------------------
(* The rules.                                                               *)

LEMMA ReadingIsOrdinary ==
  /\ "read:hub.project" \notin Access!installation
  /\ "read:fleet.connector" \notin Access!installation
  /\ Access!installationGrantable \subseteq Access!installation
BY DEF Access!installation, Access!installationGrantable

LEMMA RankOfRole ==
  ASSUME Access!Names, NEW role \in Access!Roles \cup {None}, NEW c,
         Access!atLeast(role, Access!orgMinimum(c))
  PROVE  role # None /\ Access!rank(role) >= Access!rank(Access!orgMinimum(c))
<1>1. Access!rank(None) = 0
  BY DEF Access!rank, Access!Names, Access!Roles
<1> QED
  BY <1>1 DEF Access!atLeast

(* What a token's boundary contains, in the form the properties use.        *)
LEMMA GrantShape ==
  ASSUME NEW g \in Access!Grant
  PROVE  /\ g.installation \in BOOLEAN
         /\ g.installation =>
              g.org = None /\ g.project = None /\ g.scopes \subseteq Access!installationGrantable
         /\ ~g.installation => /\ g.org \in AccessOrgs /\ g.project \in AccessProjects \cup {None}
                               /\ g.scopes \subseteq Access!GrantableScopes
<1>1. CASE g \in Access!OrgGrant
  BY <1>1 DEF Access!OrgGrant
<1>2. CASE g \in Access!InstallationGrant
  BY <1>2 DEF Access!InstallationGrant
<1> QED
  BY <1>1, <1>2 DEF Access!Grant

LEMMA AllowedIsInGrant ==
  ASSUME Access!Names, NEW g \in Access!Grant, NEW c, NEW o \in Access!Homes,
         NEW p \in AccessProjects \cup {None},
         Access!allows(g, c, o, p)
  PROVE  Access!InGrant(g, c, o, p)
<1>1. CASE g.installation
  BY <1>1, GrantShape DEF Access!allows, Access!Contains, Access!InGrant, Access!Names
<1>2. CASE ~g.installation
  BY <1>2, GrantShape DEF Access!allows, Access!Contains, Access!InGrant, Access!Names
<1> QED
  BY <1>1, <1>2

(* What the identity of a request permits its account held in a world the   *)
(* request has seen.                                                        *)
LEMMA RequesterHeld ==
  ASSUME Access!Names, NEW a, NEW S, Resolved(a, S), a.cred.requester \in Requester,
         NEW c, NEW o \in Access!Homes, Access!RequesterCan(a.cred.requester, c, o)
  PROVE  Held(a, S, c, o)
<1>1. PICK w \in S : a.cred.requester = RequesterIn(w, a.account)
  BY DEF Resolved
<1> DEFINE q == a.cred.requester
<1>2. CASE a.account = AccessLegacy
  <2>1. q.unpartitioned = (w.orgs = {}) /\ q.roles = [x \in AccessOrgs |-> None]
    BY <1>1, <1>2 DEF RequesterIn
  <2>2. o # None => ~Access!atLeast(q.roles[o], Access!orgMinimum(c))
    BY <2>1, RankOfRole DEF Access!Homes
  <2> QED
    BY <1>2, <2>1, <2>2 DEF Access!RequesterCan, Held
<1>3. CASE a.account # AccessLegacy
  <2>1. /\ q.platform = (a.account = AccessOperator) /\ q.unpartitioned = FALSE
        /\ q.roles = [x \in AccessOrgs |-> w.roles[x][a.account]]
    BY <1>1, <1>3 DEF RequesterIn
  <2>2. CASE o = None
    BY <1>3, <2>1, <2>2 DEF Access!RequesterCan, Held
  <2>3. CASE o # None
    <3>1. /\ o \in AccessOrgs /\ q.roles[o] = w.roles[o][a.account]
          /\ q.roles[o] \in Access!Roles \cup {None}
      BY <2>1, <2>3 DEF Access!Homes, Requester
    <3>2. c \in Access!GrantableScopes /\ Access!atLeast(q.roles[o], Access!orgMinimum(c))
      BY <2>1, <2>3 DEF Access!RequesterCan
    <3>3. Access!rank(w.roles[o][a.account]) >= Access!rank(Access!orgMinimum(c))
      BY <3>1, <3>2, RankOfRole
    <3> QED
      BY <1>3, <2>3, <3>2, <3>3 DEF Held
  <2> QED
    BY <2>2, <2>3
<1> QED
  BY <1>2, <1>3

LEMMA CanCovers ==
  ASSUME Access!Names, NEW a, NEW S, Resolved(a, S), a.cred \in Credential,
         NEW c, NEW o \in Access!Homes, NEW p \in AccessProjects \cup {None},
         Access!CredentialCan(a.cred, c, o, p)
  PROVE  CoveredBy(a, S, c, o, p)
<1>1. a.cred.requester \in Requester /\ a.cred.grant \in Access!Grant \cup {None}
  BY DEF Credential
<1>2. Held(a, S, c, o)
  BY <1>1, RequesterHeld DEF Access!CredentialCan
<1>3. Access!InGrant(a.cred.grant, c, o, p)
  BY <1>1, AllowedIsInGrant DEF Access!CredentialCan, Access!InGrant
<1> QED
  BY <1>2, <1>3 DEF CoveredBy

----------------------------------------------------------------------------
(* What has been true of a request stays true.                              *)
LEMMA PastGrows ==
  ASSUME NEW a, NEW S, NEW T, S \subseteq T, Past(a, S)
  PROVE  Past(a, T)
<1>1. ASSUME NEW c, NEW o, Held(a, S, c, o) PROVE Held(a, T, c, o)
  BY <1>1 DEF Held
<1>2. ASSUME NEW c, NEW o, NEW p, CoveredBy(a, S, c, o, p) PROVE CoveredBy(a, T, c, o, p)
  BY <1>1, <1>2 DEF CoveredBy
<1>3. ASSUME NEW p, NEW o, ProjectIn(S, p, o) PROVE ProjectIn(T, p, o)
  BY <1>3 DEF ProjectIn
<1>4. ASSUME NEW x, NEW p, NEW o, MachineIn(S, x, p, o) PROVE MachineIn(T, x, p, o)
  BY <1>4 DEF MachineIn
<1>5. Stood(a, S) => Stood(a, T)
  BY DEF Stood
<1>6. Resolved(a, S) => Resolved(a, T)
  BY DEF Resolved
<1>7. OnTarget(a, S) => OnTarget(a, T)
  BY <1>2, <1>3, <1>4 DEF OnTarget
<1>8. ASSUME NEW p, NEW c, ReadCovered(a, S, p, c) PROVE ReadCovered(a, T, p, c)
  BY <1>2, <1>3, <1>8 DEF ReadCovered
<1>9. PlacedWell(a, S) => PlacedWell(a, T)
  BY <1>8 DEF PlacedWell
<1>10. SeesWell(a, S) => SeesWell(a, T)
  BY <1>2, <1>4 DEF SeesWell
<1>11. MintedWell(a, S) => MintedWell(a, T)
  BY <1>1, <1>3 DEF MintedWell
<1> QED
  BY <1>5, <1>6, <1>7, <1>9, <1>10, <1>11 DEF Past

----------------------------------------------------------------------------
(* Lists and routes.                                                        *)

LEMMA ProjectHomes ==
  ASSUME Access!Names, Access!TypeOK, NEW p \in Access!Existing
  PROVE  /\ p \in AccessProjects /\ access_projects[p] \in access_orgs \cup {None}
         /\ access_projects[p] \in Access!Homes
BY DEF Access!TypeOK, Access!Existing, Access!Homes

(* A token that permits reading a project somewhere in its organization, or *)
(* as a whole, permits it for a project it is not kept from.                *)
LEMMA GrantOfOneProject ==
  ASSUME Access!Names, NEW g \in Access!Grant, NEW o \in Access!Homes, NEW p \in AccessProjects,
         g.project \in {None, p}
  PROVE  Access!allows(g, "read:hub.project", o, g.project) <=>
           Access!allows(g, "read:hub.project", o, p)
<1>1. CASE g.installation
  <2>1. "read:hub.project" \notin g.scopes
    BY <1>1, GrantShape, ReadingIsOrdinary
  <2> QED
    BY <2>1 DEF Access!allows
<1>2. CASE ~g.installation
  BY <1>2 DEF Access!allows, Access!Contains
<1> QED
  BY <1>1, <1>2

(* What is listed may be read where it is, whenever the identity was read.  *)
LEMMA ReadableCan ==
  ASSUME Access!Names, Access!TypeOK, NEW cred \in Credential,
         NEW p \in Access!readableProjects(cred)
  PROVE  /\ p \in Access!Existing
         /\ Access!CredentialCan(cred, "read:hub.project", access_projects[p], p)
<1> DEFINE g == cred.grant
<1>0. g \in Access!Grant \cup {None}
  BY DEF Credential
<1>1. CASE g # None /\ g.project # None
  BY <1>1 DEF Access!readableProjects
<1>2. CASE ~(g # None /\ g.project # None)
  <2>1. PICK b \in Access!credentialBounds(cred) :
          b[1] = access_projects[p] /\ Access!CredentialCan(cred, "read:hub.project", b[1], b[2])
    BY <1>2 DEF Access!readableProjects
  <2>2. p \in Access!Existing
    BY <1>2 DEF Access!readableProjects
  <2>3. CASE g = None
    BY <2>1, <2>2, <2>3 DEF Access!CredentialCan
  <2>4. CASE g # None
    <3>1. b = <<g.org, g.project>> /\ g.project = None /\ g \in Access!Grant
      BY <1>0, <1>2, <2>1, <2>4 DEF Access!credentialBounds
    <3>2. b[1] = g.org /\ b[2] = g.project
      BY <3>1
    <3>3. /\ g.org = access_projects[p]
          /\ Access!allows(g, "read:hub.project", access_projects[p], g.project)
      BY <2>1, <2>4, <3>2 DEF Access!CredentialCan
    <3>4. Access!allows(g, "read:hub.project", access_projects[p], p)
      BY <2>2, <3>1, <3>3, ProjectHomes, GrantOfOneProject
    <3> QED
      BY <2>1, <2>2, <2>4, <3>2, <3>3, <3>4 DEF Access!CredentialCan
  <2> QED
    BY <2>3, <2>4
<1> QED
  BY <1>1, <1>2

(* And what may be read is listed, by an identity of today.                 *)
LEMMA CanReadable ==
  ASSUME Access!Names, Access!TypeOK, NEW cred \in Credential,
         cred.requester.unpartitioned => access_orgs = {},
         NEW p \in Access!Existing,
         Access!CredentialCan(cred, "read:hub.project", access_projects[p], p)
  PROVE  p \in Access!readableProjects(cred)
<1> DEFINE g == cred.grant
           q == cred.requester
           o == access_projects[p]
<1>0. /\ g \in Access!Grant \cup {None} /\ q \in Requester
      /\ p \in AccessProjects /\ o \in access_orgs \cup {None} /\ o \in Access!Homes
  BY ProjectHomes DEF Credential
<1>1. CASE g = None
  <2>1. o # None => o \in {x \in AccessOrgs : q.roles[x] # None}
    <3> SUFFICES ASSUME o # None PROVE o \in {x \in AccessOrgs : q.roles[x] # None}
      OBVIOUS
    <3>1. o \in AccessOrgs /\ o \in access_orgs
      BY <1>0 DEF Access!TypeOK
    <3>2. q.roles[o] \in Access!Roles \cup {None} /\ ~q.unpartitioned
      BY <1>0, <3>1 DEF Requester
    <3>3. Access!atLeast(q.roles[o], Access!orgMinimum("read:hub.project"))
      BY <3>1, <3>2 DEF Access!CredentialCan, Access!RequesterCan
    <3> QED
      BY <3>1, <3>2, <3>3, RankOfRole
  <2>2. <<o, None>> \in Access!credentialBounds(cred)
    BY <1>1, <2>1 DEF Access!credentialBounds
  <2>3. Access!CredentialCan(cred, "read:hub.project", o, None)
    BY <1>1 DEF Access!CredentialCan
  <2>4. \E b \in Access!credentialBounds(cred) :
          b[1] = o /\ Access!CredentialCan(cred, "read:hub.project", b[1], b[2])
    <3> DEFINE b == <<o, None>>
    <3>1. b[1] = o /\ b[2] = None
      OBVIOUS
    <3> QED
      BY <2>2, <2>3, <3>1
  <2> QED
    BY <1>1, <2>4 DEF Access!readableProjects
<1>2. CASE g # None
  <2>1. g \in Access!Grant /\ Access!allows(g, "read:hub.project", o, p)
    BY <1>0, <1>2 DEF Access!CredentialCan
  <2>2. ~g.installation
    BY <2>1, GrantShape, ReadingIsOrdinary DEF Access!allows
  <2>3. g.org = o /\ g.project \in {None, p}
    BY <2>1, <2>2 DEF Access!allows, Access!Contains
  <2>4. CASE g.project # None
    BY <1>2, <2>3, <2>4 DEF Access!readableProjects
  <2>5. CASE g.project = None
    <3> DEFINE b == <<g.org, g.project>>
    <3>1. b \in Access!credentialBounds(cred) /\ b[1] = o /\ b[2] = g.project
      BY <1>2, <2>3 DEF Access!credentialBounds
    <3>2. Access!allows(g, "read:hub.project", o, g.project)
      BY <1>0, <2>1, <2>3, GrantOfOneProject
    <3>3. Access!CredentialCan(cred, "read:hub.project", b[1], b[2])
      BY <1>2, <3>1, <3>2 DEF Access!CredentialCan
    <3> QED
      BY <2>5, <3>1, <3>3 DEF Access!readableProjects
  <2> QED
    BY <2>4, <2>5
<1> QED
  BY <1>1, <1>2

(* The identities of today.                                                 *)
LEMMA IdentityOfToday ==
  ASSUME Access!Names, Access!TypeOK, NEW account \in Access!Subjects
  PROVE  /\ Access!resolveRequester(account) \in Requester
         /\ Access!resolveRequester(account).unpartitioned => access_orgs = {}
<1>1. CASE account = AccessLegacy
  BY <1>1 DEF Access!resolveRequester, Requester
<1>2. CASE account # AccessLegacy
  <2>1. account \in AccessAccounts
    BY <1>2 DEF Access!Subjects
  <2>2. [o \in AccessOrgs |-> access_roles[o][account]] \in [AccessOrgs -> Access!Roles \cup {None}]
    BY <2>1 DEF Access!TypeOK
  <2> QED
    BY <1>2, <2>2 DEF Access!resolveRequester, Requester
<1> QED
  BY <1>1, <1>2

LEMMA CredentialsOfToday ==
  ASSUME Access!Names, Access!TypeOK, NEW cred \in Access!Credentials
  PROVE  cred \in Credential /\ (cred.requester.unpartitioned => access_orgs = {})
<1>1. ASSUME NEW x \in AccessSessions, access_sessions[x] # None,
             cred = [requester |-> Access!resolveRequester(access_sessions[x]), grant |-> None]
      PROVE  cred \in Credential /\ (cred.requester.unpartitioned => access_orgs = {})
  <2>1. access_sessions[x] \in Access!Subjects
    BY <1>1 DEF Access!TypeOK, Access!Subjects
  <2> QED
    BY <1>1, <2>1, IdentityOfToday DEF Credential
<1>2. ASSUME NEW t \in AccessTokens, access_tokens[t] # None,
             cred = [requester |-> Access!resolveRequester(access_tokens[t].account),
                     grant |-> access_tokens[t].grant]
      PROVE  cred \in Credential /\ (cred.requester.unpartitioned => access_orgs = {})
  <2>1. access_tokens[t] \in Access!Token
    BY <1>2 DEF Access!TypeOK
  <2>2. access_tokens[t].account \in Access!Subjects /\ access_tokens[t].grant \in Access!Grant
    BY <2>1 DEF Access!Token, Access!Subjects
  <2> QED
    BY <1>2, <2>2, IdentityOfToday DEF Credential
<1> QED
  BY <1>1, <1>2 DEF Access!Credentials

LEMMA ListsMatchRoutes ==
  ASSUME Access!Names, Access!TypeOK
  PROVE  Access!ListedIsRoutable
<1> SUFFICES ASSUME NEW cred \in Access!Credentials
             PROVE  /\ Access!handleListProjects(cred, None) =
                           {p \in AccessProjects : Access!resolveProject(cred, p) # {}}
                    /\ \A o \in access_orgs :
                           Access!handleListProjects(cred, o) \subseteq Access!handleListProjects(cred, None)
                    /\ \A c \in Access!connectorFilter(cred) : \/ cred.requester.unpartitioned
                                        \/ \E b \in Access!boundsForConnector(c) :
                                             Access!CredentialCan(cred, "read:hub.project", b[1], b[2])
  BY DEF Access!ListedIsRoutable
<1>0. cred \in Credential /\ (cred.requester.unpartitioned => access_orgs = {})
  BY CredentialsOfToday
<1>1. Access!handleListProjects(cred, None) = Access!readableProjects(cred)
  BY DEF Access!handleListProjects
<1>2. ASSUME NEW p \in AccessProjects
      PROVE  p \in Access!readableProjects(cred) <=> Access!resolveProject(cred, p) # {}
  <2>1. Access!resolveProject(cred, p) # {} <=>
          /\ p \in Access!Existing
          /\ Access!CredentialCan(cred, "read:hub.project", access_projects[p], p)
    BY DEF Access!resolveProject, Access!Names
  <2> QED
    BY <1>0, <2>1, ReadableCan, CanReadable
<1>3. Access!readableProjects(cred) \subseteq AccessProjects
  BY DEF Access!readableProjects, Access!Existing
<1>4. ASSUME NEW o \in access_orgs
      PROVE  Access!handleListProjects(cred, o) \subseteq Access!readableProjects(cred)
  <2> SUFFICES ASSUME NEW p \in Access!handleListProjects(cred, o)
               PROVE  p \in Access!readableProjects(cred)
    OBVIOUS
  <2>1. o \in AccessOrgs /\ o # None /\ o \in Access!Homes
    BY DEF Access!TypeOK, Access!Names, Access!Homes
  <2>2. /\ Access!CredentialCan(cred, "read:hub.project", o, None) /\ p \in Access!Existing
        /\ access_projects[p] = o
    BY <2>1 DEF Access!handleListProjects
  <2>3. Access!CredentialCan(cred, "read:hub.project", o, p)
    <3>1. CASE cred.grant = None
      BY <2>2, <3>1 DEF Access!CredentialCan
    <3>2. CASE cred.grant # None
      <4>1. cred.grant \in Access!Grant /\ Access!allows(cred.grant, "read:hub.project", o, None)
        BY <1>0, <2>2, <3>2 DEF Credential, Access!CredentialCan
      <4>2. ~cred.grant.installation /\ cred.grant.project = None
        BY <2>1, <4>1 DEF Access!allows, Access!Contains
      <4>3. p \in AccessProjects
        BY <2>2 DEF Access!Existing
      <4>4. Access!allows(cred.grant, "read:hub.project", o, p)
        BY <2>1, <4>1, <4>2, <4>3, GrantOfOneProject
      <4> QED
        BY <2>2, <4>4 DEF Access!CredentialCan
    <3> QED
      BY <3>1, <3>2
  <2> QED
    BY <1>0, <2>2, <2>3, CanReadable
<1>5. ASSUME NEW c \in Access!connectorFilter(cred)
      PROVE  \/ cred.requester.unpartitioned
             \/ \E b \in Access!boundsForConnector(c) :
                    Access!CredentialCan(cred, "read:hub.project", b[1], b[2])
  <2>1. CASE Access!CredentialCan(cred, "read:fleet.connector", None, None)
    BY <2>1, ReadingIsOrdinary DEF Access!CredentialCan, Access!RequesterCan
  <2>2. CASE ~Access!CredentialCan(cred, "read:fleet.connector", None, None)
    <3>1. PICK p \in Access!readableProjects(cred) : <<p, c>> \in access_attached
      BY <2>2 DEF Access!connectorFilter, Access!connectorIdsByProjects
    <3>2. /\ p \in Access!Existing
          /\ Access!CredentialCan(cred, "read:hub.project", access_projects[p], p)
      BY <1>0, ReadableCan
    <3> DEFINE b == <<access_projects[p], p>>
    <3>3. b[1] = access_projects[p] /\ b[2] = p
      OBVIOUS
    <3>4. b \in Access!boundsForConnector(c)
      BY <3>1, <3>2 DEF Access!boundsForConnector, Access!ConnectorBoundaries
    <3> QED
      BY <3>2, <3>3, <3>4
  <2> QED
    BY <2>1, <2>2
<1> QED
  BY <1>1, <1>2, <1>3, <1>4, <1>5

----------------------------------------------------------------------------
(* A request and the steps around it.                                       *)

LEMMA StageNames ==
  ASSUME NEW a
  PROVE  /\ a = Access!Idle => a.at = "idle"
         /\ a \in Resolving => a.at = "resolve"
         /\ a \in Deciding => a.at = "decide"
         /\ a \in Handling => a.at \in {"act", "live", "place", "project exec", "filter", "fan out"}
         /\ a \in Seeing => a.at \in {"act", "fan out"}
         /\ a \in Forwarding => a.at = "forward"
         /\ a \in Minted => a.at = "mint"
<1>1. a = Access!Idle => a.at = "idle"
  BY DEF Access!Idle
<1>2. a \in Resolving => a.at = "resolve"
  BY DEF Resolving
<1>3. a \in Deciding => a.at = "decide"
  BY DEF Deciding
<1>4. a \in Handling => a.at \in {"act", "live", "place", "project exec", "filter", "fan out"}
  BY DEF Handling
<1>5. a \in Seeing => a.at \in {"act", "fan out"}
  BY DEF Seeing
<1>6. a \in Forwarding => a.at = "forward"
  BY DEF Forwarding
<1>7. a \in Minted => a.at = "mint"
  BY DEF Minted
<1> HIDE DEF Access!Idle
<1> QED
  BY <1>1, <1>2, <1>3, <1>4, <1>5, <1>6, <1>7

LEMMA StageOf ==
  ASSUME AccessOK, NEW r \in AccessRequests
  PROVE  /\ Access!At(r, "idle") => access_access[r] = Access!Idle
         /\ Access!At(r, "resolve") => access_access[r] \in Resolving
         /\ Access!At(r, "decide") => access_access[r] \in Deciding
         /\ Access!At(r, "act") \/ Access!At(r, "fan out") =>
              access_access[r] \in Handling \cup Seeing
         /\ \/ Access!At(r, "live") \/ Access!At(r, "place")
            \/ Access!At(r, "project exec") \/ Access!At(r, "filter")
            => access_access[r] \in Handling
         /\ Access!At(r, "forward") => access_access[r] \in Forwarding
         /\ Access!At(r, "mint") => access_access[r] \in Minted
         /\ access_access[r] \in Stages /\ Past(access_access[r], access_seen[r])
         /\ ~Access!At(r, "idle") => SeesNow(access_seen[r])
<1>1. access_access[r] \in Stages
  BY DEF AccessOK
<1>2. /\ Access!At(r, "idle") => access_access[r] = Access!Idle
      /\ Access!At(r, "resolve") => access_access[r] \in Resolving
      /\ Access!At(r, "decide") => access_access[r] \in Deciding
      /\ Access!At(r, "act") \/ Access!At(r, "fan out") => access_access[r] \in Handling \cup Seeing
      /\ \/ Access!At(r, "live") \/ Access!At(r, "place")
         \/ Access!At(r, "project exec") \/ Access!At(r, "filter")
         => access_access[r] \in Handling
      /\ Access!At(r, "forward") => access_access[r] \in Forwarding
      /\ Access!At(r, "mint") => access_access[r] \in Minted
  <2> HIDE DEF Access!Idle
  <2> QED
    BY <1>1, StageNames DEF Stages, Allowed, Access!At
<1> QED
  BY <1>1, <1>2 DEF AccessOK

LEMMA PastOfIdle ==
  ASSUME NEW S
  PROVE  Access!Idle \in Stages /\ Past(Access!Idle, S) /\ Access!Idle.at = "idle"
<1>1. Access!Idle \notin Resolving \cup Deciding \cup Allowed \cup Minted
  BY DEF Allowed, Access!Idle, Resolving, Deciding, Handling, Seeing, Forwarding, Minted
<1> QED
  BY <1>1 DEF Past, Stages, Access!Idle, Allowed

(* A request takes a step that reads; the tables rest.                      *)
LEMMA RequestSteps ==
  ASSUME AccessOK, NEW r \in AccessRequests, NEW next \in Stages, Access!Step(r, next),
         ~Access!At(r, "idle"),
         UNCHANGED <<Access!rows, access_seen>>, Past(next, access_seen[r])
  PROVE  AccessOK'
<1>1. /\ access_access' = [access_access EXCEPT ![r] = next]
      /\ access_access \in [AccessRequests -> Stages]
  BY DEF Access!Step, AccessOK
<1>2. access_access' \in [AccessRequests -> Stages] /\ DOMAIN access_seen' = AccessRequests
  BY <1>1 DEF AccessOK
<1>3. ASSUME NEW s \in AccessRequests
      PROVE  /\ (~Access!At(s, "idle") => SeesNow(access_seen[s]))'
             /\ Past(access_access'[s], access_seen'[s])
  <2>1. CASE s = r
    BY <1>1, <2>1, StageOf DEF SeesNow, Access!rows
  <2>2. CASE s # r
    <3>1. access_access'[s] = access_access[s]
      BY <1>1, <2>2
    <3> QED
      BY <3>1, StageOf DEF SeesNow, Access!rows, Access!At
  <2> QED
    BY <2>1, <2>2
<1> QED
  BY <1>2, <1>3 DEF AccessOK

LEMMA RequestEnds ==
  ASSUME AccessOK, NEW r \in AccessRequests, Access!Done(r), ~Access!At(r, "idle"),
         UNCHANGED <<Access!rows, access_seen>>
  PROVE  AccessOK'
<1> HIDE DEF Access!Idle
<1> QED
  BY PastOfIdle, RequestSteps DEF Access!Done

(* The world changes around the requests; each has seen the new one.        *)
LEMMA MovesAreSeen ==
  ASSUME AccessOK, Access!Moved, UNCHANGED access_access
  PROVE  AccessOK'
<1>1. access_seen' = [s \in AccessRequests |-> IF Access!At(s, "idle") THEN {}
                          ELSE access_seen[s] \cup {Access!World'}]
  BY DEF Access!Moved
<1>2. access_access' \in [AccessRequests -> Stages] /\ DOMAIN access_seen' = AccessRequests
  BY <1>1 DEF AccessOK
<1>3. /\ Access!World'.roles = access_roles' /\ Access!World'.projects = access_projects'
      /\ Access!World'.attached = access_attached' /\ Access!World'.orgs = access_orgs'
  BY DEF Access!World
<1>4. ASSUME NEW s \in AccessRequests
      PROVE  /\ (~Access!At(s, "idle") => SeesNow(access_seen[s]))'
             /\ Past(access_access'[s], access_seen'[s])
  <2>1. CASE Access!At(s, "idle")
    <3>1. access_access'[s] = Access!Idle
      BY <2>1, StageOf
    <3> QED
      BY <3>1, PastOfIdle DEF Access!At, Access!Idle
  <2>2. CASE ~Access!At(s, "idle")
    <3>1. access_seen'[s] = access_seen[s] \cup {Access!World'}
      BY <1>1, <2>2
    <3>2. Past(access_access[s], access_seen'[s])
      BY <3>1, StageOf, PastGrows
    <3>3. SeesNow(access_seen[s])'
      BY <1>3, <3>1 DEF SeesNow
    <3> QED
      BY <3>2, <3>3
  <2> QED
    BY <2>1, <2>2
<1> QED
  BY <1>2, <1>4 DEF AccessOK

(* The world of today is one the request has seen: where a project is, and  *)
(* which machines are in it.                                                *)
LEMMA TodayIsSeen ==
  ASSUME NEW S, SeesNow(S)
  PROVE  /\ \A p \in AccessProjects : ProjectIn(S, p, access_projects[p])
         /\ \A p \in AccessProjects, x \in AccessConnectors : <<p, x>> \in access_attached =>
              MachineIn(S, x, p, access_projects[p])
BY DEF SeesNow, ProjectIn, MachineIn

LEMMA ReadableIsCovered ==
  ASSUME Access!Names, Access!TypeOK, NEW a, a.cred \in Credential, NEW S, Resolved(a, S),
         SeesNow(S),
         NEW p \in Access!readableProjects(a.cred)
  PROVE  /\ p \in AccessProjects /\ access_projects[p] \in Access!Homes
         /\ ProjectIn(S, p, access_projects[p])
         /\ CoveredBy(a, S, "read:hub.project", access_projects[p], p)
<1>1. /\ p \in Access!Existing
      /\ Access!CredentialCan(a.cred, "read:hub.project", access_projects[p], p)
  BY ReadableCan
<1>2. p \in AccessProjects /\ access_projects[p] \in Access!Homes
  BY <1>1, ProjectHomes
<1>3. CoveredBy(a, S, "read:hub.project", access_projects[p], p)
  BY <1>1, <1>2, CanCovers
<1> QED
  BY <1>2, <1>3, TodayIsSeen

----------------------------------------------------------------------------
(* A request is resolved and decided.                                       *)

LEMMA PresentOK ==
  ASSUME AccessInv, NEW r \in AccessRequests, NEW x \in Secrets, NEW subject \in Access!Subjects,
         NEW grant \in Access!Grant \cup {None}, NEW ask \in AccessAsks, x \in Access!Standing,
         Access!Present(r, x, subject, grant, ask)
  PROVE  AccessOK'
<1> DEFINE next == [at |-> "resolve", secret |-> x, account |-> subject, grant |-> grant,
                    ask |-> ask]
<1>0. AccessOK
  BY DEF AccessInv
<1>1. next \in Resolving /\ next.secret = x
  BY DEF Resolving
<1>2. /\ access_access' = [access_access EXCEPT ![r] = next]
      /\ access_seen' = [access_seen EXCEPT ![r] = {Access!World}]
      /\ UNCHANGED Access!rows
  BY DEF Access!Present, Access!Step
<1> HIDE DEF next
<1>3. next \in Stages /\ next \notin Deciding \cup Allowed \cup Minted
  BY <1>1, StageNames DEF Stages, Allowed
<1>4. Past(next, {Access!World})
  <2>1. Access!World.standing = Access!Standing
    BY DEF Access!World
  <2> QED
    BY <1>1, <1>3, <2>1 DEF Past, Stood, Allowed
<1>5. /\ Access!World.roles = access_roles /\ Access!World.projects = access_projects
      /\ Access!World.attached = access_attached
      /\ Access!World.orgs = access_orgs
  BY DEF Access!World
<1>6. access_access \in [AccessRequests -> Stages] /\ DOMAIN access_seen = AccessRequests
  BY <1>0 DEF AccessOK
<1>7. access_access' \in [AccessRequests -> Stages] /\ DOMAIN access_seen' = AccessRequests
  BY <1>2, <1>3, <1>6
<1>8. ASSUME NEW s \in AccessRequests
      PROVE  /\ (~Access!At(s, "idle") => SeesNow(access_seen[s]))'
             /\ Past(access_access'[s], access_seen'[s])
  <2>1. CASE s = r
    <3>1. access_access'[s] = next /\ access_seen'[s] = {Access!World}
      BY <1>2, <1>6, <2>1
    <3> QED
      BY <1>2, <1>4, <1>5, <3>1 DEF SeesNow, Access!rows
  <2>2. CASE s # r
    <3>1. access_access'[s] = access_access[s] /\ access_seen'[s] = access_seen[s]
      BY <1>2, <1>6, <2>2
    <3> QED
      BY <1>0, <1>2, <3>1, StageOf DEF SeesNow, Access!rows, Access!At
  <2> QED
    BY <2>1, <2>2
<1> QED
  BY <1>7, <1>8 DEF AccessOK

LEMMA PresentedOK ==
  ASSUME AccessInv, NEW r \in AccessRequests, NEW ask \in AccessAsks,
         \/ \E x \in AccessSessions : Access!PresentSession(r, x, ask)
         \/ \E t \in AccessTokens : Access!ApiTokenAuth(r, t, ask)
  PROVE  AccessOK'
<1>0. Access!TypeOK
  BY DEF AccessInv
<1>1. ASSUME NEW x \in AccessSessions, Access!PresentSession(r, x, ask) PROVE AccessOK'
  <2>1. /\ access_sessions[x] \in Access!Subjects /\ x \in Access!Standing
        /\ Access!Present(r, x, access_sessions[x], None, ask)
    BY <1>0, <1>1 DEF Access!TypeOK, Access!Subjects, Access!PresentSession, Access!Standing
  <2> QED
    BY <2>1, PresentOK DEF Secrets
<1>2. ASSUME NEW t \in AccessTokens, Access!ApiTokenAuth(r, t, ask) PROVE AccessOK'
  <2>1. access_tokens[t] \in Access!Token
    BY <1>0, <1>2 DEF Access!TypeOK, Access!ApiTokenAuth
  <2>2. access_tokens[t].account \in Access!Subjects /\ access_tokens[t].grant \in Access!Grant
    BY <2>1 DEF Access!Token, Access!Subjects
  <2>3. /\ t \in Access!Standing
        /\ Access!Present(r, t, access_tokens[t].account, access_tokens[t].grant, ask)
    BY <1>2 DEF Access!ApiTokenAuth, Access!Standing
  <2> QED
    BY <2>2, <2>3, PresentOK DEF Secrets
<1> QED
  BY <1>1, <1>2

LEMMA ResolvedNow ==
  ASSUME NEW S, SeesNow(S), NEW account
  PROVE  \E w \in S : Access!resolveRequester(account) = RequesterIn(w, account)
BY DEF SeesNow, RequesterIn, Access!resolveRequester

LEMMA CredentialOK ==
  ASSUME Access!Names, AccessInv, NEW r \in AccessRequests, Access!credentialOf(r)
  PROVE  AccessOK'
<1> DEFINE a == access_access[r]
           cred == [requester |-> Access!resolveRequester(a.account), grant |-> a.grant]
           next == [at |-> "decide", secret |-> a.secret, account |-> a.account, ask |-> a.ask,
                    cred |-> cred]
<1>0. AccessOK /\ Access!TypeOK
  BY DEF AccessInv
<1>1. Access!At(r, "resolve") /\ Access!Step(r, next) /\ UNCHANGED <<Access!rows, access_seen>>
  BY DEF Access!credentialOf, Access!Reads
<1>2. a \in Resolving /\ Past(a, access_seen[r]) /\ SeesNow(access_seen[r]) /\ ~Access!At(r, "idle")
  BY <1>0, <1>1, StageOf DEF Access!At
<1>3. /\ a.secret \in Secrets /\ a.account \in Access!Subjects
      /\ a.grant \in Access!Grant \cup {None}
      /\ a.ask \in AccessAsks
  BY <1>2 DEF Resolving
<1>4. cred \in Credential /\ cred.requester = Access!resolveRequester(a.account)
  BY <1>0, <1>3, IdentityOfToday DEF Credential
<1> HIDE DEF cred
<1>5. next \in Deciding /\ next.secret = a.secret /\ next.account = a.account /\ next.cred = cred
  BY <1>3, <1>4 DEF Deciding
<1> HIDE DEF next
<1>6. next \in Stages /\ next \notin Allowed \cup Minted
  BY <1>5, StageNames DEF Stages, Allowed
<1>7. Stood(next, access_seen[r])
  BY <1>2, <1>5 DEF Past, Stood
<1>8. Resolved(next, access_seen[r])
  BY <1>2, <1>4, <1>5, ResolvedNow DEF Resolved
<1>9. Past(next, access_seen[r])
  BY <1>6, <1>7, <1>8 DEF Past, Allowed
<1> HIDE DEF a
<1> QED
  BY <1>0, <1>1, <1>2, <1>6, <1>9, RequestSteps

(* Where the rule held, the account held the capability on the target.      *)
LEMMA DecisionHolds ==
  ASSUME Access!Names, Access!Routes, Access!TypeOK, NEW a \in Deciding, NEW S, Resolved(a, S),
         SeesNow(S),
         a.ask.route \notin {"mint", "mint admin"}, Access!requireAt(a.cred, a.ask)
  PROVE  OnTarget(a, S)
<1> DEFINE ask == a.ask
<1>0. a.cred \in Credential /\ ask \in AccessAsks
  BY DEF Deciding
<1>1. ask \in Access!Ask /\ (ask.route = "connector" => ask.connector # None)
      /\ (ask.route = "project" => ask.project # None /\ ask.connector = None)
  BY <1>0 DEF Access!Routes
<1>2. /\ ask.route \in {"connector", "fleet", "installation", "project", "org"}
      /\ ask.org \in Access!Homes /\ ask.project \in AccessProjects \cup {None}
      /\ ask.connector \in AccessConnectors \cup {None}
  BY <1>1 DEF Access!Ask, Access!Homes
<1>3. PICK b \in Access!BoundsOf(a.cred, ask) : Access!CredentialCan(a.cred, ask.cap, b[1], b[2])
  BY DEF Access!requireAt
<1>4. ASSUME NEW x \in AccessConnectors, b \in Access!boundsForConnector(x)
      PROVE  \E p \in AccessProjects, o \in Access!Homes :
                 MachineIn(S, x, p, o) /\ CoveredBy(a, S, ask.cap, o, p)
  <2>1. PICK p \in Access!Existing : <<p, x>> \in access_attached /\ b = <<access_projects[p], p>>
    BY <1>4 DEF Access!boundsForConnector, Access!ConnectorBoundaries
  <2>2. /\ p \in AccessProjects /\ access_projects[p] \in Access!Homes
        /\ b[1] = access_projects[p] /\ b[2] = p
    BY <2>1, ProjectHomes
  <2>3. MachineIn(S, x, p, access_projects[p])
    BY <2>1, <2>2, TodayIsSeen
  <2>4. CoveredBy(a, S, ask.cap, access_projects[p], p)
    BY <1>0, <1>3, <2>2, CanCovers
  <2> QED
    BY <2>2, <2>3, <2>4
<1>5. ASSUME NEW p \in AccessProjects, b \in Access!boundsForProject(p)
      PROVE  \E o \in Access!Homes : ProjectIn(S, p, o) /\ CoveredBy(a, S, ask.cap, o, p)
  <2>1. p \in Access!Existing /\ b = <<access_projects[p], p>>
    BY <1>5 DEF Access!boundsForProject
  <2>2. access_projects[p] \in Access!Homes /\ b[1] = access_projects[p] /\ b[2] = p
    BY <2>1, ProjectHomes
  <2>3. ProjectIn(S, p, access_projects[p])
    BY TodayIsSeen
  <2>4. CoveredBy(a, S, ask.cap, access_projects[p], p)
    BY <1>0, <1>3, <2>2, CanCovers
  <2> QED
    BY <2>2, <2>3, <2>4
<1>6. ASSUME b \in Access!credentialBounds(a.cred)
      PROVE  \E o \in Access!Homes, p \in AccessProjects \cup {None} :
                 CoveredBy(a, S, ask.cap, o, p)
  <2>1. b[1] \in Access!Homes /\ b[2] \in AccessProjects \cup {None}
    <3>1. CASE a.cred.grant # None
      <4>1. a.cred.grant \in Access!Grant /\ b = <<a.cred.grant.org, a.cred.grant.project>>
        BY <1>0, <1>6, <3>1 DEF Credential, Access!credentialBounds
      <4> QED
        BY <4>1, GrantShape DEF Access!Homes
    <3>2. CASE a.cred.grant = None
      <4>1. PICK o \in Access!Homes : b = <<o, None>>
        BY <1>6, <3>2 DEF Access!credentialBounds, Access!Homes
      <4>2. b[1] = o /\ b[2] = None
        BY <4>1
      <4> QED
        BY <4>2
    <3> QED
      BY <3>1, <3>2
  <2>2. CoveredBy(a, S, ask.cap, b[1], b[2])
    BY <1>0, <1>3, <2>1, CanCovers
  <2> QED
    BY <2>1, <2>2
<1>7. ASSUME NEW o \in Access!Homes, b = <<o, None>> PROVE CoveredBy(a, S, ask.cap, o, None)
  <2>1. b[1] = o /\ b[2] = None
    BY <1>7
  <2> QED
    BY <1>0, <1>3, <2>1, CanCovers
<1> HIDE DEF ask
<1>8. CASE ask.route = "installation"
  <2>1. b = <<None, None>> /\ None \in Access!Homes
    BY <1>3, <1>8 DEF Access!BoundsOf, Access!Homes
  <2> QED
    BY <1>7, <1>8, <2>1 DEF OnTarget, ask
<1>9. CASE ask.route = "org"
  <2>1. b = <<ask.org, None>>
    BY <1>3, <1>9 DEF Access!BoundsOf
  <2> QED
    BY <1>2, <1>7, <1>9, <2>1 DEF OnTarget, ask
<1>10. CASE ask.route = "connector"
  <2>1. ask.connector \in AccessConnectors /\ b \in Access!boundsForConnector(ask.connector)
    BY <1>1, <1>2, <1>3, <1>10 DEF Access!BoundsOf
  <2> QED
    BY <1>1, <1>4, <1>10, <2>1 DEF OnTarget, ask
<1>11. CASE ask.route = "project"
  <2>1. ask.project \in AccessProjects /\ b \in Access!boundsForProject(ask.project)
    BY <1>1, <1>2, <1>3, <1>11 DEF Access!BoundsOf
  <2> QED
    BY <1>1, <1>5, <1>11, <2>1 DEF OnTarget, ask
<1>12. CASE ask.route = "fleet"
  <2>0. b \in Access!atFleet(a.cred, ask)
    BY <1>3, <1>12 DEF Access!BoundsOf
  <2>1. CASE ask.connector # None
    <3>1. ask.connector \in AccessConnectors /\ b \in Access!boundsForConnector(ask.connector)
      BY <1>2, <2>0, <2>1 DEF Access!atFleet
    <3> QED
      BY <1>4, <1>12, <2>1, <3>1 DEF OnTarget, ask
  <2>2. CASE ask.connector = None /\ ask.project # None
    <3>1. ask.project \in AccessProjects /\ b \in Access!boundsForProject(ask.project)
      BY <1>2, <2>0, <2>2 DEF Access!atFleet
    <3> QED
      BY <1>5, <1>12, <2>2, <3>1 DEF OnTarget, ask
  <2>3. CASE ask.connector = None /\ ask.project = None
    <3>1. b \in Access!credentialBounds(a.cred)
      BY <2>0, <2>3 DEF Access!atFleet
    <3> QED
      BY <1>6, <1>12, <2>3, <3>1 DEF OnTarget, ask
  <2> QED
    BY <2>1, <2>2, <2>3
<1> QED
  BY <1>2, <1>8, <1>9, <1>10, <1>11, <1>12

----------------------------------------------------------------------------
(* What an allowed request does.                                            *)

LEMMA HandlerSteps ==
  ASSUME AccessOK, NEW r \in AccessRequests, access_access[r] \in Deciding \cup Allowed,
         OnTarget(access_access[r], access_seen[r]),
         NEW next \in Allowed, next.secret = access_access[r].secret,
         next.account = access_access[r].account,
         next.ask = access_access[r].ask, next.cred = access_access[r].cred, OnRoute(next),
         next \in Seeing => SeesWell(next, access_seen[r]),
         next \in Forwarding => PlacedWell(next, access_seen[r]),
         Access!Step(r, next), UNCHANGED <<Access!rows, access_seen>>
  PROVE  AccessOK'
<1> DEFINE a == access_access[r]
           S == access_seen[r]
<1>1. Past(a, S) /\ ~Access!At(r, "idle")
  <2>1. a.at # "idle"
    BY StageNames DEF Allowed
  <2> QED
    BY <2>1, StageOf DEF Access!At
<1>2. Stood(next, S) /\ Resolved(next, S)
  BY <1>1 DEF Past, Stood, Resolved
<1>3. OnTarget(next, S)
  BY DEF OnTarget, CoveredBy, Held
<1>4. next \in Stages /\ next \notin Minted
  BY StageNames DEF Stages, Allowed
<1>5. Past(next, S)
  BY <1>2, <1>3, <1>4 DEF Past
<1> QED
  BY <1>1, <1>4, <1>5, RequestSteps

(* What is known of a request that was allowed.                             *)
LEMMA AllowedFields ==
  ASSUME AccessOK, NEW r \in AccessRequests, access_access[r] \in Allowed
  PROVE  /\ access_access[r].secret \in Secrets /\ access_access[r].account \in Access!Subjects
         /\ access_access[r].ask \in AccessAsks /\ access_access[r].cred \in Credential
         /\ Stood(access_access[r], access_seen[r]) /\ Resolved(access_access[r], access_seen[r])
         /\ OnTarget(access_access[r], access_seen[r]) /\ OnRoute(access_access[r])
         /\ SeesNow(access_seen[r])
         /\ ~Access!At(r, "idle")
<1>1. ASSUME NEW a \in Allowed
      PROVE  /\ a.secret \in Secrets /\ a.account \in Access!Subjects /\ a.ask \in AccessAsks
             /\ a.cred \in Credential
  <2>1. CASE a \in Handling
    BY <2>1 DEF Handling
  <2>2. CASE a \in Seeing
    BY <2>2 DEF Seeing
  <2>3. CASE a \in Forwarding
    BY <2>3 DEF Forwarding
  <2> QED
    BY <2>1, <2>2, <2>3 DEF Allowed
<1>2. ~Access!At(r, "idle")
  BY StageNames DEF Allowed, Access!At
<1> QED
  BY <1>1, <1>2, StageOf DEF Past

LEMMA DecideOK ==
  ASSUME Access!Names, Access!Routes, AccessInv, NEW r \in AccessRequests, Access!Decide(r)
  PROVE  AccessOK'
<1> DEFINE a == access_access[r]
<1>0. /\ AccessOK /\ Access!TypeOK /\ Access!At(r, "decide")
      /\ UNCHANGED <<Access!rows, access_seen>> /\ ~Access!At(r, "idle")
  BY DEF AccessInv, Access!Decide, Access!Reads, Access!At
<1>1. a \in Deciding /\ Past(a, access_seen[r]) /\ SeesNow(access_seen[r])
  BY <1>0, StageOf
<1>2. CASE ~Access!requireAt(a.cred, a.ask)
  BY <1>0, <1>2, RequestEnds DEF Access!Decide
<1>3. ASSUME Access!requireAt(a.cred, a.ask), NEW h \in Access!Handler(a.ask),
             Access!Step(r, [a EXCEPT !.at = h])
      PROVE  AccessOK'
  <2> DEFINE next == [a EXCEPT !.at = h]
  <2>1. OnTarget(a, access_seen[r])
    BY <1>0, <1>1, <1>3, DecisionHolds DEF Past, Access!Decide, Access!Minting
  <2>2. /\ h \in {"act", "live", "place", "project exec", "filter", "fan out"}
        /\ h = "live" => a.ask.route = "connector"
        /\ h = "project exec" => a.ask.route = "project"
        /\ h \in {"place", "filter", "fan out"} => a.ask.route # "project"
    BY <1>3 DEF Access!Handler
  <2>3. next \in Handling
    BY <1>1, <2>2 DEF Deciding, Handling
  <2>4. /\ next.at = h /\ next.secret = a.secret /\ next.account = a.account
        /\ next.ask = a.ask /\ next.cred = a.cred
    BY <1>1 DEF Deciding
  <2>5. next \notin Seeing /\ next \notin Forwarding
    <3>1. next \notin Forwarding
      BY <2>3, StageNames
    <3>2. next \notin Seeing
      BY <1>1 DEF Deciding, Seeing
    <3> QED
      BY <3>1, <3>2
  <2> HIDE DEF next
  <2>6. OnRoute(next)
    BY <2>2, <2>4 DEF OnRoute
  <2> QED
    BY <1>0, <1>1, <1>3, <2>1, <2>3, <2>4, <2>5, <2>6, HandlerSteps DEF Allowed, next
<1> QED
  BY <1>2, <1>3 DEF Access!Decide

(* A request that is allowed goes on to the gateways of some projects.      *)
LEMMA ForwardOK ==
  ASSUME Access!Names, AccessInv, NEW r \in AccessRequests, access_access[r] \in Allowed,
         NEW ps \in SUBSET (AccessProjects \cup {None}),
         Access!Step(r, Access!Forward(access_access[r], ps)),
         UNCHANGED <<Access!rows, access_seen>>,
         \A p \in ps \ {None} :
           ReadCovered(access_access[r], access_seen[r], p,
                       IF access_access[r].ask.route = "project" THEN access_access[r].ask.cap
                                                                 ELSE "read:hub.project")
  PROVE  AccessOK'
<1> DEFINE a == access_access[r]
           next == Access!Forward(a, ps)
<1>0. AccessOK
  BY DEF AccessInv
<1>1. next \in Forwarding
  BY <1>0, AllowedFields DEF Access!Forward, Forwarding
<1>2. /\ next.at = "forward" /\ next.secret = a.secret /\ next.account = a.account
      /\ next.ask = a.ask /\ next.cred = a.cred /\ next.placed = ps
  BY DEF Access!Forward
<1> HIDE DEF next
<1>3. next \notin Seeing /\ next \in Allowed
  BY <1>1, StageNames DEF Allowed
<1>4. OnRoute(next)
  BY <1>2 DEF OnRoute
<1>5. PlacedWell(next, access_seen[r])
  BY <1>2 DEF PlacedWell, ReadCovered, CoveredBy, Held
<1> QED
  BY <1>0, <1>2, <1>3, <1>4, <1>5, AllowedFields, HandlerSteps DEF next

LEMMA PlaceOK ==
  ASSUME Access!Names, Access!Routes, AccessInv, NEW r \in AccessRequests, Access!Place(r)
  PROVE  AccessOK'
<1> DEFINE a == access_access[r]
           S == access_seen[r]
           at == Access!gatewayFor(a.cred, a.ask.project)
<1>0. /\ AccessOK /\ Access!TypeOK /\ Access!At(r, "place")
      /\ UNCHANGED <<Access!rows, access_seen>> /\ ~Access!At(r, "idle")
  BY DEF AccessInv, Access!Place, Access!Reads, Access!At
<1>1. a \in Allowed
  BY <1>0, StageOf DEF Allowed
<1>2. /\ a.ask \in AccessAsks /\ a.cred \in Credential /\ Resolved(a, S) /\ SeesNow(S) /\ OnRoute(a)
  BY <1>0, <1>1, AllowedFields
<1>3. CASE at = {}
  BY <1>0, <1>3, RequestEnds DEF Access!Place
<1>4. ASSUME NEW p \in at, Access!Step(r, Access!Forward(a, {p}))
      PROVE  AccessOK'
  <2>1. a.ask.route # "project"
    BY <1>0, <1>2 DEF OnRoute, Access!At
  <2>2. p # None => ReadCovered(a, S, p, "read:hub.project") /\ p \in AccessProjects
    <3> SUFFICES ASSUME p # None
                 PROVE  ReadCovered(a, S, p, "read:hub.project") /\ p \in AccessProjects
      OBVIOUS
    <3>1. p \in Access!readableProjects(a.cred) \/
          (/\ p \in Access!Existing
           /\ Access!CredentialCan(a.cred, "read:hub.project", access_projects[p], p))
      BY <1>4 DEF Access!gatewayFor, Access!resolveProject
    <3>2. /\ p \in Access!Existing
          /\ Access!CredentialCan(a.cred, "read:hub.project", access_projects[p], p)
      BY <1>0, <1>2, <3>1, ReadableCan
    <3>3. p \in AccessProjects /\ access_projects[p] \in Access!Homes
      BY <1>0, <3>2, ProjectHomes
    <3>4. CoveredBy(a, S, "read:hub.project", access_projects[p], p)
      BY <1>2, <3>2, <3>3, CanCovers
    <3>5. ProjectIn(S, p, access_projects[p])
      BY <1>2, <3>3, TodayIsSeen
    <3> QED
      BY <3>3, <3>4, <3>5 DEF ReadCovered
  <2>3. {p} \in SUBSET (AccessProjects \cup {None})
    BY <2>2
  <2> HIDE DEF at
  <2> QED
    BY <1>0, <1>1, <1>4, <2>1, <2>2, <2>3, ForwardOK
<1> QED
  BY <1>3, <1>4 DEF Access!Place

LEMMA FanOutOK ==
  ASSUME Access!Names, Access!Routes, AccessInv, NEW r \in AccessRequests, Access!FanOut(r)
  PROVE  AccessOK'
<1> DEFINE a == access_access[r]
           ps == Access!gatewayTargets(a.cred)
<1>0. /\ AccessOK /\ Access!TypeOK /\ Access!At(r, "fan out")
      /\ UNCHANGED <<Access!rows, access_seen>>
      /\ Access!Step(r, Access!Forward(a, ps))
  BY DEF AccessInv, Access!FanOut, Access!Reads
<1>1. a \in Allowed
  BY <1>0, StageOf DEF Allowed
<1>2. /\ a.cred \in Credential /\ Resolved(a, access_seen[r]) /\ SeesNow(access_seen[r])
      /\ OnRoute(a)
  BY <1>0, <1>1, AllowedFields
<1>3. ASSUME NEW p \in ps \ {None}
      PROVE  p \in AccessProjects /\ ReadCovered(a, access_seen[r], p, "read:hub.project")
  <2>1. p \in Access!readableProjects(a.cred)
    BY <1>3 DEF Access!gatewayTargets
  <2> QED
    BY <1>0, <1>2, <2>1, ReadableIsCovered DEF ReadCovered
<1>4. ps \in SUBSET (AccessProjects \cup {None})
  BY <1>3
<1>5. a.ask.route # "project"
  BY <1>0, <1>2 DEF OnRoute, Access!At
<1> HIDE DEF ps
<1> QED
  BY <1>0, <1>1, <1>3, <1>4, <1>5, ForwardOK

LEMMA LiveOK ==
  ASSUME Access!Names, Access!Routes, AccessInv, NEW r \in AccessRequests,
         Access!resolveLiveConnector(r)
  PROVE  AccessOK'
<1> DEFINE a == access_access[r]
<1>0. AccessOK /\ Access!TypeOK /\ Access!At(r, "live") /\ UNCHANGED <<Access!rows, access_seen>>
  BY DEF AccessInv, Access!resolveLiveConnector, Access!Reads
<1>1. a \in Handling /\ a \in Allowed /\ ~Access!At(r, "idle")
  BY <1>0, StageOf DEF Allowed, Access!At
<1>2. OnTarget(a, access_seen[r]) /\ a.ask.route = "connector"
  BY <1>0, <1>1, AllowedFields DEF OnRoute, Access!At
<1>3. ASSUME NEW h \in {"act", "place"}, Access!Step(r, [a EXCEPT !.at = h])
      PROVE  AccessOK'
  <2> DEFINE next == [a EXCEPT !.at = h]
  <2>1. next \in Handling
    BY <1>1 DEF Handling
  <2>2. /\ next.at = h /\ next.secret = a.secret /\ next.account = a.account
        /\ next.ask = a.ask /\ next.cred = a.cred
    BY <1>1 DEF Handling
  <2>3. next \notin Seeing
    BY <1>1 DEF Handling, Seeing
  <2>4. next \notin Forwarding
    BY <2>1, StageNames
  <2> HIDE DEF next
  <2>5. OnRoute(next)
    BY <1>2, <2>2 DEF OnRoute
  <2> QED
    BY <1>0, <1>1, <1>2, <1>3, <2>1, <2>2, <2>3, <2>4, <2>5, HandlerSteps DEF Allowed, next
<1>4. Access!Done(r) => AccessOK'
  BY <1>0, <1>1, RequestEnds
<1> QED
  BY <1>3, <1>4 DEF Access!resolveLiveConnector

LEMMA ProjectExecOK ==
  ASSUME Access!Names, Access!Routes, AccessInv, NEW r \in AccessRequests,
         Access!handleProjectExec(r)
  PROVE  AccessOK'
<1> DEFINE a == access_access[r]
           next == [a EXCEPT !.at = "act"]
<1>0. /\ AccessOK /\ Access!TypeOK /\ Access!At(r, "project exec")
      /\ UNCHANGED <<Access!rows, access_seen>>
  BY DEF AccessInv, Access!handleProjectExec, Access!Reads
<1>1. a \in Handling /\ a \in Allowed /\ ~Access!At(r, "idle")
  BY <1>0, StageOf DEF Allowed, Access!At
<1>2. OnTarget(a, access_seen[r]) /\ a.ask.route = "project" /\ a.ask \in AccessAsks
  BY <1>0, <1>1, AllowedFields DEF OnRoute, Access!At
<1>3. a.ask.project \in AccessProjects /\ a.ask.project # None /\ a.ask.connector = None
  BY <1>2 DEF Access!Routes, Access!Ask
<1>4. Access!Step(r, next) => AccessOK'
  <2>1. next \in Handling
    BY <1>1 DEF Handling
  <2>2. /\ next.at = "act" /\ next.secret = a.secret /\ next.account = a.account
        /\ next.ask = a.ask /\ next.cred = a.cred
    BY <1>1 DEF Handling
  <2>3. next \notin Seeing
    BY <1>1 DEF Handling, Seeing
  <2>4. next \notin Forwarding
    BY <2>1, StageNames
  <2> HIDE DEF next
  <2>5. OnRoute(next)
    BY <2>2 DEF OnRoute
  <2> QED
    BY <1>0, <1>1, <1>2, <2>1, <2>2, <2>3, <2>4, <2>5, HandlerSteps DEF Allowed, next
<1>5. Access!Step(r, Access!Forward(a, {a.ask.project})) => AccessOK'
  <2>1. ReadCovered(a, access_seen[r], a.ask.project, a.ask.cap)
    BY <1>2, <1>3 DEF OnTarget, ReadCovered
  <2> QED
    BY <1>0, <1>1, <1>2, <1>3, <2>1, ForwardOK
<1>6. Access!Done(r) => AccessOK'
  BY <1>0, <1>1, RequestEnds
<1> QED
  BY <1>4, <1>5, <1>6 DEF Access!handleProjectExec

(* A list shows the machines of projects its reader can read.               *)
LEMMA FilterOK ==
  ASSUME Access!Names, Access!Routes, AccessInv, NEW r \in AccessRequests, Access!Filter(r)
  PROVE  AccessOK'
<1> DEFINE a == access_access[r]
           S == access_seen[r]
           see == Access!connectorFilter(a.cred)
<1>0. AccessOK /\ Access!TypeOK /\ Access!At(r, "filter") /\ UNCHANGED <<Access!rows, access_seen>>
  BY DEF AccessInv, Access!Filter, Access!Reads
<1>1. a \in Handling /\ a \in Allowed
  BY <1>0, StageOf DEF Allowed
<1>2. /\ a.secret \in Secrets /\ a.account \in Access!Subjects /\ a.ask \in AccessAsks
      /\ a.cred \in Credential
      /\ Resolved(a, S) /\ OnTarget(a, S) /\ OnRoute(a) /\ SeesNow(S)
  BY <1>0, <1>1, AllowedFields
<1>3. ASSUME NEW h \in {"act", "fan out"},
             Access!Step(r, [at |-> h, secret |-> a.secret, account |-> a.account, ask |-> a.ask,
                      cred |-> a.cred, sees |-> see])
      PROVE  AccessOK'
  <2> DEFINE next == [at |-> h, secret |-> a.secret, account |-> a.account, ask |-> a.ask,
                      cred |-> a.cred, sees |-> see]
  <2>1. see \subseteq AccessConnectors
    BY DEF Access!connectorFilter, Access!connectorIdsByProjects
  <2>2. ASSUME NEW x \in see
        PROVE  \/ a.cred.requester.unpartitioned
               \/ \E p \in AccessProjects, o \in Access!Homes : MachineIn(S, x, p, o)
                                                   /\ CoveredBy(a, S, "read:hub.project", o, p)
    <3>1. CASE Access!CredentialCan(a.cred, "read:fleet.connector", None, None)
      BY <3>1, ReadingIsOrdinary DEF Access!CredentialCan, Access!RequesterCan
    <3>2. CASE ~Access!CredentialCan(a.cred, "read:fleet.connector", None, None)
      <4>1. PICK p \in Access!readableProjects(a.cred) : <<p, x>> \in access_attached
        BY <2>2, <3>2 DEF Access!connectorFilter, Access!connectorIdsByProjects
      <4>2. /\ p \in AccessProjects /\ access_projects[p] \in Access!Homes
            /\ CoveredBy(a, S, "read:hub.project", access_projects[p], p)
        BY <1>0, <1>2, ReadableIsCovered
      <4>3. x \in AccessConnectors
        BY <2>1, <2>2
      <4>4. MachineIn(S, x, p, access_projects[p])
        BY <1>2, <4>1, <4>2, <4>3, TodayIsSeen
      <4> QED
        BY <4>2, <4>4
    <3> QED
      BY <3>1, <3>2
  <2> HIDE DEF see
  <2>3. next \in Seeing
    BY <1>2, <2>1 DEF Seeing
  <2>4. /\ next.at = h /\ next.secret = a.secret /\ next.account = a.account
        /\ next.ask = a.ask /\ next.cred = a.cred /\ next.sees = see
    OBVIOUS
  <2> HIDE DEF next
  <2>5. next \in Allowed /\ next \notin Forwarding
    BY <2>3, StageNames DEF Allowed
  <2>6. OnRoute(next)
    BY <1>0, <1>2, <2>4 DEF OnRoute, Access!At
  <2>7. SeesWell(next, S)
    BY <2>2, <2>4 DEF SeesWell, CoveredBy, Held
  <2> QED
    BY <1>0, <1>1, <1>2, <1>3, <2>4, <2>5, <2>6, <2>7, HandlerSteps DEF next
<1> QED
  BY <1>3 DEF Access!Filter

(* What answers, or has the gateway answer, ends.                           *)
LEMMA AnswerOK ==
  ASSUME AccessInv, NEW r \in AccessRequests, Access!Act(r) \/ Access!proxyGateway(r)
  PROVE  AccessOK'
<1>1. AccessOK /\ ~Access!At(r, "idle") /\ Access!Done(r) /\ UNCHANGED <<Access!rows, access_seen>>
  BY DEF AccessInv, Access!Act, Access!proxyGateway, Access!Reads, Access!At
<1> QED
  BY <1>1, RequestEnds

----------------------------------------------------------------------------
(* A token is minted.                                                       *)

(* The minter's record carries nothing but the grant.                       *)
LEMMA MintStep ==
  ASSUME AccessInv, NEW r \in AccessRequests, Access!At(r, "decide"),
         UNCHANGED <<Access!rows, access_seen>>,
         NEW account \in AccessAccounts, NEW g \in Access!Grant,
         Access!Step(r, [at |-> "mint", account |-> account, grant |-> g]),
         account = access_access[r].account,
         \A c \in g.scopes : Held(access_access[r], access_seen[r], c, g.org),
         g.project # None => ProjectIn(access_seen[r], g.project, g.org)
  PROVE  AccessOK'
<1> DEFINE next == [at |-> "mint", account |-> account, grant |-> g]
<1>0. AccessOK /\ ~Access!At(r, "idle")
  BY DEF AccessInv, Access!At
<1>1. next \in Minted /\ next.account = access_access[r].account /\ next.grant = g
  BY DEF Minted
<1> HIDE DEF next
<1>2. MintedWell(next, access_seen[r])
  BY <1>1 DEF MintedWell, Held
<1>3. next \in Stages /\ next \notin Resolving \cup Deciding \cup Allowed
  BY <1>1, StageNames DEF Stages, Allowed
<1>4. Past(next, access_seen[r])
  BY <1>2, <1>3 DEF Past, Allowed
<1> QED
  BY <1>0, <1>3, <1>4, RequestSteps DEF next

LEMMA SoleOrgIsOrg ==
  ASSUME Access!Names, NEW q \in Requester
  PROVE  Access!SoleOrg(q) \in Access!Homes
<1> DEFINE mine == {o \in DOMAIN q.roles : q.roles[o] # None}
<1>1. DOMAIN q.roles = AccessOrgs
  BY DEF Requester
<1>2. CASE Cardinality(mine) = 1
  <2>1. mine # {}
    BY <1>2, FS_EmptySet
  <2>2. (CHOOSE o \in mine : TRUE) \in mine
    BY <2>1
  <2> QED
    BY <1>1, <1>2, <2>2, AccessCounts DEF Access!SoleOrg, Access!Homes
<1>3. CASE Cardinality(mine) # 1
  BY <1>3, AccessCounts DEF Access!SoleOrg, Access!Homes
<1> QED
  BY <1>2, <1>3

LEMMA MintOK ==
  ASSUME Access!Names, Access!Routes, AccessInv, NEW r \in AccessRequests, NEW scopes,
         Access!handleCreateApiToken(r, scopes)
  PROVE  AccessOK'
<1> DEFINE a == access_access[r]
           o == Access!resolveProjectOrg(a.cred, a.ask.org)
           g == [installation |-> FALSE, org |-> o, project |-> a.ask.project, scopes |-> scopes]
<1>0. /\ AccessOK /\ Access!TypeOK /\ Access!At(r, "decide")
      /\ UNCHANGED <<Access!rows, access_seen>> /\ ~Access!At(r, "idle")
  BY DEF AccessInv, Access!handleCreateApiToken, Access!Reads, Access!At
<1>1. a \in Deciding /\ Past(a, access_seen[r]) /\ SeesNow(access_seen[r])
  BY <1>0, StageOf
<1>2. /\ a.account \in Access!Subjects /\ a.ask \in Access!Ask /\ a.cred \in Credential
      /\ Resolved(a, access_seen[r])
  BY <1>1 DEF Deciding, Past, Access!Routes
<1>3. /\ a.cred.requester \in Requester /\ a.cred.grant \in Access!Grant \cup {None}
      /\ a.ask.org \in Access!Homes /\ a.ask.project \in AccessProjects \cup {None}
  BY <1>2 DEF Credential, Access!Ask, Access!Homes
<1>4. o \in Access!Homes
  <2>1. a.cred.grant # None => a.cred.grant.org \in Access!Homes
    BY <1>3, GrantShape DEF Access!Homes
  <2> QED
    BY <1>3, <2>1, SoleOrgIsOrg DEF Access!resolveProjectOrg
<1>5. CASE a.account = AccessLegacy \/ o = None \/ Access!MintRefused(a, o, scopes)
  BY <1>0, <1>5, RequestEnds DEF Access!handleCreateApiToken
<1>6. CASE ~(a.account = AccessLegacy \/ o = None \/ Access!MintRefused(a, o, scopes))
  <2>1. Access!Step(r, [at |-> "mint", account |-> a.account, grant |-> g])
    BY <1>6 DEF Access!handleCreateApiToken
  <2>2. a.account \in AccessAccounts /\ o \in AccessOrgs
    BY <1>2, <1>4, <1>6 DEF Access!Subjects, Access!Homes
  <2>3. /\ scopes \subseteq Access!GrantableScopes
        /\ a.ask.project # None =>
             a.ask.project \in Access!Existing /\ access_projects[a.ask.project] = o
        /\ \A c \in scopes : Access!RequesterCan(a.cred.requester, c, o)
    BY <1>6 DEF Access!MintRefused
  <2> HIDE DEF o
  <2>4. g \in Access!Grant /\ g.scopes = scopes /\ g.org = o /\ g.project = a.ask.project
    BY <1>3, <2>2, <2>3 DEF Access!Grant, Access!OrgGrant
  <2>5. \A c \in scopes : Held(a, access_seen[r], c, o)
    BY <1>2, <1>3, <1>4, <2>3, RequesterHeld
  <2>6. a.ask.project # None => ProjectIn(access_seen[r], a.ask.project, o)
    BY <1>1, <1>3, <2>3, TodayIsSeen
  <2> HIDE DEF g
  <2> QED
    BY <1>0, <2>1, <2>2, <2>4, <2>5, <2>6, MintStep
<1> QED
  BY <1>5, <1>6

(* Only the operator mints for the installation.                            *)
LEMMA MintAdminOK ==
  ASSUME Access!Names, Access!Routes, AccessInv, NEW r \in AccessRequests, NEW scopes,
         Access!handleCreateAdminToken(r, scopes)
  PROVE  AccessOK'
<1> DEFINE a == access_access[r]
           g == [installation |-> TRUE, org |-> None, project |-> None, scopes |-> scopes]
           refused == \/ a.account = AccessLegacy
                      \/ ~Access!RequesterCan(a.cred.requester, "admin:hub.account", None)
                      \/ scopes = {} \/ ~(scopes \subseteq Access!installationGrantable)
<1>0. /\ AccessOK /\ Access!TypeOK /\ Access!At(r, "decide")
      /\ UNCHANGED <<Access!rows, access_seen>> /\ ~Access!At(r, "idle")
  BY DEF AccessInv, Access!handleCreateAdminToken, Access!Reads, Access!At
<1>1. a \in Deciding /\ Past(a, access_seen[r])
  BY <1>0, StageOf
<1>2. a.account \in Access!Subjects /\ Resolved(a, access_seen[r])
  BY <1>1 DEF Deciding, Past
<1>3. CASE refused
  BY <1>0, <1>3, RequestEnds DEF Access!handleCreateAdminToken
<1>4. CASE ~refused
  <2>1. Access!Step(r, [at |-> "mint", account |-> a.account, grant |-> g])
    BY <1>4 DEF Access!handleCreateAdminToken
  <2>2. a.account \in AccessAccounts /\ scopes \subseteq Access!installationGrantable
    BY <1>2, <1>4 DEF Access!Subjects
  <2>3. PICK w \in access_seen[r] : a.cred.requester = RequesterIn(w, a.account)
    BY <1>2 DEF Resolved
  <2>4. a.account = AccessOperator
    <3>0. a.account # AccessLegacy
      BY <1>4
    <3>1. /\ a.cred.requester.platform = (a.account = AccessOperator)
          /\ a.cred.requester.unpartitioned = FALSE
      BY <2>3, <3>0 DEF RequesterIn
    <3> QED
      BY <1>4, <3>1 DEF Access!RequesterCan
  <2>5. \A c \in scopes : Held(a, access_seen[r], c, None)
    BY <1>4, <2>2, <2>3, <2>4, ReadingIsOrdinary DEF Held
  <2>6. g \in Access!Grant /\ g.scopes = scopes /\ g.org = None /\ g.project = None
    BY <2>2 DEF Access!Grant, Access!InstallationGrant
  <2> HIDE DEF g
  <2> QED
    BY <1>0, <2>1, <2>2, <2>5, <2>6, MintStep
<1> QED
  BY <1>3, <1>4

LEMMA TokenIsMinted ==
  ASSUME AccessInv, NEW r \in AccessRequests, NEW t \in AccessTokens, Access!CreateApiToken(r, t)
  PROVE  AccessOK'
<1>1. AccessOK /\ ~Access!At(r, "idle") /\ Access!Done(r) /\ UNCHANGED <<Access!rows, access_seen>>
  BY DEF AccessInv, Access!CreateApiToken, Access!At
<1> QED
  BY <1>1, RequestEnds

LEMMA ServeOK ==
  ASSUME Access!Names, Access!Routes, AccessInv, NEW r \in AccessRequests, Access!Serve(r)
  PROVE  AccessOK'
<1>1. ASSUME NEW ask \in AccessAsks, \/ \E x \in AccessSessions : Access!PresentSession(r, x, ask)
                                     \/ \E t \in AccessTokens : Access!ApiTokenAuth(r, t, ask)
      PROVE  AccessOK'
  BY <1>1, PresentedOK
<1>2. CASE Access!credentialOf(r)
  BY <1>2, CredentialOK
<1>3. CASE Access!Decide(r)
  BY <1>3, DecideOK
<1>4. CASE Access!resolveLiveConnector(r)
  BY <1>4, LiveOK
<1>5. CASE Access!handleProjectExec(r)
  BY <1>5, ProjectExecOK
<1>6. CASE Access!Filter(r)
  BY <1>6, FilterOK
<1>7. CASE Access!FanOut(r)
  BY <1>7, FanOutOK
<1>8. CASE Access!Place(r)
  BY <1>8, PlaceOK
<1>9. CASE Access!Act(r) \/ Access!proxyGateway(r)
  BY <1>9, AnswerOK
<1>10. ASSUME NEW scopes \in AccessScopeSets, Access!handleCreateApiToken(r, scopes) PROVE AccessOK'
  BY <1>10, MintOK
<1>11. ASSUME NEW scopes \in AccessScopeSets, Access!handleCreateAdminToken(r, scopes)
       PROVE  AccessOK'
  BY <1>11, MintAdminOK
<1>12. ASSUME NEW t \in AccessTokens, Access!CreateApiToken(r, t) PROVE AccessOK'
  BY <1>12, TokenIsMinted
<1> QED
  BY <1>1, <1>2, <1>3, <1>4, <1>5, <1>6, <1>7, <1>8, <1>9, <1>10, <1>11, <1>12 DEF Access!Serve

----------------------------------------------------------------------------
(* The tables keep their shape.                                             *)

LEMMA TablesRest ==
  ASSUME Access!TypeOK, UNCHANGED <<Access!rows, access_sessions, access_tokens>>
  PROVE  Access!TypeOK'
BY DEF Access!TypeOK, Access!rows, Access!Existing

LEMMA ServeTyped ==
  ASSUME Access!Names, AccessInv, NEW r \in AccessRequests, Access!Serve(r)
  PROVE  Access!TypeOK'
<1>0. Access!TypeOK /\ AccessOK
  BY DEF AccessInv
<1>1. ASSUME NEW t \in AccessTokens, Access!CreateApiToken(r, t) PROVE Access!TypeOK'
  <2>1. access_access[r] \in Minted
    BY <1>0, <1>1, StageOf DEF Access!CreateApiToken
  <2> DEFINE row == [account |-> access_access[r].account, grant |-> access_access[r].grant,
                     live |-> TRUE]
  <2>2. row \in Access!Token
    BY <2>1 DEF Minted, Access!Token
  <2>3. /\ access_tokens' = [access_tokens EXCEPT ![t] = row]
        /\ UNCHANGED <<Access!rows, access_sessions>>
    BY <1>1 DEF Access!CreateApiToken
  <2> HIDE DEF row
  <2>4. access_tokens' \in [AccessTokens -> Access!Token \cup {None}]
    BY <1>0, <2>2, <2>3 DEF Access!TypeOK
  <2> QED
    BY <1>0, <2>3, <2>4 DEF Access!TypeOK, Access!rows, Access!Existing
<1>2. CASE ~(\E t \in AccessTokens : Access!CreateApiToken(r, t))
  <2>1. UNCHANGED <<Access!rows, access_sessions, access_tokens>>
    BY <1>2
    DEF Access!Serve, Access!PresentSession, Access!ApiTokenAuth, Access!Present,
        Access!credentialOf, Access!Decide,
                Access!resolveLiveConnector, Access!handleProjectExec, Access!Filter, Access!FanOut,
                Access!Place, Access!Act, Access!proxyGateway,
                Access!handleCreateApiToken, Access!handleCreateAdminToken, Access!Reads
  <2> QED
    BY <1>0, <2>1, TablesRest
<1> QED
  BY <1>1, <1>2

LEMMA AttachmentTyped ==
  ASSUME Access!TypeOK, NEW p \in AccessProjects, NEW c \in AccessConnectors,
         Access!AttachProjectConnector(p, c) \/ Access!DetachProjectConnector(p, c)
  PROVE  Access!TypeOK'
<1>1. UNCHANGED <<access_orgs, access_roles, access_projects, access_sessions, access_tokens>>
  BY DEF Access!AttachProjectConnector, Access!DetachProjectConnector
<1>2. Access!Existing' = Access!Existing
  BY <1>1 DEF Access!Existing
<1>3. access_attached' \subseteq Access!Existing \X AccessConnectors
  BY DEF Access!AttachProjectConnector, Access!DetachProjectConnector, Access!TypeOK
<1> QED
  BY <1>1, <1>2, <1>3 DEF Access!TypeOK

LEMMA DeletionTyped ==
  ASSUME Access!TypeOK, NEW p \in AccessProjects, Access!DeleteProject(p)
  PROVE  Access!TypeOK'
<1>1. /\ UNCHANGED <<access_orgs, access_roles, access_sessions, access_tokens>>
      /\ access_projects' = [access_projects EXCEPT ![p] = Access!Deleted]
      /\ access_attached' = {x \in access_attached : x[1] # p}
  BY DEF Access!DeleteProject
<1>2. access_projects' \in [AccessProjects -> access_orgs \cup {None, Access!Deleted}]
  BY <1>1 DEF Access!TypeOK
<1>3. Access!Existing \ {p} \subseteq Access!Existing'
  BY <1>1 DEF Access!TypeOK, Access!Existing
<1>4. access_attached' \subseteq Access!Existing' \X AccessConnectors
  <2> SUFFICES ASSUME NEW x \in access_attached' PROVE x \in Access!Existing' \X AccessConnectors
    OBVIOUS
  <2>1. x \in Access!Existing \X AccessConnectors /\ x[1] # p
    BY <1>1 DEF Access!TypeOK
  <2> QED
    BY <1>3, <2>1
<1> QED
  BY <1>1, <1>2, <1>4 DEF Access!TypeOK

LEMMA MembersTyped ==
  ASSUME Access!TypeOK, NEW o \in AccessOrgs, NEW a \in AccessAccounts,
         \/ Access!OrgAppears(o, a)
         \/ \E role \in Access!Roles \cup {None} : Access!MemberChanges(o, a, role)
  PROVE  Access!TypeOK'
<1>1. /\ UNCHANGED <<access_projects, access_attached, access_sessions, access_tokens>>
      /\ access_orgs \subseteq access_orgs' /\ o \in access_orgs'
      /\ access_orgs' \subseteq AccessOrgs
  BY DEF Access!OrgAppears, Access!MemberChanges, Access!TypeOK
<1>2. PICK role \in Access!Roles \cup {None} : access_roles' = [access_roles EXCEPT ![o][a] = role]
  BY DEF Access!OrgAppears, Access!MemberChanges, Access!Roles
<1>3. access_roles' \in [AccessOrgs -> [AccessAccounts -> Access!Roles \cup {None}]]
  BY <1>2 DEF Access!TypeOK
<1>4. \A x \in AccessOrgs, b \in AccessAccounts : access_roles'[x][b] # None => x \in access_orgs'
  <2> TAKE x \in AccessOrgs, b \in AccessAccounts
  <2>1. x = o \/ access_roles'[x][b] = access_roles[x][b]
    BY <1>2 DEF Access!TypeOK
  <2> QED
    BY <1>1, <2>1 DEF Access!TypeOK
<1>5. access_projects' \in [AccessProjects -> access_orgs' \cup {None, Access!Deleted}]
  BY <1>1 DEF Access!TypeOK
<1>6. Access!Existing' = Access!Existing
  BY <1>1 DEF Access!Existing
<1> QED
  BY <1>1, <1>3, <1>4, <1>5, <1>6 DEF Access!TypeOK

LEMMA SessionsTyped ==
  ASSUME Access!TypeOK,
         \/ \E x \in AccessSessions :
                Access!handleLogin(x) \/ Access!loginLegacy(x) \/ Access!revoke(x)
         \/ \E a \in AccessAccounts : Access!revokeAccount(a)
  PROVE  Access!TypeOK'
<1>1. UNCHANGED <<Access!rows, access_tokens>>
  BY DEF Access!handleLogin, Access!loginLegacy, Access!issueSession, Access!revoke,
     Access!revokeAccount
<1>2. access_sessions' \in [AccessSessions -> AccessAccounts \cup {AccessLegacy, None}]
  <2>1. ASSUME NEW x \in AccessSessions, NEW a \in AccessAccounts \cup {AccessLegacy},
               Access!issueSession(x, a)
        PROVE  access_sessions' \in [AccessSessions -> AccessAccounts \cup {AccessLegacy, None}]
    BY <2>1 DEF Access!issueSession, Access!TypeOK
  <2>2. ASSUME NEW x \in AccessSessions, Access!revoke(x)
        PROVE  access_sessions' \in [AccessSessions -> AccessAccounts \cup {AccessLegacy, None}]
    BY <2>2 DEF Access!revoke, Access!TypeOK
  <2>3. ASSUME NEW a \in AccessAccounts, Access!revokeAccount(a)
        PROVE  access_sessions' \in [AccessSessions -> AccessAccounts \cup {AccessLegacy, None}]
    BY <2>3 DEF Access!revokeAccount, Access!TypeOK
  <2> QED
    BY <2>1, <2>2, <2>3 DEF Access!handleLogin, Access!loginLegacy
<1> QED
  BY <1>1, <1>2 DEF Access!TypeOK, Access!rows, Access!Existing

LEMMA RevocationTyped ==
  ASSUME Access!TypeOK, NEW t \in AccessTokens, Access!RevokeApiToken(t)
  PROVE  Access!TypeOK'
<1>1. /\ UNCHANGED <<Access!rows, access_sessions>>
      /\ access_tokens' = [access_tokens EXCEPT ![t].live = FALSE]
      /\ access_tokens[t] # None
  BY DEF Access!RevokeApiToken
<1>2. [access_tokens[t] EXCEPT !.live = FALSE] \in Access!Token
  BY <1>1 DEF Access!TypeOK, Access!Token
<1>3. access_tokens' \in [AccessTokens -> Access!Token \cup {None}]
  BY <1>1, <1>2 DEF Access!TypeOK
<1> QED
  BY <1>1, <1>3 DEF Access!TypeOK, Access!rows, Access!Existing

(* A restart gives projects without an organization the only one there is.  *)
LEMMA RestartTyped ==
  ASSUME Access!Names, Access!TypeOK, Access!Restart
  PROVE  Access!TypeOK'
<1>1. /\ UNCHANGED <<access_orgs, access_attached, access_tokens>>
      /\ access_sessions' = [x \in AccessSessions |-> None]
      /\ Access!backfillProjectOrgs /\ Access!DetachHostedOperator
  BY DEF Access!Restart
<1>2. /\ access_projects' \in [AccessProjects -> access_orgs \cup {None, Access!Deleted}]
      /\ \A p \in AccessProjects : access_projects[p] # Access!Deleted =>
           access_projects'[p] # Access!Deleted
  <2>1. CASE Cardinality(access_orgs) # 1
    BY <1>1, <2>1, AccessCounts DEF Access!backfillProjectOrgs, Access!TypeOK
  <2>2. CASE Cardinality(access_orgs) = 1
    <3> DEFINE only == CHOOSE o \in access_orgs : TRUE
    <3>1. access_orgs # {}
      BY <2>2, FS_EmptySet
    <3>2. only \in access_orgs
      BY <3>1
    <3>3. only # Access!Deleted
      BY <3>2 DEF Access!TypeOK, Access!Names
    <3>4. access_projects' = [p \in AccessProjects |-> IF access_projects[p] = None THEN only
                                  ELSE access_projects[p]]
      BY <1>1, <2>2, AccessCounts DEF Access!backfillProjectOrgs
    <3> HIDE DEF only
    <3> QED
      BY <3>2, <3>3, <3>4 DEF Access!TypeOK
  <2> QED
    BY <2>1, <2>2
<1>3. Access!Existing \subseteq Access!Existing'
  BY <1>2 DEF Access!Existing
<1>4. /\ access_roles' \in [AccessOrgs -> [AccessAccounts -> Access!Roles \cup {None}]]
      /\ \A o \in AccessOrgs, a \in AccessAccounts : access_roles'[o][a] # None => o \in access_orgs
  BY <1>1 DEF Access!DetachHostedOperator, Access!TypeOK
<1>5. access_sessions' \in [AccessSessions -> AccessAccounts \cup {AccessLegacy, None}]
  BY <1>1
<1> QED
  BY <1>1, <1>2, <1>3, <1>4, <1>5 DEF Access!TypeOK

----------------------------------------------------------------------------
(* What changes around the requests.                                        *)

LEMMA RestartForgets ==
  ASSUME Access!Restart
  PROVE  AccessOK'
<1>1. /\ access_access' = [r \in AccessRequests |-> Access!Idle]
      /\ access_seen' = [r \in AccessRequests |-> {}]
  BY DEF Access!Restart
<1>2. ASSUME NEW r \in AccessRequests
      PROVE  /\ access_access'[r] \in Stages /\ Access!At(r, "idle")'
             /\ Past(access_access'[r], access_seen'[r])
  BY <1>1, PastOfIdle DEF Access!At
<1> HIDE DEF Access!Idle
<1> QED
  BY <1>1, <1>2 DEF AccessOK

LEMMA AroundOK ==
  ASSUME Access!Names, AccessInv, Access!Around
  PROVE  AccessInv'
<1>0. Access!TypeOK /\ AccessOK
  BY DEF AccessInv
<1>1. CASE \E o \in AccessOrgs, a \in AccessAccounts :
             \/ \E role \in Access!Roles \cup {None} : Access!MemberChanges(o, a, role)
             \/ Access!OrgAppears(o, a)
  <2>1. Access!TypeOK'
    BY <1>0, <1>1, MembersTyped
  <2>2. Access!Moved /\ UNCHANGED access_access
    BY <1>1 DEF Access!MemberChanges, Access!OrgAppears
  <2> QED
    BY <1>0, <2>1, <2>2, MovesAreSeen DEF AccessInv
<1>2. CASE \E p \in AccessProjects, c \in AccessConnectors : Access!AttachProjectConnector(p, c)
                                                 \/ Access!DetachProjectConnector(p, c)
  <2>1. Access!TypeOK'
    BY <1>0, <1>2, AttachmentTyped
  <2>2. Access!Moved /\ UNCHANGED access_access
    BY <1>2 DEF Access!AttachProjectConnector, Access!DetachProjectConnector
  <2> QED
    BY <1>0, <2>1, <2>2, MovesAreSeen DEF AccessInv
<1>3. CASE \E p \in AccessProjects : Access!DeleteProject(p)
  <2>1. Access!TypeOK'
    BY <1>0, <1>3, DeletionTyped
  <2>2. Access!Moved /\ UNCHANGED access_access
    BY <1>3 DEF Access!DeleteProject
  <2> QED
    BY <1>0, <2>1, <2>2, MovesAreSeen DEF AccessInv
<1>4. CASE \/ \E x \in AccessSessions :
                 Access!handleLogin(x) \/ Access!loginLegacy(x) \/ Access!revoke(x)
           \/ \E a \in AccessAccounts : Access!revokeAccount(a)
  <2>1. Access!TypeOK'
    BY <1>0, <1>4, SessionsTyped
  <2>2. Access!Moved /\ UNCHANGED access_access
    BY <1>4
    DEF Access!handleLogin, Access!loginLegacy, Access!issueSession, Access!revoke,
        Access!revokeAccount
  <2> QED
    BY <1>0, <2>1, <2>2, MovesAreSeen DEF AccessInv
<1>5. CASE \E t \in AccessTokens : Access!RevokeApiToken(t)
  <2>1. Access!TypeOK'
    BY <1>0, <1>5, RevocationTyped
  <2>2. Access!Moved /\ UNCHANGED access_access
    BY <1>5 DEF Access!RevokeApiToken
  <2> QED
    BY <1>0, <2>1, <2>2, MovesAreSeen DEF AccessInv
<1>6. CASE Access!Restart
  BY <1>0, <1>6, RestartTyped, RestartForgets DEF AccessInv
<1> QED
  BY <1>1, <1>2, <1>3, <1>4, <1>5, <1>6 DEF Access!Around

----------------------------------------------------------------------------
(* The theorems.                                                            *)

LEMMA InitOK ==
  ASSUME Access!Init
  PROVE  AccessInv
<1>1. /\ Access!TypeOK /\ access_access = [r \in AccessRequests |-> Access!Idle]
      /\ access_seen = [r \in AccessRequests |-> {}]
  BY DEF Access!Init, Access!Quiet
<1>2. ASSUME NEW r \in AccessRequests
      PROVE  /\ access_access[r] \in Stages /\ Access!At(r, "idle")
             /\ Past(access_access[r], access_seen[r])
  BY <1>1, PastOfIdle DEF Access!At
<1> HIDE DEF Access!Idle
<1> QED
  BY <1>1, <1>2 DEF AccessInv, AccessOK

LEMMA NextOK ==
  ASSUME Access!Names, Access!Routes, AccessInv, [Access!Next]_(Access!vars)
  PROVE  AccessInv'
<1>1. ASSUME NEW r \in AccessRequests, Access!Serve(r) PROVE AccessInv'
  BY <1>1, ServeOK, ServeTyped DEF AccessInv
<1>2. CASE Access!Around
  BY <1>2, AroundOK
<1>3. CASE UNCHANGED Access!vars
  <2>1. UNCHANGED <<Access!rows, access_sessions, access_tokens, access_access, access_seen>>
    BY <1>3 DEF Access!vars
  <2>2. Access!TypeOK'
    BY <2>1, TablesRest DEF AccessInv
  <2>3. AccessOK'
    BY <2>1 DEF AccessInv, AccessOK, SeesNow, Access!At, Access!rows
  <2> QED
    BY <2>2, <2>3 DEF AccessInv
<1> QED
  BY <1>1, <1>2, <1>3 DEF Access!Next

LEMMA AccessInvariant ==
  ASSUME Access!Names, Access!Routes
  PROVE  Access!Spec => []AccessInv
<1>1. Access!Init => AccessInv
  BY InitOK
<1>2. AccessInv /\ [Access!Next]_(Access!vars) => AccessInv'
  BY NextOK
<1> QED
  BY <1>1, <1>2, PTL DEF Access!Spec

(* Whatever requests, moves and restarts do, the tables keep their shape:   *)
(* no role without its organization, no attachment of a project that is     *)
(* gone, no project of an organization that is not there.                   *)
THEOREM AccessTyped == Access!Spec => []Access!TypeOK
<1> USE AccessAssumption
<1>1. AccessInv => Access!TypeOK
  BY DEF AccessInv
<1> QED
  BY <1>1, AccessInvariant, PTL

(* What an allowed request does, the gateways it goes on to and the         *)
(* machines a list shows are covered by what its account and its token held *)
(* while it ran, wherever members, machines and projects went meanwhile.    *)
THEOREM ActsCovered == Access!Spec => []ActsAreCovered
<1> USE AccessAssumption
<1>1. AccessInv => ActsAreCovered
  <2> SUFFICES ASSUME AccessInv, NEW r \in AccessRequests,
                      access_access[r].at \in {"act", "forward"}
               PROVE  LET ask == access_access[r].ask
                      IN  /\ Access!SecretStood(r)
                          /\ OnTarget(access_access[r], access_seen[r])
                          /\ Access!At(r, "forward") => PlacedWell(access_access[r], access_seen[r])
                          /\ "sees" \in DOMAIN access_access[r] =>
                               SeesWell(access_access[r], access_seen[r])
    BY DEF ActsAreCovered, Access!ActsAreCovered, OnTarget, PlacedWell, SeesWell, ReadCovered,
           CoveredBy, Held, ProjectIn, MachineIn,
           Access!Covered, Access!HeldIn, Access!ProjectWas, Access!MachineWas
  <2>1. AccessOK /\ access_access[r] \in Allowed
    BY StageOf DEF AccessInv, Allowed, Access!At
  <2>2. Past(access_access[r], access_seen[r])
    BY <2>1, StageOf
  <2>3. Access!SecretStood(r) /\ OnTarget(access_access[r], access_seen[r])
    BY <2>1, <2>2 DEF Past, Stood, Access!SecretStood
  <2>4. Access!At(r, "forward") => PlacedWell(access_access[r], access_seen[r])
    BY <2>1, <2>2, StageOf DEF Past
  <2>5. "sees" \in DOMAIN access_access[r] => SeesWell(access_access[r], access_seen[r])
    <3>1. access_access[r] \in Handling => "sees" \notin DOMAIN access_access[r]
      BY DEF Handling
    <3>2. access_access[r] \in Forwarding => "sees" \notin DOMAIN access_access[r]
      BY DEF Forwarding
    <3> QED
      BY <2>1, <2>2, <3>1, <3>2 DEF Past, Allowed
  <2> QED
    BY <2>3, <2>4, <2>5
<1> QED
  BY <1>1, AccessInvariant, PTL

(* A token holds what its minter held while asking, where the minter held   *)
(* it, and only an operator mints for the installation.                     *)
THEOREM WithinMinter == Access!Spec => []TokensWithinMinter
<1> USE AccessAssumption
<1>1. AccessInv => TokensWithinMinter
  <2> SUFFICES ASSUME AccessInv, NEW r \in AccessRequests, Access!At(r, "mint")
               PROVE  /\ MintedWell(access_access[r], access_seen[r])
                      /\ access_access[r].grant.installation <=> access_access[r].grant.org = None
    BY DEF TokensWithinMinter, Access!TokensWithinMinter, MintedWell, Held,
           Access!HeldIn, ProjectIn, Access!ProjectWas
  <2>1. access_access[r] \in Minted /\ Past(access_access[r], access_seen[r])
    BY StageOf DEF AccessInv
  <2>2. access_access[r].grant \in Access!Grant
    BY <2>1 DEF Minted
  <2> QED
    BY <2>1, <2>2, GrantShape DEF Past, Access!Names
<1> QED
  BY <1>1, AccessInvariant, PTL

(* What a credential lists is what it can be routed to, in every state.     *)
THEOREM Routable == Access!Spec => []ListedIsRoutable
<1> USE AccessAssumption
<1>1. AccessInv => ListedIsRoutable
  BY ListsMatchRoutes DEF ListedIsRoutable, Access!ListedIsRoutable, AccessInv
<1> QED
  BY <1>1, AccessInvariant, PTL

==============================================================================
