-------------------------------- MODULE Authz --------------------------------
(***************************************************************************)
(* The rules of internal/authz: what a role permits, what a token permits, *)
(* and the intersection of the two.  Pure operators: they read the         *)
(* requester and the grant the hub resolved at its edge, and nothing else. *)
(*                                                                         *)
(* A requester is [platform, unpartitioned, roles], roles giving the role  *)
(* in each organization or None.  A grant is None for a browser session,   *)
(* and [installation, org, project, scopes] for a token.                   *)
(***************************************************************************)
EXTENDS Naturals, FiniteSets

CONSTANT None      \* no role, no organization, no project, no grant

Roles == {"member", "admin", "owner"}

rank(role) == CASE role = "owner" -> 3 [] role = "admin" -> 2 [] role = "member" -> 1
                [] OTHER -> 0

atLeast(role, least) == rank(role) # 0 /\ rank(role) >= rank(least)

----------------------------------------------------------------------------
(* The catalogue: what needs which role inside an organization, and what    *)
(* operates the installation itself.                                        *)

MemberCapabilities ==
  {"read:hub.org", "read:hub.project", "read:fleet.connector", "exec:fleet.connector",
   "read:fleet.terminal", "attach:fleet.terminal", "read:fleet.file", "write:fleet.file",
   "read:project.task", "create:project.task", "read:hub.template", "read:hub.preset",
   "read:hub.event"}

AdminCapabilities ==
  {"admin:hub.org", "admin:hub.staff", "create:hub.project", "delete:hub.project",
   "admin:hub.project", "create:fleet.connector", "admin:fleet.connector",
   "admin:hub.preset"}

OwnerCapabilities == {"delete:hub.org"}

GrantableScopes == MemberCapabilities \cup AdminCapabilities \cup OwnerCapabilities

orgMinimum(c) == CASE c \in OwnerCapabilities -> "owner" [] c \in AdminCapabilities -> "admin"
                   [] OTHER -> "member"

installationGrantable ==
  {"admin:hub.org", "admin:hub.staff", "admin:hub.skill", "admin:hub.model", "read:hub.org",
   "read:fleet.box", "admin:fleet.box"}

installation ==
  installationGrantable \cup {"admin:hub.account", "read:hub.update", "admin:hub.update"}

----------------------------------------------------------------------------
RequesterCan(a, c, org) ==
  \/ a.unpartitioned /\ a.platform
  \/ org = None /\ a.platform /\ c \in installation
  \/ org # None /\ c \in GrantableScopes /\ atLeast(a.roles[org], orgMinimum(c))

(* The boundary of a grant: the installation and nothing in it, or one      *)
(* organization, or one project of it.                                      *)
Contains(g, org, project) ==
  IF g.installation THEN org = None /\ project = None
  ELSE org # None /\ g.org = org /\ g.project \in {None, project}

allows(g, c, org, project) ==
  /\ c \in g.scopes
  /\ g.installation => c \in installationGrantable
  /\ Contains(g, org, project)

(* Slip: a token carries its own authority once it is minted.               *)
CredentialCanUnion(cred, c, org, project) ==
  IF cred.grant = None THEN RequesterCan(cred.requester, c, org)
  ELSE allows(cred.grant, c, org, project)

(* Role and token both: a token never does more than its account may.       *)
CredentialCan(cred, c, org, project) ==
  /\ RequesterCan(cred.requester, c, org)
  /\ cred.grant # None => allows(cred.grant, c, org, project)

(* The only organization of a requester, None for none or several.          *)
SoleOrg(a) ==
  LET mine == {o \in DOMAIN a.roles : a.roles[o] # None}
  IN  IF Cardinality(mine) = 1 THEN CHOOSE o \in mine : TRUE ELSE None

=============================================================================
