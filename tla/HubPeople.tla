------------------------------ MODULE HubPeople ------------------------------
(***************************************************************************)
(* Who may be where on a hub: the first claim, registration, roles in an   *)
(* organization, invitations, seats of the plan and password resets        *)
(* (internal/hub/api.go, claim.go, admin.go, invite*.go, org_admin.go,     *)
(* password*.go, internal/authz/membership.go).                            *)
(*                                                                         *)
(* A handler that reads and then writes is several steps, and others run   *)
(* in between.  So is a transaction that decides by what it read: on       *)
(* Postgres, where every hosted hub runs (offering.go:54), it sees what    *)
(* others committed before each of its statements and nobody sees it       *)
(* before its commit (READ COMMITTED); on SQLite, with its one connection  *)
(* (store/store.go:42), nobody else gets to the store meanwhile.  Every    *)
(* account holder may present a session; passwords appear only as "which   *)
(* reset set it", because nothing here compares them.                      *)
(***************************************************************************)
EXTENDS Authz

CONSTANTS
  People,            \* addresses, each with an account or without one
  Orgs,              \* ids an organization may get
  Invites,           \* ids an invitation may get
  Resets,            \* ids a password reset may get
  Plans,             \* plans of the catalogue
  Free,              \* the plan an organization starts on
  Seats,             \* [Plans -> people of the plan, 0 for no limit]
  Requests,          \* 1..n, the requests served at the same time
  MaxCalls           \* bound: requests of one behaviour

ASSUME FewPeople == IsFiniteSet(People) /\ IsFiniteSet(Requests)
ASSUME Catalogue == Free \in Plans /\ Seats \in [Plans -> Nat] /\ MaxCalls \in Nat

(* A reset and an invitation are told apart, and from a chosen password.    *)
ASSUME SecretIds == Invites \cap Resets = {} /\ "chosen" \notin Resets

VARIABLES
  offering,          \* "hosted" or "selfhost", for good
  database,          \* "postgres" or "sqlite", for good
  accounts,          \* [People -> account row]
  orgs,              \* [Orgs -> organization row]
  roles,             \* [Orgs -> [People -> role]], the memberships
  invites,           \* [Invites -> invitation row]
  resets,            \* [Resets -> reset row]
  claimToken,        \* whether the bootstrap token is expected (memory)
  request,           \* [Requests -> a request between two of its steps]
  uses,              \* [Invites \cup Resets -> times it took effect] (history)
  calls              \* requests so far (bound only)

tables == <<accounts, orgs, roles, invites, resets>>
vars == <<offering, database, tables, claimToken, request, uses, calls>>

----------------------------------------------------------------------------
Account == [admin : BOOLEAN, password : {"chosen"} \cup Resets]
OrgRow == [plan : Plans, mode : {"standard", "test"}]
Invitation == [org : Orgs, guest : People, role : Roles, live : BOOLEAN, expired : BOOLEAN]
Reset == [account : People, live : BOOLEAN, expired : BOOLEAN]

ASSUME NoRow == None \notin Account \cup OrgRow \cup Roles \cup Invitation \cup Reset

Members(o) == {p \in People : roles[o][p] # None}
Owners(o) == {p \in People : roles[o][p] = "owner"}
Claimed == \E p \in People : accounts[p] # None
PlatformAdmin(p) == accounts[p] # None /\ accounts[p].admin

(* A new row takes an id nobody had; which one says nothing.                *)
IsNext(x, table) == table[x] = None /\ x = CHOOSE y \in DOMAIN table : table[y] = None

Idle == [at |-> "idle"]

AllowsAnother(count, limit) == limit = 0 \/ count < limit

(* Self-host and a test organization have no walls.                         *)
PeopleLimit(o) ==
  IF offering = "selfhost" \/ orgs[o].mode = "test" THEN 0 ELSE Seats[orgs[o].plan]

HasSeat(o) == AllowsAnother(Cardinality(Members(o)), PeopleLimit(o))

----------------------------------------------------------------------------
(* The steps of a request.                                                  *)

Accepted == calls < MaxCalls /\ calls' = calls + 1

(* A request takes the first free place: which one says nothing.            *)
FirstFree(r) == request[r] = Idle /\ \A s \in Requests : s < r => request[s] # Idle

Begin(r) ==
  /\ Accepted
  /\ FirstFree(r)
  /\ UNCHANGED <<offering, database, tables, claimToken, uses>>

At(r, stage) == request[r].at = stage

(* A request whose transaction has read and not committed.  What it writes  *)
(* is there from its commit on, which is one step with its last statements: *)
(* what others commit between those might as well be committed after them.  *)
InTransaction(r) == request[r].at \in {"join", "seated", "new password", "new reset", "new invite"}

(* SQLite's one connection is with the transaction that has begun.          *)
StoreFree(others) == database = "sqlite" => \A s \in others : ~InTransaction(s)

Done(r) == request' = [request EXCEPT ![r] = Idle]

Refuse(r) == Done(r) /\ UNCHANGED <<offering, database, tables, claimToken, uses, calls>>

Go(r, next) ==
  /\ request' = [request EXCEPT ![r] = next]
  /\ UNCHANGED <<offering, database, tables, claimToken, uses, calls>>

----------------------------------------------------------------------------
(* The first claim.                                                         *)

(* Slip: the token is retired as soon as somebody presents it.              *)
handleSetupConsumingFirst(r, p) ==
  /\ ~Claimed /\ claimToken
  /\ Accepted /\ FirstFree(r)
  /\ request' = [request EXCEPT ![r] = [at |-> "claim", person |-> p]]
  /\ claimToken' = FALSE
  /\ UNCHANGED <<offering, database, tables, uses>>

(* auth.Claim: the hub is unclaimed and the token is the expected one.      *)
handleSetup(r, p) ==
  /\ ~Claimed /\ claimToken
  /\ Begin(r)
  /\ request' = [request EXCEPT ![r] = [at |-> "claim", person |-> p]]

(* An account row, and for a founder the organization and the ownership.    *)
InsertFounder(p, o, admin) ==
  /\ accounts' = [accounts EXCEPT ![p] = [admin |-> admin, password |-> "chosen"]]
  /\ orgs' = [orgs EXCEPT ![o] = [plan |-> Free, mode |-> "standard"]]
  /\ roles' = [roles EXCEPT ![o][p] = "owner"]

(* Slip: the flag has no unique index.                                      *)
ClaimConflictsByEmail(r) == accounts[request[r].person] # None

(* The unique indexes on is_admin and on the address.                       *)
ClaimConflicts(r) ==
  \/ \E p \in People : PlatformAdmin(p)
  \/ accounts[request[r].person] # None

InsertPlatformAdmin(r) ==
  LET p == request[r].person
  IN  /\ At(r, "claim") /\ ~ClaimConflicts(r)
      /\ \/ offering = "hosted"
            /\ accounts' = [accounts EXCEPT ![p] = [admin |-> TRUE, password |-> "chosen"]]
            /\ UNCHANGED <<orgs, roles>>
         \/ offering = "selfhost"
            /\ \E o \in Orgs : IsNext(o, orgs) /\ InsertFounder(p, o, TRUE)
      /\ request' = [request EXCEPT ![r] = [at |-> "consume"]]
      /\ UNCHANGED <<offering, database, invites, resets, claimToken, uses, calls>>

(* A conflict, or a store that fails: the token stays expected.             *)
ClaimFails(r) == At(r, "claim") /\ Refuse(r)

ConsumeClaim(r) ==
  /\ At(r, "consume")
  /\ claimToken' = FALSE
  /\ Done(r)
  /\ UNCHANGED <<offering, database, tables, uses, calls>>

(* One transaction; the unique address is the arbiter.  A hub that is       *)
(* claimed stays claimed, so the check before it cannot grow stale.         *)
handleRegister(p, o) ==
  /\ Accepted
  /\ offering = "hosted" /\ Claimed
  /\ accounts[p] = None /\ IsNext(o, orgs)
  /\ InsertFounder(p, o, FALSE)
  /\ UNCHANGED <<offering, database, invites, resets, claimToken, request, uses>>

----------------------------------------------------------------------------
(* Roles.  The credential is resolved first, then the roster is read and    *)
(* the rule applied, then the row is written by key alone.                  *)

Mine(q, o) == roles[o][q]
CanAdmin(role) == rank(role) >= rank("admin")

AuthorizeRoleChange(mine, o, target, role) ==
  LET current == roles[o][target]
  IN  /\ CanAdmin(mine)
      /\ current # None
      /\ current # role =>
           /\ (current = "owner" \/ role = "owner") => mine = "owner"
           /\ current = "owner" => Cardinality(Owners(o)) # 1

AuthorizeRemoval(q, mine, o, target) ==
  LET current == roles[o][target]
  IN  /\ q = target \/ CanAdmin(mine)
      /\ current # None
      /\ current = "owner" =>
           /\ q = target \/ mine = "owner"
           /\ Cardinality(Owners(o)) # 1

AuthorizeInvite(mine, role) == CanAdmin(mine) /\ (role = "owner" => mine = "owner")

(* credentialOf: the requester's role in the organization, as of now.       *)
credentialOf(r, q, o, act) ==
  /\ accounts[q] # None /\ orgs[o] # None
  /\ Begin(r)
  /\ request' = [request EXCEPT ![r] = act]

(* Who may not administer is refused whatever the roster says; of such      *)
(* requests only the ones that may go on are followed.                      *)
handleSetOrgMemberRole(r, q, o, target, role) ==
  CanAdmin(Mine(q, o)) /\
  credentialOf(r, q, o, [at |-> "set role", org |-> o, mine |-> Mine(q, o),
                         target |-> target, role |-> role])

AuthorizeSetRole(r) ==
  LET a == request[r]
  IN  /\ At(r, "set role")
      /\ IF AuthorizeRoleChange(a.mine, a.org, a.target, a.role)
           THEN Go(r, [a EXCEPT !.at = "write role"])
           ELSE Refuse(r)

(* An UPDATE of a row that is gone changes nothing.                         *)
SetOrgMemberRole(r) ==
  LET a == request[r]
  IN  /\ At(r, "write role")
      /\ roles' = IF roles[a.org][a.target] = None THEN roles
                  ELSE [roles EXCEPT ![a.org][a.target] = a.role]
      /\ Done(r)
      /\ UNCHANGED <<offering, database, accounts, orgs, invites, resets, claimToken, uses, calls>>

handleRemoveOrgMember(r, q, o, target) ==
  (q = target \/ CanAdmin(Mine(q, o))) /\
  credentialOf(r, q, o, [at |-> "remove", org |-> o, who |-> q, mine |-> Mine(q, o),
                         target |-> target])

AuthorizeRemove(r) ==
  LET a == request[r]
  IN  /\ At(r, "remove")
      /\ IF AuthorizeRemoval(a.who, a.mine, a.org, a.target)
           THEN Go(r, [a EXCEPT !.at = "write removal"])
           ELSE Refuse(r)

RemoveOrgMember(r) ==
  LET a == request[r]
  IN  /\ At(r, "write removal")
      /\ roles' = [roles EXCEPT ![a.org][a.target] = None]
      /\ Done(r)
      /\ UNCHANGED <<offering, database, accounts, orgs, invites, resets, claimToken, uses, calls>>

----------------------------------------------------------------------------
(* Invitations.                                                             *)

Redeemable(table, x) == table[x] # None /\ table[x].live /\ ~table[x].expired

Retired(table, S) == [x \in DOMAIN table |->
                        IF x \in S THEN [table[x] EXCEPT !.live = FALSE] ELSE table[x]]

handleCreateOrgInvite(r, q, o, guest, role) ==
  /\ AuthorizeInvite(Mine(q, o), role)
  /\ credentialOf(r, q, o, [at |-> "invite", org |-> o, guest |-> guest, role |-> role])

(* orgHasEmail and refuseAnotherPerson, before the transaction.             *)
CheckInvite(r) ==
  LET a == request[r]
  IN  /\ At(r, "invite")
      /\ IF roles[a.org][a.guest] = None /\ HasSeat(a.org)
           THEN Go(r, [a EXCEPT !.at = "write invite"])
           ELSE Refuse(r)

(* The invitations of one address that a new one retires: the UPDATE of the *)
(* transaction finds those that are committed.                              *)
RetireSent(r) ==
  LET a == request[r]
  IN  /\ At(r, "write invite")
      /\ Go(r, [at |-> "new invite", org |-> a.org, guest |-> a.guest, role |-> a.role,
                retire |-> {j \in Invites : invites[j] # None /\ invites[j].live
                              /\ invites[j].org = a.org /\ invites[j].guest = a.guest}])

CreateOrgInvite(r, i) ==
  LET a == request[r]
  IN  /\ At(r, "new invite") /\ IsNext(i, invites)
      /\ invites' = [Retired(invites, a.retire) EXCEPT ![i] =
           [org |-> a.org, guest |-> a.guest, role |-> a.role, live |-> TRUE, expired |-> FALSE]]
      /\ Done(r)
      /\ UNCHANGED <<offering, database, accounts, orgs, roles, resets, claimToken, uses, calls>>

handleRevokeOrgInvite(q, i) ==
  /\ Accepted
  /\ invites[i] # None /\ CanAdmin(Mine(q, invites[i].org))
  /\ invites' = Retired(invites, {i})
  /\ UNCHANGED <<offering, database, accounts, orgs, roles, resets, claimToken, request, uses>>

(* Slip: whoever redeems is taken for an account holder.                    *)
handleInviteRedeemKnown(r, i, p) ==
  /\ Redeemable(invites, i)
  /\ Begin(r)
  /\ request' = [request EXCEPT ![r] =
       [at |-> "redeem", invite |-> i, person |-> p, known |-> TRUE]]

(* PeekInvite and AccountByEmail; the holder of the secret says who joins.  *)
(* The clock is read here once, for the transaction too.                    *)
handleInviteRedeem(r, i, p) ==
  /\ Redeemable(invites, i)
  /\ Begin(r)
  /\ request' = [request EXCEPT ![r] =
       [at |-> "redeem", invite |-> i, person |-> p, known |-> accounts[p] # None]]

(* The transaction of the acceptance looks again: a secret spent meanwhile  *)
(* is refused.                                                              *)
FindInvite(r) ==
  /\ At(r, "redeem")
  /\ IF invites[request[r].invite].live THEN Go(r, [request[r] EXCEPT !.at = "join"])
     ELSE Refuse(r)

(* Who the transaction counted, and against which limit; a member is not    *)
(* counted again.                                                           *)
Seated(r, o) ==
  LET a == request[r]
      joins == roles[o][a.person] = None
  IN  [at |-> "seated", invite |-> a.invite, person |-> a.person, known |-> a.known,
       joins |-> joins, limit |-> IF joins THEN PeopleLimit(o) ELSE 0, among |-> Members(o)]

(* Slip: seats are counted when the invitation is sent, not again here.     *)
CountPeopleNot(r) ==
  At(r, "join") /\ Go(r, Seated(r, invites[request[r].invite].org))

(* No seat left for somebody who is not a member: refuseAnotherPersonTx.    *)
CountPeople(r) ==
  LET o == invites[request[r].invite].org
  IN  /\ At(r, "join")
      /\ IF roles[o][request[r].person] # None \/ HasSeat(o) THEN Go(r, Seated(r, o))
         ELSE Refuse(r)

(* The address, or the membership, was inserted by somebody else meanwhile: *)
(* both are unique.                                                         *)
JoinConflicts(r) ==
  LET a == request[r]
  IN  \/ ~a.known /\ accounts[a.person] # None
      \/ a.joins /\ roles[invites[a.invite].org][a.person] # None

(* Whether the invitation is still live, the last UPDATE does not ask.      *)
AcceptOrgInvite(r) ==
  LET a == request[r]
      i == invites[a.invite]
  IN  /\ At(r, "seated") /\ ~JoinConflicts(r)
      /\ accounts' = IF a.known THEN accounts
                     ELSE [accounts EXCEPT ![a.person] = [admin |-> FALSE, password |-> "chosen"]]
      /\ roles' = IF a.joins THEN [roles EXCEPT ![i.org][a.person] = i.role] ELSE roles
      /\ invites' = Retired(invites, {a.invite})
      /\ uses' = [uses EXCEPT ![a.invite] = @ + 1]
      /\ Done(r)
      /\ UNCHANGED <<offering, database, orgs, resets, claimToken, calls>>

(* A transaction that conflicts, or whose store fails, leaves nothing.      *)
Rollback(r) == InTransaction(r) /\ Refuse(r)

----------------------------------------------------------------------------
(* The operator's levers, and the payment provider's: a plan may shrink     *)
(* below the people it already holds.                                       *)

handleSetOrgPlan(o, plan) ==
  /\ Accepted
  /\ orgs[o] # None
  /\ orgs' = [orgs EXCEPT ![o].plan = plan]
  /\ UNCHANGED <<offering, database, accounts, roles, invites, resets, claimToken, request, uses>>

handleSetOrgMode(o, mode) ==
  /\ Accepted
  /\ orgs[o] # None
  /\ orgs' = [orgs EXCEPT ![o].mode = mode]
  /\ UNCHANGED <<offering, database, accounts, roles, invites, resets, claimToken, request, uses>>

----------------------------------------------------------------------------
(* Password resets.                                                         *)

ResetsOf(p) == {x \in Resets : resets[x] # None /\ resets[x].account = p /\ resets[x].live}

(* Accounts are never deleted, so the lookup before the transaction holds.  *)
handlePasswordForgot(r, p) ==
  /\ accounts[p] # None
  /\ Begin(r)
  /\ request' = [request EXCEPT ![r] = [at |-> "forgot", person |-> p]]

(* The UPDATE retires what is committed; the INSERT and the commit follow.  *)
RetireResets(r) ==
  LET p == request[r].person
  IN  At(r, "forgot") /\ Go(r, [at |-> "new reset", person |-> p, retire |-> ResetsOf(p)])

CreatePasswordReset(r, x) ==
  LET a == request[r]
  IN  /\ At(r, "new reset") /\ IsNext(x, resets)
      /\ resets' = [Retired(resets, a.retire) EXCEPT ![x] =
           [account |-> a.person, live |-> TRUE, expired |-> FALSE]]
      /\ Done(r)
      /\ UNCHANGED <<offering, database, accounts, orgs, roles, invites, claimToken, uses, calls>>

handlePasswordReset(r, x) ==
  /\ Redeemable(resets, x)
  /\ Begin(r)
  /\ request' = [request EXCEPT ![r] = [at |-> "reset", secret |-> x]]

(* Slip: the transaction does not look again.                               *)
StillRedeemable(r) == resets[request[r].secret] # None

(* The transaction looks again, with the clock of the first look.           *)
SecretStands(r) == resets[request[r].secret].live

FindReset(r) ==
  /\ At(r, "reset")
  /\ IF SecretStands(r) THEN Go(r, [request[r] EXCEPT !.at = "new password"]) ELSE Refuse(r)

ResetAccountPassword(r) ==
  LET x == request[r].secret
      p == resets[x].account
  IN  /\ At(r, "new password")
      /\ accounts' = [accounts EXCEPT ![p].password = x]
      /\ resets' = Retired(resets, ResetsOf(p))
      /\ uses' = [uses EXCEPT ![x] = @ + 1]
      /\ Done(r)
      /\ UNCHANGED <<offering, database, orgs, roles, invites, claimToken, calls>>

----------------------------------------------------------------------------
(* Time, and the hub's process.                                             *)

Expire ==
  /\ \/ \E i \in Invites : /\ Redeemable(invites, i)
                           /\ invites' = [invites EXCEPT ![i].expired = TRUE]
                           /\ UNCHANGED resets
     \/ \E x \in Resets : /\ Redeemable(resets, x)
                          /\ resets' = [resets EXCEPT ![x].expired = TRUE]
                          /\ UNCHANGED invites
  /\ UNCHANGED <<offering, database, accounts, orgs, roles, claimToken, request, uses, calls>>

(* The hub stops and starts: requests and the token of the old process are  *)
(* gone, an unclaimed hub mints a new token (newBootstrapClaim), and a      *)
(* hosted hub takes its operator out of every organization                  *)
(* (DetachHostedOperator).                                                  *)
Restart ==
  /\ request' = [r \in Requests |-> Idle]
  /\ claimToken' = ~Claimed
  /\ roles' = IF offering = "selfhost" THEN roles
              ELSE [o \in Orgs |-> [p \in People |->
                      IF PlatformAdmin(p) THEN None ELSE roles[o][p]]]
  /\ UNCHANGED <<offering, database, accounts, orgs, invites, resets, uses, calls>>

----------------------------------------------------------------------------
Claims(r) ==
  \/ \E p \in People : handleSetup(r, p)
  \/ InsertPlatformAdmin(r)
  \/ ClaimFails(r)
  \/ ConsumeClaim(r)

Memberships(r) ==
  \/ \E q \in People, o \in Orgs, p \in People :
       \/ \E role \in Roles : handleSetOrgMemberRole(r, q, o, p, role)
       \/ handleRemoveOrgMember(r, q, o, p)
       \/ \E role \in Roles : handleCreateOrgInvite(r, q, o, p, role)
  \/ AuthorizeSetRole(r) \/ SetOrgMemberRole(r)
  \/ AuthorizeRemove(r) \/ RemoveOrgMember(r)
  \/ CheckInvite(r)
  \/ RetireSent(r)
  \/ \E i \in Invites : CreateOrgInvite(r, i)

Secrets(r) ==
  \/ \E i \in Invites, p \in People : handleInviteRedeem(r, i, p)
  \/ FindInvite(r) \/ CountPeople(r)
  \/ AcceptOrgInvite(r) \/ Rollback(r)
  \/ \E p \in People : handlePasswordForgot(r, p)
  \/ RetireResets(r)
  \/ \E x \in Resets : CreatePasswordReset(r, x)
  \/ \E x \in Resets : handlePasswordReset(r, x)
  \/ FindReset(r) \/ ResetAccountPassword(r)

AtOnce ==
  \/ \E p \in People, o \in Orgs : handleRegister(p, o)
  \/ \E q \in People, i \in Invites : handleRevokeOrgInvite(q, i)
  \/ \E o \in Orgs, plan \in Plans : handleSetOrgPlan(o, plan)
  \/ \E o \in Orgs, mode \in {"standard", "test"} : handleSetOrgMode(o, mode)

Next ==
  \/ \E r \in Requests : StoreFree(Requests \ {r}) /\ (Claims(r) \/ Memberships(r) \/ Secrets(r))
  \/ StoreFree(Requests) /\ AtOnce
  \/ Expire
  \/ Restart

(* A fresh hub, started: nobody has claimed it.                             *)
Fresh ==
  /\ accounts = [p \in People |-> None]
  /\ orgs = [o \in Orgs |-> None]
  /\ roles = [o \in Orgs |-> [p \in People |-> None]]
  /\ invites = [i \in Invites |-> None]
  /\ resets = [x \in Resets |-> None]
  /\ claimToken = TRUE

Quiet ==
  /\ request = [r \in Requests |-> Idle]
  /\ uses = [x \in Invites \cup Resets |-> 0]
  /\ calls = 0

(* A hosted hub does not start on SQLite (RequireStart).                    *)
Offered ==
  /\ offering \in {"hosted", "selfhost"} /\ database \in {"postgres", "sqlite"}
  /\ offering = "hosted" => database = "postgres"

Init == Offered /\ Fresh /\ Quiet

Spec == Init /\ [][Next]_vars

----------------------------------------------------------------------------
(* Properties.                                                              *)

TypeOK ==
  /\ accounts \in [People -> Account \cup {None}]
  /\ orgs \in [Orgs -> OrgRow \cup {None}]
  /\ roles \in [Orgs -> [People -> Roles \cup {None}]]
  /\ invites \in [Invites -> Invitation \cup {None}]
  /\ \A i \in Invites : invites[i] # None => orgs[invites[i].org] # None
  /\ resets \in [Resets -> Reset \cup {None}]
  /\ \A x \in Resets : resets[x] # None => accounts[resets[x].account] # None
  /\ \A o \in Orgs, p \in People : roles[o][p] # None => orgs[o] # None /\ accounts[p] # None
  /\ claimToken \in BOOLEAN /\ calls \in 0..MaxCalls

(* Whoever claims first is the only platform admin, however many claims got *)
(* past the check (ClaimHub, store.go:1997: "at most one platform admin").  *)
AtMostOneAdmin == Cardinality({p \in People : PlatformAdmin(p)}) <= 1

(* The bootstrap token is expected exactly while the hub has no account,    *)
(* but for the moment between the claim's commit and consume(): a failed    *)
(* claim leaves the hub claimable, a claimed hub has no token left          *)
(* (claim.go).                                                              *)
ClaimTokenFollowsClaim ==
  IF ~Claimed THEN claimToken
  ELSE claimToken => \E r \in Requests : At(r, "consume")

(* A secret that took effect is spent for whoever looks from then on, and   *)
(* no password is one a live reset set.  On SQLite it takes effect once and *)
(* an account has one live reset; on Postgres only requests that looked     *)
(* before the first commit get by, each with its own use of the secret      *)
(* (AcceptOrgInvite, ResetAccountPassword, CreatePasswordReset).            *)
SecretsWorkOnce ==
  /\ \A x \in Invites : uses[x] > 0 => ~invites[x].live
  /\ \A x \in Resets : uses[x] > 0 => ~resets[x].live
  /\ \A x \in Invites \cup Resets :
       uses[x] <= IF database = "sqlite" THEN 1 ELSE Cardinality(Requests)
  /\ \A p \in People :
       /\ database = "sqlite" => Cardinality(ResetsOf(p)) <= 1
       /\ accounts[p] # None => accounts[p].password \notin ResetsOf(p)

(* Nobody joins a full organization on a hosted hub by an invitation sent   *)
(* when there was a seat: whoever joins was counted against the limit, and  *)
(* goes beyond it only beside those who joined since that count, which on   *)
(* Postgres the transaction does not keep out (refuseAnotherPersonTx).      *)
SeatsHold ==
  [][\A o \in Orgs :
       (offering = "hosted" /\ orgs[o] # None /\ Members(o)' \ Members(o) # {}) =>
         \E r \in Requests :
           /\ At(r, "seated") /\ invites[request[r].invite].org = o
           /\ request[r].limit # 0 =>
                Cardinality(Members(o)') <=
                  request[r].limit + Cardinality(Members(o) \ request[r].among)]_vars

(* "An organization must keep at least one owner" (authz.ErrLastOwner).     *)
EveryOrgKeepsAnOwner == \A o \in Orgs : orgs[o] # None => Owners(o) # {}

=============================================================================
