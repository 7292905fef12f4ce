-------------------------- MODULE HubPeople_proofs --------------------------
(***************************************************************************)
(* For any number of people, organizations, secrets and requests served at *)
(* once: one admin, a bootstrap token that follows the claim, secrets that *)
(* are spent by their use, and walls that hold, on either database.        *)
(***************************************************************************)
EXTENDS HubPeople, FiniteSetTheorems, TLAPS

----------------------------------------------------------------------------
(* The inductive invariant.                                                 *)

Role == Roles \cup {None}

Request ==
  [at : {"idle", "consume"}]
  \cup [at : {"claim"}, person : People]
  \cup [at : {"set role", "write role"}, org : Orgs, mine : Role, target : People, role : Roles]
  \cup [at : {"remove", "write removal"}, org : Orgs, who : People, mine : Role, target : People]
  \cup [at : {"invite", "write invite"}, org : Orgs, guest : People, role : Roles]
  \cup [at : {"new invite"}, org : Orgs, guest : People, role : Roles, retire : SUBSET Invites]
  \cup [at : {"redeem", "join"}, invite : Invites, person : People, known : BOOLEAN]
  \cup [at : {"seated"}, invite : Invites, person : People, known : BOOLEAN, joins : BOOLEAN,
        limit : Nat, among : SUBSET People]
  \cup [at : {"forgot"}, person : People]
  \cup [at : {"new reset"}, person : People, retire : SUBSET Resets]
  \cup [at : {"reset", "new password"}, secret : Resets]

(* What a request found when it looked is still there when it writes: rows  *)
(* change, none is taken away.  And who joins was counted below the limit.  *)
Holds(q) ==
  /\ q.at = "consume" => Claimed
  /\ q.at \in {"invite", "write invite", "new invite"} => orgs[q.org] # None
  /\ q.at = "new invite" => \A i \in q.retire : invites[i] # None
  /\ q.at \in {"redeem", "join", "seated"} =>
       invites[q.invite] # None /\ (q.known => accounts[q.person] # None)
  /\ q.at = "seated" => (q.limit # 0 => q.joins /\ Cardinality(q.among) < q.limit)
  /\ q.at \in {"forgot", "new reset"} => accounts[q.person] # None
  /\ q.at = "new reset" => \A x \in q.retire : resets[x] # None
  /\ q.at \in {"reset", "new password"} => resets[q.secret] # None

OneAdmin == \A p, q \in People : PlatformAdmin(p) /\ PlatformAdmin(q) => p = q

(* There is something to be in only once somebody claimed the hub.          *)
OrgsAreClaimed == \A o \in Orgs : orgs[o] # None => Claimed

(* A secret that took effect is spent.                                      *)
Unspent(x) ==
  \/ x \in Invites /\ (invites[x] = None \/ invites[x].live)
  \/ x \in Resets /\ (resets[x] = None \/ resets[x].live)

UsesOK ==
  /\ uses \in [Invites \cup Resets -> Nat]
  /\ \A x \in Invites \cup Resets : Unspent(x) => uses[x] = 0

(* The reset an account signs in by is spent.                               *)
ResetsOK ==
  \A p \in People : (accounts[p] # None /\ accounts[p].password \in Resets) =>
    LET x == accounts[p].password IN resets[x] # None /\ ~resets[x].live

RequestsOK == request \in [Requests -> Request] /\ \A r \in Requests : Holds(request[r])

IInv ==
  /\ TypeOK
  /\ offering \in {"hosted", "selfhost"}
  /\ OneAdmin
  /\ OrgsAreClaimed
  /\ ClaimTokenFollowsClaim
  /\ UsesOK
  /\ ResetsOK
  /\ RequestsOK

----------------------------------------------------------------------------
(* Rows.                                                                    *)

LEMMA RetiredInvites ==
  ASSUME NEW table \in [Invites -> Invitation \cup {None}],
         NEW S, \A i \in Invites : i \in S => table[i] # None
  PROVE  /\ Retired(table, S) \in [Invites -> Invitation \cup {None}]
         /\ \A i \in Invites :
              /\ Retired(table, S)[i] = None <=> table[i] = None
              /\ table[i] # None =>
                   /\ Retired(table, S)[i].org = table[i].org
                   /\ Retired(table, S)[i].live <=> (table[i].live /\ i \notin S)
<1> SUFFICES ASSUME NEW i \in Invites
             PROVE  LET j == IF i \in S THEN [table[i] EXCEPT !.live = FALSE] ELSE table[i] IN
                    /\ j \in Invitation \cup {None}
                    /\ j = None <=> table[i] = None
                    /\ table[i] # None => j.org = table[i].org
                                          /\ (j.live <=> (table[i].live /\ i \notin S))
  BY DEF Retired
<1>1. CASE i \notin S
  BY <1>1
<1>2. CASE i \in S
  <2>1. table[i] \in Invitation
    BY <1>2
  <2> QED
    BY <1>2, <2>1, NoRow DEF Invitation
<1> QED
  BY <1>1, <1>2

LEMMA RetiredResets ==
  ASSUME NEW table \in [Resets -> Reset \cup {None}],
         NEW S, \A x \in Resets : x \in S => table[x] # None
  PROVE  /\ Retired(table, S) \in [Resets -> Reset \cup {None}]
         /\ \A x \in Resets :
              /\ Retired(table, S)[x] = None <=> table[x] = None
              /\ table[x] # None =>
                   /\ Retired(table, S)[x].account = table[x].account
                   /\ Retired(table, S)[x].live <=> (table[x].live /\ x \notin S)
<1> SUFFICES ASSUME NEW x \in Resets
             PROVE  LET j == IF x \in S THEN [table[x] EXCEPT !.live = FALSE] ELSE table[x] IN
                    /\ j \in Reset \cup {None}
                    /\ j = None <=> table[x] = None
                    /\ table[x] # None => j.account = table[x].account
                                          /\ (j.live <=> (table[x].live /\ x \notin S))
  BY DEF Retired
<1>1. CASE x \notin S
  BY <1>1
<1>2. CASE x \in S
  <2>1. table[x] \in Reset
    BY <1>2
  <2> QED
    BY <1>2, <2>1, NoRow DEF Reset
<1> QED
  BY <1>1, <1>2

----------------------------------------------------------------------------
(* Rows are added and change; none is taken away.                           *)

Grows ==
  /\ \A p \in People : accounts[p] # None => accounts'[p] # None
  /\ \A o \in Orgs : orgs[o] # None => orgs'[o] # None
  /\ \A i \in Invites : invites[i] # None => invites'[i] # None
  /\ \A x \in Resets : resets[x] # None => resets'[x] # None

LEMMA RequestFields ==
  ASSUME NEW q \in Request
  PROVE  /\ q.at = "claim" => q.person \in People
         /\ q.at \in {"set role", "write role", "remove", "write removal"} =>
              q.org \in Orgs /\ q.target \in People
         /\ q.at \in {"set role", "write role"} => q.role \in Roles
         /\ q.at \in {"invite", "write invite", "new invite"} =>
              q.org \in Orgs /\ q.guest \in People /\ q.role \in Roles
         /\ q.at = "new invite" => q.retire \subseteq Invites
         /\ q.at \in {"redeem", "join", "seated"} =>
              q.invite \in Invites /\ q.person \in People /\ q.known \in BOOLEAN
         /\ q.at = "seated" =>
              q.joins \in BOOLEAN /\ q.limit \in Nat /\ q.among \subseteq People
         /\ q.at \in {"forgot", "new reset"} => q.person \in People
         /\ q.at = "new reset" => q.retire \subseteq Resets
         /\ q.at \in {"reset", "new password"} => q.secret \in Resets
BY DEF Request

LEMMA StillHolds ==
  ASSUME Grows, NEW q \in Request, Holds(q)
  PROVE  Holds(q)'
<1>1. q.at = "consume" => Claimed'
  BY DEF Grows, Holds, Claimed
<1>2. /\ q.at \in {"invite", "write invite", "new invite"} => orgs'[q.org] # None
      /\ q.at = "new invite" => \A i \in q.retire : invites'[i] # None
  BY RequestFields DEF Grows, Holds
<1>3. q.at \in {"redeem", "join", "seated"} =>
        invites'[q.invite] # None /\ (q.known => accounts'[q.person] # None)
  BY RequestFields DEF Grows, Holds
<1>4. q.at = "seated" => (q.limit # 0 => q.joins /\ Cardinality(q.among) < q.limit)
  BY DEF Holds
<1>5. /\ q.at \in {"forgot", "new reset"} => accounts'[q.person] # None
      /\ q.at = "new reset" => \A x \in q.retire : resets'[x] # None
      /\ q.at \in {"reset", "new password"} => resets'[q.secret] # None
  BY RequestFields DEF Grows, Holds
<1> QED
  BY <1>1, <1>2, <1>3, <1>4, <1>5 DEF Holds

(* The requests after a step of one of them.                                *)
LEMMA RequestsKeep ==
  ASSUME RequestsOK, Grows, NEW r \in Requests, NEW q \in Request, Holds(q)',
         request' = [request EXCEPT ![r] = q]
  PROVE  RequestsOK'
<1>1. request' \in [Requests -> Request]
  BY DEF RequestsOK
<1>2. ASSUME NEW s \in Requests PROVE Holds(request[s])'
  <2>1. CASE s = r
    <3>1. request'[s] = q
      BY <2>1 DEF RequestsOK
    <3> QED
      BY <3>1 DEF Holds
  <2>2. CASE s # r
    <3>1. PICK h \in Request : h = request[s] /\ h = request'[s] /\ Holds(h)
      BY <2>2 DEF RequestsOK
    <3>2. Holds(h)'
      BY <3>1, StillHolds
    <3> QED
      BY <3>1, <3>2 DEF Holds
  <2> QED
    BY <2>1, <2>2
<1> QED
  BY <1>1, <1>2 DEF RequestsOK

LEMMA SameRequests ==
  ASSUME RequestsOK, Grows, UNCHANGED request
  PROVE  RequestsOK'
<1> SUFFICES ASSUME NEW s \in Requests PROVE Holds(request[s])'
  BY DEF RequestsOK
<1>1. PICK h \in Request : h = request[s] /\ h = request'[s] /\ Holds(h)
  BY DEF RequestsOK
<1>2. Holds(h)'
  BY <1>1, StillHolds
<1> QED
  BY <1>1, <1>2 DEF Holds

(* The token follows the claim through a step that neither claims nor takes *)
(* the token back.                                                          *)
LEMMA TokenKeeps ==
  ASSUME ClaimTokenFollowsClaim, UNCHANGED claimToken, Claimed' <=> Claimed,
         \A s \in Requests : At(s, "consume") => request'[s] = request[s]
  PROVE  ClaimTokenFollowsClaim'
BY DEF ClaimTokenFollowsClaim, At

(* A step that only takes a request further.                                *)
LEMMA MoveKeeps ==
  ASSUME IInv, NEW r \in Requests, ~At(r, "consume"), NEW q \in Request, Holds(q),
         request' = [request EXCEPT ![r] = q],
         UNCHANGED <<offering, database, tables, claimToken, uses>>, calls' \in 0..MaxCalls
  PROVE  IInv'
<1>1. TypeOK' /\ offering' \in {"hosted", "selfhost"}
  BY DEF IInv, TypeOK, tables
<1>2. OneAdmin' /\ OrgsAreClaimed'
  BY DEF IInv, OneAdmin, OrgsAreClaimed, PlatformAdmin, Claimed, tables
<1>3. UsesOK' /\ ResetsOK'
  BY DEF IInv, UsesOK, Unspent, ResetsOK, tables
<1>4. Grows /\ Holds(q)'
  BY DEF Grows, Holds, Claimed, tables
<1>5. RequestsOK'
  BY <1>4, RequestsKeep DEF IInv
<1>6. Claimed' <=> Claimed
  BY DEF Claimed, tables
<1>7. \A s \in Requests : At(s, "consume") => request'[s] = request[s]
  BY DEF IInv, RequestsOK, At
<1>8. ClaimTokenFollowsClaim'
  BY <1>6, <1>7, TokenKeeps DEF IInv
<1> QED
  BY <1>1, <1>2, <1>3, <1>5, <1>8 DEF IInv

LEMMA BeginKeeps ==
  ASSUME IInv, NEW r \in Requests, Begin(r), NEW q \in Request, Holds(q),
         request' = [request EXCEPT ![r] = q]
  PROVE  IInv'
<1>1. calls' \in 0..MaxCalls
  BY Catalogue DEF IInv, TypeOK, Begin, Accepted
<1>2. ~At(r, "consume")
  BY DEF Begin, FirstFree, Idle, At
<1> QED
  BY <1>1, <1>2, MoveKeeps DEF Begin

LEMMA GoKeeps ==
  ASSUME IInv, NEW r \in Requests, ~At(r, "consume"), NEW q \in Request, Holds(q), Go(r, q)
  PROVE  IInv'
<1>1. calls' \in 0..MaxCalls
  BY DEF IInv, TypeOK, Go
<1> QED
  BY <1>1, MoveKeeps DEF Go

LEMMA IdleHolds == Idle \in Request /\ Holds(Idle) /\ Holds(Idle)'
BY DEF Idle, Request, Holds

LEMMA RefuseKeeps ==
  ASSUME IInv, NEW r \in Requests, ~At(r, "consume"), Refuse(r)
  PROVE  IInv'
<1>1. calls' \in 0..MaxCalls
  BY DEF IInv, TypeOK, Refuse
<1> QED
  BY <1>1, IdleHolds, MoveKeeps DEF Refuse, Done

----------------------------------------------------------------------------
(* The first claim and registration.                                        *)

LEMMA SetupKeeps ==
  ASSUME IInv, NEW r \in Requests, NEW p \in People, handleSetup(r, p)
  PROVE  IInv'
<1>1. [at |-> "claim", person |-> p] \in Request /\ Holds([at |-> "claim", person |-> p])
  BY DEF Request, Holds
<1> QED
  BY <1>1, BeginKeeps DEF handleSetup

(* A new account, admin or not, that had no row.                            *)
LEMMA AccountAdded ==
  ASSUME IInv, NEW p \in People, accounts[p] = None, NEW admin \in BOOLEAN,
         accounts' = [accounts EXCEPT ![p] = [admin |-> admin, password |-> "chosen"]],
         UNCHANGED resets, admin => ~ \E q \in People : PlatformAdmin(q)
  PROVE  /\ accounts' \in [People -> Account \cup {None}]
         /\ \A q \in People : accounts[q] # None => accounts'[q] # None
         /\ accounts'[p] # None /\ Claimed'
         /\ OneAdmin' /\ ResetsOK'
<1> DEFINE row == [admin |-> admin, password |-> "chosen"]
<1>1. row \in Account /\ row # None
  BY NoRow DEF Account
<1>2. accounts \in [People -> Account \cup {None}]
  BY DEF IInv, TypeOK
<1>3. row.admin = admin /\ row.password = "chosen"
  OBVIOUS
<1> HIDE DEF row
<1>4. /\ accounts' \in [People -> Account \cup {None}] /\ accounts'[p] = row
      /\ \A q \in People : q # p => accounts'[q] = accounts[q]
  BY <1>1, <1>2 DEF row
<1>5. Claimed' /\ \A q \in People : accounts[q] # None => accounts'[q] # None
  BY <1>1, <1>4 DEF Claimed
<1>6. OneAdmin'
  BY <1>1, <1>3, <1>4 DEF IInv, OneAdmin, PlatformAdmin
<1>7. ResetsOK'
  BY <1>1, <1>3, <1>4, SecretIds DEF IInv, ResetsOK
<1> QED
  BY <1>1, <1>4, <1>5, <1>6, <1>7

LEMMA FounderAdded ==
  ASSUME IInv, NEW p \in People, NEW o \in Orgs, accounts'[p] # None,
         \A q \in People : accounts[q] # None => accounts'[q] # None,
         orgs' = [orgs EXCEPT ![o] = [plan |-> Free, mode |-> "standard"]],
         roles' = [roles EXCEPT ![o][p] = "owner"]
  PROVE  /\ orgs' \in [Orgs -> OrgRow \cup {None}]
         /\ roles' \in [Orgs -> [People -> Roles \cup {None}]]
         /\ \A c \in Orgs : orgs[c] # None => orgs'[c] # None
         /\ \A c \in Orgs, q \in People : roles'[c][q] # None =>
              orgs'[c] # None /\ accounts'[q] # None
<1>1. [plan |-> Free, mode |-> "standard"] \in OrgRow
  BY Catalogue DEF OrgRow
<1>2. /\ orgs \in [Orgs -> OrgRow \cup {None}]
      /\ roles \in [Orgs -> [People -> Roles \cup {None}]]
      /\ \A c \in Orgs, q \in People : roles[c][q] # None =>
           orgs[c] # None /\ accounts[q] # None
  BY DEF IInv, TypeOK
<1>3. /\ orgs' \in [Orgs -> OrgRow \cup {None}] /\ orgs'[o] # None
      /\ \A c \in Orgs : orgs[c] # None => orgs'[c] # None
  BY <1>1, <1>2, NoRow
<1>4. /\ roles' \in [Orgs -> [People -> Roles \cup {None}]]
      /\ \A c \in Orgs, q \in People : roles'[c][q] = roles[c][q] \/ (c = o /\ q = p)
  BY <1>2 DEF Roles
<1> QED
  BY <1>2, <1>3, <1>4

LEMMA FoundingKeepsTypes ==
  ASSUME TypeOK, Grows, UNCHANGED <<invites, resets, claimToken>>, calls' \in 0..MaxCalls,
         accounts' \in [People -> Account \cup {None}], orgs' \in [Orgs -> OrgRow \cup {None}],
         roles' \in [Orgs -> [People -> Roles \cup {None}]],
         \A c \in Orgs, s \in People : roles'[c][s] # None =>
           orgs'[c] # None /\ accounts'[s] # None
  PROVE  TypeOK'
<1>1. \A i \in Invites : invites[i] # None => invites[i].org \in Orgs
  BY DEF TypeOK, Invitation
<1>2. \A x \in Resets : resets[x] # None => resets[x].account \in People
  BY DEF TypeOK, Reset
<1>3. /\ \A i \in Invites : invites'[i] # None => orgs'[invites'[i].org] # None
      /\ \A x \in Resets : resets'[x] # None => accounts'[resets'[x].account] # None
  BY <1>1, <1>2 DEF TypeOK, Grows
<1> QED
  BY <1>3 DEF TypeOK

LEMMA ClaimKeeps ==
  ASSUME IInv, NEW r \in Requests, InsertPlatformAdmin(r)
  PROVE  IInv'
<1> DEFINE p == request[r].person
           q == [at |-> "consume"]
<1>1. p \in People /\ accounts[p] = None /\ ~ \E s \in People : PlatformAdmin(s)
  BY RequestFields DEF IInv, RequestsOK, InsertPlatformAdmin, At, ClaimConflicts
<1>2. /\ accounts' = [accounts EXCEPT ![p] = [admin |-> TRUE, password |-> "chosen"]]
      /\ request' = [request EXCEPT ![r] = q]
      /\ UNCHANGED <<offering, database, invites, resets, claimToken, uses, calls>>
  BY DEF InsertPlatformAdmin, InsertFounder
<1> HIDE DEF p
<1>3. /\ accounts' \in [People -> Account \cup {None}]
      /\ \A s \in People : accounts[s] # None => accounts'[s] # None
      /\ accounts'[p] # None /\ Claimed' /\ OneAdmin' /\ ResetsOK'
  BY <1>1, <1>2, AccountAdded
<1>4. /\ orgs' \in [Orgs -> OrgRow \cup {None}]
      /\ roles' \in [Orgs -> [People -> Roles \cup {None}]]
      /\ \A c \in Orgs : orgs[c] # None => orgs'[c] # None
      /\ \A c \in Orgs, s \in People : roles'[c][s] # None =>
           orgs'[c] # None /\ accounts'[s] # None
  <2>1. CASE UNCHANGED <<orgs, roles>>
    BY <1>3, <2>1 DEF IInv, TypeOK
  <2>2. CASE \E o \in Orgs : InsertFounder(p, o, TRUE)
    BY <1>1, <1>3, <2>2, FounderAdded DEF InsertFounder
  <2> QED
    BY <2>1, <2>2 DEF InsertPlatformAdmin, p
<1>5. Grows
  BY <1>2, <1>3, <1>4 DEF Grows
<1>6. TypeOK'
  <2>1. calls' \in 0..MaxCalls
    BY <1>2 DEF IInv, TypeOK
  <2> QED
    BY <1>2, <1>3, <1>4, <1>5, <2>1, FoundingKeepsTypes DEF IInv
<1>7. q \in Request /\ Holds(q)'
  BY <1>3 DEF Request, Holds
<1>8. RequestsOK'
  BY <1>2, <1>5, <1>7, RequestsKeep DEF IInv
<1>9. ClaimTokenFollowsClaim'
  BY <1>2, <1>3 DEF ClaimTokenFollowsClaim, At, IInv, RequestsOK
<1>10. UsesOK' /\ OrgsAreClaimed'
  BY <1>2, <1>3 DEF IInv, UsesOK, Unspent, OrgsAreClaimed
<1> QED
  BY <1>2, <1>3, <1>6, <1>8, <1>9, <1>10 DEF IInv

LEMMA ConsumeKeeps ==
  ASSUME IInv, NEW r \in Requests, ConsumeClaim(r)
  PROVE  IInv'
<1>1. /\ Claimed /\ claimToken' = FALSE /\ request' = [request EXCEPT ![r] = Idle]
      /\ UNCHANGED <<offering, database, accounts, orgs, roles, invites, resets, uses, calls>>
  BY DEF IInv, RequestsOK, Holds, ConsumeClaim, At, Done, tables
<1>2. Grows
  BY <1>1 DEF Grows
<1>3. RequestsOK'
  BY <1>1, <1>2, IdleHolds, RequestsKeep DEF IInv
<1>4. TypeOK' /\ OneAdmin' /\ OrgsAreClaimed'
  BY <1>1 DEF IInv, TypeOK, OneAdmin, OrgsAreClaimed, PlatformAdmin, Claimed
<1>5. UsesOK' /\ ResetsOK' /\ ClaimTokenFollowsClaim'
  BY <1>1 DEF IInv, UsesOK, Unspent, ResetsOK, ClaimTokenFollowsClaim, Claimed
<1> QED
  BY <1>1, <1>3, <1>4, <1>5 DEF IInv

LEMMA RegisterKeeps ==
  ASSUME IInv, NEW p \in People, NEW o \in Orgs, handleRegister(p, o)
  PROVE  IInv'
<1>1. /\ accounts[p] = None /\ Claimed /\ calls' \in 0..MaxCalls
      /\ accounts' = [accounts EXCEPT ![p] = [admin |-> FALSE, password |-> "chosen"]]
      /\ UNCHANGED <<offering, database, invites, resets, claimToken, request, uses>>
  BY Catalogue DEF IInv, TypeOK, handleRegister, InsertFounder, Accepted
<1>2. /\ accounts' \in [People -> Account \cup {None}]
      /\ \A s \in People : accounts[s] # None => accounts'[s] # None
      /\ accounts'[p] # None /\ Claimed' /\ OneAdmin' /\ ResetsOK'
  BY <1>1, AccountAdded
<1>3. /\ orgs' \in [Orgs -> OrgRow \cup {None}]
      /\ roles' \in [Orgs -> [People -> Roles \cup {None}]]
      /\ \A c \in Orgs : orgs[c] # None => orgs'[c] # None
      /\ \A c \in Orgs, s \in People : roles'[c][s] # None =>
           orgs'[c] # None /\ accounts'[s] # None
  BY <1>2, FounderAdded DEF handleRegister, InsertFounder
<1>4. Grows
  BY <1>1, <1>2, <1>3 DEF Grows
<1>5. TypeOK'
  BY <1>1, <1>2, <1>3, <1>4, FoundingKeepsTypes DEF IInv
<1>6. RequestsOK'
  BY <1>1, <1>4, SameRequests DEF IInv
<1>7. ClaimTokenFollowsClaim'
  BY <1>1, <1>2, TokenKeeps DEF IInv
<1>8. UsesOK' /\ OrgsAreClaimed'
  BY <1>1, <1>2 DEF IInv, UsesOK, Unspent, OrgsAreClaimed
<1> QED
  BY <1>1, <1>2, <1>5, <1>6, <1>7, <1>8 DEF IInv

----------------------------------------------------------------------------
(* Roles.                                                                   *)

(* Roles change, and nobody gets into what is not there.                    *)
LEMMA RolesKeep ==
  ASSUME IInv, roles' \in [Orgs -> [People -> Roles \cup {None}]],
         \A o \in Orgs, p \in People : roles'[o][p] # None => roles[o][p] # None,
         claimToken' \in BOOLEAN,
         UNCHANGED <<offering, database, accounts, orgs, invites, resets, uses, calls>>
  PROVE  Grows /\ TypeOK' /\ OneAdmin' /\ OrgsAreClaimed' /\ UsesOK' /\ ResetsOK'
<1>1. Grows
  BY DEF Grows
<1>2. OneAdmin' /\ OrgsAreClaimed'
  BY DEF IInv, OneAdmin, OrgsAreClaimed, PlatformAdmin, Claimed
<1>3. UsesOK' /\ ResetsOK'
  BY DEF IInv, UsesOK, Unspent, ResetsOK
<1>4. \A o \in Orgs, p \in People : roles'[o][p] # None => orgs[o] # None /\ accounts[p] # None
  BY DEF IInv, TypeOK
<1>5. TypeOK'
  BY <1>4 DEF IInv, TypeOK
<1> QED
  BY <1>1, <1>2, <1>3, <1>5

LEMMA WriteRolesKeeps ==
  ASSUME IInv, NEW r \in Requests, ~At(r, "consume"), Done(r), UNCHANGED claimToken,
         roles' \in [Orgs -> [People -> Roles \cup {None}]],
         \A o \in Orgs, p \in People : roles'[o][p] # None => roles[o][p] # None,
         UNCHANGED <<offering, database, accounts, orgs, invites, resets, uses, calls>>
  PROVE  IInv'
<1>1. claimToken' \in BOOLEAN
  BY DEF IInv, TypeOK
<1>2. Grows /\ TypeOK' /\ OneAdmin' /\ OrgsAreClaimed' /\ UsesOK' /\ ResetsOK'
  BY <1>1, RolesKeep
<1>3. RequestsOK'
  BY <1>2, IdleHolds, RequestsKeep DEF IInv, Done
<1>4. Claimed' <=> Claimed
  BY DEF Claimed
<1>5. \A s \in Requests : At(s, "consume") => request'[s] = request[s]
  BY DEF IInv, RequestsOK, At, Done
<1>6. ClaimTokenFollowsClaim'
  BY <1>4, <1>5, TokenKeeps DEF IInv
<1> QED
  BY <1>2, <1>3, <1>6 DEF IInv

LEMMA SetRoleKeeps ==
  ASSUME IInv, NEW r \in Requests, SetOrgMemberRole(r)
  PROVE  IInv'
<1> DEFINE o == request[r].org
           p == request[r].target
           role == request[r].role
<1>1. o \in Orgs /\ p \in People /\ role \in Roles /\ ~At(r, "consume")
  BY RequestFields DEF IInv, RequestsOK, SetOrgMemberRole, At
<1>2. roles' = IF roles[o][p] = None THEN roles ELSE [roles EXCEPT ![o][p] = role]
  BY DEF SetOrgMemberRole
<1> HIDE DEF o, p, role
<1>3. roles \in [Orgs -> [People -> Roles \cup {None}]]
  BY DEF IInv, TypeOK
<1>4. /\ roles' \in [Orgs -> [People -> Roles \cup {None}]]
      /\ \A c \in Orgs, q \in People : roles'[c][q] # None => roles[c][q] # None
  <2>1. CASE roles[o][p] = None
    BY <1>2, <1>3, <2>1
  <2>2. CASE roles[o][p] # None
    BY <1>1, <1>2, <1>3, <2>2
  <2> QED
    BY <2>1, <2>2
<1> QED
  BY <1>1, <1>4, WriteRolesKeeps DEF SetOrgMemberRole

LEMMA RemoveKeeps ==
  ASSUME IInv, NEW r \in Requests, RemoveOrgMember(r)
  PROVE  IInv'
<1> DEFINE o == request[r].org
           p == request[r].target
<1>1. o \in Orgs /\ p \in People /\ ~At(r, "consume")
  BY RequestFields DEF IInv, RequestsOK, RemoveOrgMember, At
<1>2. roles' = [roles EXCEPT ![o][p] = None]
  BY DEF RemoveOrgMember
<1> HIDE DEF o, p
<1>3. roles \in [Orgs -> [People -> Roles \cup {None}]]
  BY DEF IInv, TypeOK
<1>4. /\ roles' \in [Orgs -> [People -> Roles \cup {None}]]
      /\ \A c \in Orgs, q \in People : roles'[c][q] # None => roles[c][q] # None
  BY <1>1, <1>2, <1>3
<1> QED
  BY <1>1, <1>4, WriteRolesKeeps DEF RemoveOrgMember

LEMMA RoleRequestsKeep ==
  ASSUME IInv, NEW r \in Requests
  PROVE  /\ \A q, p \in People, o \in Orgs, role \in Roles :
              handleSetOrgMemberRole(r, q, o, p, role) => IInv'
         /\ \A q, p \in People, o \in Orgs : handleRemoveOrgMember(r, q, o, p) => IInv'
         /\ AuthorizeSetRole(r) => IInv'
         /\ AuthorizeRemove(r) => IInv'
<1>1. ASSUME NEW q \in People, NEW p \in People, NEW o \in Orgs PROVE Mine(q, o) \in Role
  BY DEF IInv, TypeOK, Mine, Role
<1>2. ASSUME NEW q \in People, NEW p \in People, NEW o \in Orgs, NEW role \in Roles,
             handleSetOrgMemberRole(r, q, o, p, role)
      PROVE  IInv'
  <2> DEFINE a == [at |-> "set role", org |-> o, mine |-> Mine(q, o), target |-> p,
                   role |-> role]
  <2>1. a \in Request /\ Holds(a)
    BY <1>1 DEF Request, Holds
  <2>2. Begin(r) /\ request' = [request EXCEPT ![r] = a]
    BY <1>2 DEF handleSetOrgMemberRole, credentialOf
  <2> HIDE DEF a
  <2> QED
    BY <2>1, <2>2, BeginKeeps
<1>3. ASSUME NEW q \in People, NEW p \in People, NEW o \in Orgs,
             handleRemoveOrgMember(r, q, o, p)
      PROVE  IInv'
  <2> DEFINE a == [at |-> "remove", org |-> o, who |-> q, mine |-> Mine(q, o), target |-> p]
  <2>1. a \in Request /\ Holds(a)
    BY <1>1 DEF Request, Holds
  <2>2. Begin(r) /\ request' = [request EXCEPT ![r] = a]
    BY <1>3 DEF handleRemoveOrgMember, credentialOf
  <2> HIDE DEF a
  <2> QED
    BY <2>1, <2>2, BeginKeeps
<1>4. ASSUME AuthorizeSetRole(r) PROVE IInv'
  <2> DEFINE a == [request[r] EXCEPT !.at = "write role"]
  <2>1. request[r] \in Request /\ request[r].at = "set role" /\ ~At(r, "consume")
    BY <1>4 DEF IInv, RequestsOK, AuthorizeSetRole, At
  <2>2. a \in Request /\ a.at = "write role"
    BY <2>1 DEF Request
  <2> HIDE DEF a
  <2>3. Holds(a)
    BY <2>2 DEF Holds
  <2>4. Go(r, a) \/ Refuse(r)
    BY <1>4 DEF AuthorizeSetRole, a
  <2> QED
    BY <2>1, <2>2, <2>3, <2>4, GoKeeps, RefuseKeeps
<1>5. ASSUME AuthorizeRemove(r) PROVE IInv'
  <2> DEFINE a == [request[r] EXCEPT !.at = "write removal"]
  <2>1. request[r] \in Request /\ request[r].at = "remove" /\ ~At(r, "consume")
    BY <1>5 DEF IInv, RequestsOK, AuthorizeRemove, At
  <2>2. a \in Request /\ a.at = "write removal"
    BY <2>1 DEF Request
  <2> HIDE DEF a
  <2>3. Holds(a)
    BY <2>2 DEF Holds
  <2>4. Go(r, a) \/ Refuse(r)
    BY <1>5 DEF AuthorizeRemove, a
  <2> QED
    BY <2>1, <2>2, <2>3, <2>4, GoKeeps, RefuseKeeps
<1> QED
  BY <1>2, <1>3, <1>4, <1>5

----------------------------------------------------------------------------
(* Invitations.                                                             *)

LEMMA InviteRequestsKeep ==
  ASSUME IInv, NEW r \in Requests
  PROVE  /\ \A q, p \in People, o \in Orgs, role \in Roles :
              handleCreateOrgInvite(r, q, o, p, role) => IInv'
         /\ CheckInvite(r) => IInv'
         /\ RetireSent(r) => IInv'
         /\ \A i \in Invites, p \in People : handleInviteRedeem(r, i, p) => IInv'
         /\ FindInvite(r) => IInv'
<1>1. ASSUME NEW q \in People, NEW p \in People, NEW o \in Orgs, NEW role \in Roles,
             handleCreateOrgInvite(r, q, o, p, role)
      PROVE  IInv'
  <2> DEFINE a == [at |-> "invite", org |-> o, guest |-> p, role |-> role]
  <2>1. a \in Request /\ Holds(a)
    BY <1>1 DEF Request, Holds, handleCreateOrgInvite, credentialOf
  <2>2. Begin(r) /\ request' = [request EXCEPT ![r] = a]
    BY <1>1 DEF handleCreateOrgInvite, credentialOf
  <2> HIDE DEF a
  <2> QED
    BY <2>1, <2>2, BeginKeeps
<1>2. ASSUME CheckInvite(r) PROVE IInv'
  <2> DEFINE a == [request[r] EXCEPT !.at = "write invite"]
  <2>1. /\ request[r] \in Request /\ request[r].at = "invite" /\ ~At(r, "consume")
        /\ orgs[request[r].org] # None
    BY <1>2 DEF IInv, RequestsOK, Holds, CheckInvite, At
  <2>2. a \in Request /\ a.at = "write invite" /\ a.org = request[r].org
    BY <2>1 DEF Request
  <2> HIDE DEF a
  <2>3. Holds(a)
    BY <2>1, <2>2 DEF Holds
  <2>4. Go(r, a) \/ Refuse(r)
    BY <1>2 DEF CheckInvite, a
  <2> QED
    BY <2>1, <2>2, <2>3, <2>4, GoKeeps, RefuseKeeps
<1>3. ASSUME NEW i \in Invites, NEW p \in People, handleInviteRedeem(r, i, p) PROVE IInv'
  <2> DEFINE a == [at |-> "redeem", invite |-> i, person |-> p, known |-> accounts[p] # None]
  <2>1. (accounts[p] # None) \in BOOLEAN
    OBVIOUS
  <2>2. a \in Request
    BY <2>1 DEF Request
  <2>3. a.at = "redeem" /\ a.invite = i /\ a.person = p /\ (a.known => accounts[p] # None)
    OBVIOUS
  <2>4. Begin(r) /\ request' = [request EXCEPT ![r] = a] /\ invites[i] # None
    BY <1>3 DEF handleInviteRedeem, Redeemable
  <2> HIDE DEF a
  <2>5. Holds(a)
    BY <2>3, <2>4 DEF Holds
  <2> QED
    BY <2>2, <2>4, <2>5, BeginKeeps
<1>4. ASSUME RetireSent(r) PROVE IInv'
  <2> DEFINE b == request[r]
             org == b.org
             guest == b.guest
             role == b.role
             sent == {j \in Invites : invites[j] # None /\ invites[j].live
                                        /\ invites[j].org = b.org /\ invites[j].guest = b.guest}
             a == [at |-> "new invite", org |-> org, guest |-> guest, role |-> role,
                   retire |-> sent]
  <2>1. /\ b \in Request /\ b.at = "write invite" /\ ~At(r, "consume")
        /\ orgs[org] # None
    BY <1>4 DEF IInv, RequestsOK, Holds, RetireSent, At
  <2>2. org \in Orgs /\ guest \in People /\ role \in Roles
    BY <2>1, RequestFields
  <2>3. sent \in SUBSET Invites /\ \A j \in sent : invites[j] # None
    OBVIOUS
  <2>4. Go(r, a)
    BY <1>4 DEF RetireSent
  <2> HIDE DEF org, guest, role, sent, b
  <2>5. a \in Request
    BY <2>2, <2>3 DEF Request
  <2>6. Holds(a)
    BY <2>1, <2>3 DEF Holds
  <2> HIDE DEF a
  <2> QED
    BY <2>1, <2>4, <2>5, <2>6, GoKeeps
<1>5. ASSUME FindInvite(r) PROVE IInv'
  <2> DEFINE a == [request[r] EXCEPT !.at = "join"]
  <2>1. /\ request[r] \in Request /\ request[r].at = "redeem" /\ ~At(r, "consume")
        /\ invites[request[r].invite] # None
        /\ request[r].known => accounts[request[r].person] # None
    BY <1>5 DEF IInv, RequestsOK, Holds, FindInvite, At
  <2>2. /\ a \in Request /\ a.at = "join" /\ a.invite = request[r].invite
        /\ a.person = request[r].person /\ a.known = request[r].known
    BY <2>1 DEF Request
  <2>3. Go(r, a) \/ Refuse(r)
    BY <1>5 DEF FindInvite
  <2> HIDE DEF a
  <2>4. Holds(a)
    BY <2>1, <2>2 DEF Holds
  <2> QED
    BY <2>1, <2>2, <2>3, <2>4, GoKeeps, RefuseKeeps
<1> QED
  BY <1>1, <1>2, <1>3, <1>4, <1>5

(* Who joins was counted, and found below the limit if there is one.        *)
LEMMA CountKeeps ==
  ASSUME IInv, NEW r \in Requests, CountPeople(r)
  PROVE  IInv'
<1> DEFINE b == request[r]
           k == b.invite
           p == b.person
           known == b.known
           o == invites[k].org
           joins == roles[o][p] = None
           limit == IF joins THEN PeopleLimit(o) ELSE 0
           among == Members(o)
           a == [at |-> "seated", invite |-> k, person |-> p, known |-> known,
                 joins |-> joins, limit |-> limit, among |-> among]
<1>1. /\ b \in Request /\ b.at = "join" /\ ~At(r, "consume")
      /\ invites[k] # None /\ (known => accounts[p] # None)
  BY DEF IInv, RequestsOK, Holds, CountPeople, At
<1>2. k \in Invites /\ p \in People /\ known \in BOOLEAN
  BY <1>1, RequestFields
<1>3. o \in Orgs /\ orgs[o] \in OrgRow
  BY <1>1, <1>2 DEF IInv, TypeOK, Invitation
<1>4. joins \in BOOLEAN /\ among \in SUBSET People
  BY DEF Members
<1>5. PeopleLimit(o) \in Nat
  BY <1>3, Catalogue DEF PeopleLimit, OrgRow
<1>6. limit \in Nat
  BY <1>5
<1>7. Refuse(r) \/ (Go(r, a) /\ (joins => HasSeat(o)))
  BY DEF CountPeople, Seated
<1>8. joins /\ HasSeat(o) /\ limit # 0 => Cardinality(among) < limit
  BY DEF HasSeat, AllowsAnother
<1>9. limit # 0 => joins
  OBVIOUS
<1> HIDE DEF b, k, p, known, joins, limit, among
<1>10. a \in Request
  BY <1>2, <1>4, <1>6 DEF Request
<1>11. joins /\ HasSeat(o) => Holds(a)
  <2> SUFFICES ASSUME joins, HasSeat(o) PROVE Holds(a)
    OBVIOUS
  <2>1. limit # 0 => joins /\ Cardinality(among) < limit
    BY <1>8, <1>9
  <2> QED
    BY <1>1, <2>1 DEF Holds
<1>12. ~joins => Holds(a)
  BY <1>1, <1>9 DEF Holds
<1> HIDE DEF a
<1> QED
  BY <1>1, <1>7, <1>10, <1>11, <1>12, GoKeeps, RefuseKeeps

(* Invitations change; a spent one stays spent.                             *)
LEMMA InvitesKeep ==
  ASSUME IInv, invites' \in [Invites -> Invitation \cup {None}],
         \A i \in Invites : invites'[i] # None => orgs[invites'[i].org] # None,
         \A i \in Invites : invites[i] # None =>
           invites'[i] # None /\ (invites'[i].live => invites[i].live),
         UNCHANGED <<offering, database, accounts, orgs, roles, resets, claimToken, uses>>,
         calls' \in 0..MaxCalls
  PROVE  Grows /\ TypeOK' /\ OneAdmin' /\ OrgsAreClaimed' /\ UsesOK' /\ ResetsOK'
<1>1. Grows
  BY DEF Grows
<1>2. OneAdmin' /\ OrgsAreClaimed'
  BY DEF IInv, OneAdmin, OrgsAreClaimed, PlatformAdmin, Claimed
<1>3. \A x \in Invites \cup Resets : Unspent(x)' => Unspent(x)
  BY DEF Unspent
<1>4. UsesOK' /\ ResetsOK'
  BY <1>3 DEF IInv, UsesOK, ResetsOK
<1>5. TypeOK'
  BY DEF IInv, TypeOK
<1> QED
  BY <1>1, <1>2, <1>4, <1>5

LEMMA CreateInviteKeeps ==
  ASSUME IInv, NEW r \in Requests, NEW i \in Invites, CreateOrgInvite(r, i)
  PROVE  IInv'
<1> DEFINE a == request[r]
           sent == a.retire
           row == [org |-> a.org, guest |-> a.guest, role |-> a.role, live |-> TRUE,
                   expired |-> FALSE]
           rest == Retired(invites, sent)
<1>1. /\ a.org \in Orgs /\ a.guest \in People /\ a.role \in Roles /\ orgs[a.org] # None
      /\ sent \subseteq Invites /\ \A j \in sent : invites[j] # None
  BY RequestFields DEF IInv, RequestsOK, Holds, CreateOrgInvite, At
<1>2. row \in Invitation /\ row # None /\ row.org = a.org
  <2> DEFINE org == a.org
             guest == a.guest
             role == a.role
  <2> HIDE DEF a, org, guest, role
  <2>1. org \in Orgs /\ guest \in People /\ role \in Roles
    BY <1>1 DEF org, guest, role
  <2>2. row \in Invitation /\ row.org = org
    BY <2>1 DEF Invitation, org, guest, role
  <2> QED
    BY <2>2, NoRow DEF org
<1>3. \A j \in Invites : j \in sent => invites[j] # None
  BY <1>1
<1>4. /\ invites' = [rest EXCEPT ![i] = row] /\ invites[i] = None /\ ~At(r, "consume")
      /\ request' = [request EXCEPT ![r] = Idle]
      /\ UNCHANGED <<offering, database, accounts, orgs, roles, resets, claimToken, uses, calls>>
  BY DEF CreateOrgInvite, At, Done, IsNext
<1> HIDE DEF sent, row, rest, a
<1>5. invites \in [Invites -> Invitation \cup {None}]
  BY DEF IInv, TypeOK
<1>6. /\ rest \in [Invites -> Invitation \cup {None}]
      /\ \A j \in Invites :
           /\ rest[j] = None <=> invites[j] = None
           /\ invites[j] # None => rest[j].org = invites[j].org
                                   /\ (rest[j].live <=> (invites[j].live /\ j \notin sent))
  BY <1>3, <1>5, RetiredInvites DEF rest
<1>7. invites' \in [Invites -> Invitation \cup {None}]
  BY <1>2, <1>4, <1>6
<1>8. \A j \in Invites : invites[j] # None => orgs[invites[j].org] # None
  BY DEF IInv, TypeOK
<1>9. /\ \A j \in Invites : invites'[j] # None => orgs[invites'[j].org] # None
      /\ \A j \in Invites : invites[j] # None =>
           invites'[j] # None /\ (invites'[j].live => invites[j].live)
  BY <1>1, <1>2, <1>4, <1>6, <1>8
<1>10. calls' \in 0..MaxCalls
  BY <1>4 DEF IInv, TypeOK
<1>11. Grows /\ TypeOK' /\ OneAdmin' /\ OrgsAreClaimed' /\ UsesOK' /\ ResetsOK'
  BY <1>4, <1>7, <1>9, <1>10, InvitesKeep
<1>12. RequestsOK'
  BY <1>4, <1>11, IdleHolds, RequestsKeep DEF IInv
<1>13. ClaimTokenFollowsClaim'
  BY <1>4, TokenKeeps DEF IInv, RequestsOK, At, Claimed
<1> QED
  BY <1>4, <1>11, <1>12, <1>13 DEF IInv

LEMMA RevokeKeeps ==
  ASSUME IInv, NEW q \in People, NEW i \in Invites, handleRevokeOrgInvite(q, i)
  PROVE  IInv'
<1>1. /\ invites' = Retired(invites, {i}) /\ invites[i] # None /\ calls' \in 0..MaxCalls
      /\ UNCHANGED <<offering, database, accounts, orgs, roles, resets, claimToken, request, uses>>
  BY Catalogue DEF IInv, TypeOK, handleRevokeOrgInvite, Accepted
<1>2. invites \in [Invites -> Invitation \cup {None}]
  BY DEF IInv, TypeOK
<1>3. /\ invites' \in [Invites -> Invitation \cup {None}]
      /\ \A j \in Invites :
           /\ invites'[j] = None <=> invites[j] = None
           /\ invites[j] # None => invites'[j].org = invites[j].org
                                   /\ (invites'[j].live => invites[j].live)
  BY <1>1, <1>2, RetiredInvites
<1>4. \A j \in Invites : invites'[j] # None => orgs[invites'[j].org] # None
  BY <1>3 DEF IInv, TypeOK
<1>5. Grows /\ TypeOK' /\ OneAdmin' /\ OrgsAreClaimed' /\ UsesOK' /\ ResetsOK'
  BY <1>1, <1>3, <1>4, InvitesKeep
<1>6. RequestsOK'
  BY <1>1, <1>5, SameRequests DEF IInv
<1>7. ClaimTokenFollowsClaim'
  BY <1>1, TokenKeeps DEF IInv, Claimed
<1> QED
  BY <1>1, <1>5, <1>6, <1>7 DEF IInv

(* The invitation is spent, the person has an account and a role.           *)
LEMMA AcceptKeeps ==
  ASSUME IInv, NEW r \in Requests, AcceptOrgInvite(r)
  PROVE  IInv'
<1> DEFINE a == request[r]
           k == a.invite
           p == a.person
           o == invites[k].org
           role == invites[k].role
<1>1. /\ k \in Invites /\ p \in People /\ invites[k] # None
      /\ a.known => accounts[p] # None
      /\ ~a.known => accounts[p] = None
      /\ ~At(r, "consume")
  BY RequestFields DEF IInv, RequestsOK, Holds, AcceptOrgInvite, JoinConflicts, At
<1>2. /\ accounts' = IF a.known THEN accounts
                     ELSE [accounts EXCEPT ![p] = [admin |-> FALSE, password |-> "chosen"]]
      /\ roles' = IF a.joins THEN [roles EXCEPT ![o][p] = role] ELSE roles
      /\ a.joins => roles[o][p] = None
      /\ invites' = Retired(invites, {k})
      /\ uses' = [uses EXCEPT ![k] = @ + 1]
      /\ request' = [request EXCEPT ![r] = Idle]
      /\ UNCHANGED <<offering, database, orgs, resets, claimToken, calls>>
  BY DEF AcceptOrgInvite, JoinConflicts, Done
<1>3. /\ o \in Orgs /\ role \in Roles /\ orgs[o] # None
  BY <1>1 DEF IInv, TypeOK, Invitation
<1>4. Claimed
  BY <1>3 DEF IInv, OrgsAreClaimed
<1> DEFINE known == a.known
<1> HIDE DEF a, k, p, o, role, known
<1>5. /\ accounts' \in [People -> Account \cup {None}]
      /\ \A q \in People : accounts[q] # None => accounts'[q] # None
      /\ accounts'[p] # None /\ Claimed' /\ OneAdmin' /\ ResetsOK'
  <2>1. CASE a.known
    <3>1. UNCHANGED <<accounts, resets>> /\ accounts[p] # None
      BY <1>1, <1>2, <2>1
    <3> QED
      BY <1>4, <3>1 DEF IInv, TypeOK, OneAdmin, PlatformAdmin, ResetsOK, Claimed
  <2>2. CASE ~a.known
    BY <1>1, <1>2, <2>2, AccountAdded
  <2> QED
    BY <2>1, <2>2
<1>6. /\ roles' \in [Orgs -> [People -> Roles \cup {None}]]
      /\ \A c \in Orgs, q \in People : roles'[c][q] # None =>
           orgs'[c] # None /\ accounts'[q] # None
  <2>1. /\ roles \in [Orgs -> [People -> Roles \cup {None}]]
        /\ \A c \in Orgs, q \in People : roles[c][q] # None =>
             orgs[c] # None /\ accounts[q] # None
    BY DEF IInv, TypeOK
  <2>2. CASE ~a.joins
    BY <1>2, <1>5, <2>1, <2>2
  <2>3. CASE a.joins
    <3>1. roles' = [roles EXCEPT ![o][p] = role]
      BY <1>2, <2>3
    <3>2. /\ roles' \in [Orgs -> [People -> Roles \cup {None}]]
          /\ \A c \in Orgs, q \in People : roles'[c][q] = roles[c][q] \/ (c = o /\ q = p)
      BY <1>1, <1>3, <2>1, <3>1
    <3> QED
      BY <1>2, <1>3, <1>5, <2>1, <3>2
  <2> QED
    BY <2>2, <2>3
<1>7. invites \in [Invites -> Invitation \cup {None}]
  BY DEF IInv, TypeOK
<1>8. /\ invites' \in [Invites -> Invitation \cup {None}]
      /\ \A j \in Invites :
           /\ invites'[j] = None <=> invites[j] = None
           /\ invites[j] # None => invites'[j].org = invites[j].org
                                   /\ (invites'[j].live <=> (invites[j].live /\ j # k))
  BY <1>1, <1>2, <1>7, RetiredInvites
<1>9. Grows
  BY <1>2, <1>5, <1>8 DEF Grows
<1>10. TypeOK'
  <2>1. \A x \in Resets : resets[x] # None => resets[x].account \in People
    BY DEF IInv, TypeOK, Reset
  <2>2. \A x \in Resets : resets'[x] # None => accounts'[resets'[x].account] # None
    BY <1>2, <1>5, <2>1 DEF IInv, TypeOK
  <2>3. \A j \in Invites : invites[j] # None => orgs[invites[j].org] # None
    BY DEF IInv, TypeOK
  <2>4. \A j \in Invites : invites'[j] # None => orgs'[invites'[j].org] # None
    BY <1>2, <1>8, <2>3
  <2> QED
    BY <1>2, <1>5, <1>6, <1>8, <2>2, <2>4 DEF IInv, TypeOK
<1>11. UsesOK'
  <2>1. /\ uses \in [Invites \cup Resets -> Nat]
        /\ \A x \in Invites \cup Resets : Unspent(x) => uses[x] = 0
    BY DEF IInv, UsesOK
  <2>2. k \in Invites \cup Resets /\ uses[k] + 1 \in Nat
    BY <1>1, <2>1
  <2>3. uses' \in [Invites \cup Resets -> Nat] /\ \A x \in Invites \cup Resets :
          x # k => uses'[x] = uses[x]
    BY <1>2, <2>1, <2>2
  <2>4. \A x \in Invites \cup Resets : Unspent(x)' => x # k /\ Unspent(x)
    BY <1>1, <1>2, <1>8, SecretIds DEF Unspent
  <2> QED
    BY <2>1, <2>3, <2>4 DEF UsesOK
<1>12. RequestsOK'
  BY <1>2, <1>9, IdleHolds, RequestsKeep DEF IInv
<1>13. ClaimTokenFollowsClaim'
  BY <1>1, <1>2, <1>4, <1>5, TokenKeeps DEF IInv, RequestsOK, At
<1>14. OrgsAreClaimed'
  BY <1>5 DEF OrgsAreClaimed
<1> QED
  BY <1>2, <1>5, <1>10, <1>11, <1>12, <1>13, <1>14 DEF IInv

----------------------------------------------------------------------------
(* The operator's levers.                                                   *)

LEMMA LeversKeep ==
  ASSUME IInv, NEW o \in Orgs
  PROVE  /\ \A plan \in Plans : handleSetOrgPlan(o, plan) => IInv'
         /\ \A mode \in {"standard", "test"} : handleSetOrgMode(o, mode) => IInv'
<1>1. ASSUME NEW row \in OrgRow, orgs[o] # None, orgs' = [orgs EXCEPT ![o] = row],
             calls' \in 0..MaxCalls,
             UNCHANGED <<offering, database, accounts, roles, invites, resets, claimToken, request, uses>>
      PROVE  IInv'
  <2>1. orgs \in [Orgs -> OrgRow \cup {None}]
    BY DEF IInv, TypeOK
  <2>2. /\ orgs' \in [Orgs -> OrgRow \cup {None}]
        /\ \A c \in Orgs : orgs'[c] # None <=> orgs[c] # None
    BY <1>1, <2>1, NoRow
  <2>3. Grows
    BY <1>1, <2>2 DEF Grows
  <2>4. \A i \in Invites : invites[i] # None => invites[i].org \in Orgs
    BY DEF IInv, TypeOK, Invitation
  <2>5. TypeOK'
    BY <1>1, <2>2, <2>4 DEF IInv, TypeOK
  <2>6. RequestsOK'
    BY <1>1, <2>3, SameRequests DEF IInv
  <2>7. OneAdmin' /\ OrgsAreClaimed'
    BY <1>1, <2>2 DEF IInv, OneAdmin, OrgsAreClaimed, PlatformAdmin, Claimed
  <2>8. ClaimTokenFollowsClaim'
    BY <1>1, TokenKeeps DEF IInv, Claimed
  <2>9. UsesOK' /\ ResetsOK'
    BY <1>1 DEF IInv, UsesOK, Unspent, ResetsOK
  <2> QED
    BY <1>1, <2>5, <2>6, <2>7, <2>8, <2>9 DEF IInv
<1>2. orgs[o] # None => orgs[o] \in OrgRow
  BY DEF IInv, TypeOK
<1>3. ASSUME NEW plan \in Plans, handleSetOrgPlan(o, plan) PROVE IInv'
  <2>1. [orgs[o] EXCEPT !.plan = plan] \in OrgRow
    BY <1>2, <1>3 DEF OrgRow, handleSetOrgPlan
  <2>2. calls' \in 0..MaxCalls
    BY <1>3, Catalogue DEF IInv, TypeOK, handleSetOrgPlan, Accepted
  <2> QED
    BY <1>1, <1>3, <2>1, <2>2 DEF handleSetOrgPlan
<1>4. ASSUME NEW mode \in {"standard", "test"}, handleSetOrgMode(o, mode) PROVE IInv'
  <2>1. [orgs[o] EXCEPT !.mode = mode] \in OrgRow
    BY <1>2, <1>4 DEF OrgRow, handleSetOrgMode
  <2>2. calls' \in 0..MaxCalls
    BY <1>4, Catalogue DEF IInv, TypeOK, handleSetOrgMode, Accepted
  <2> QED
    BY <1>1, <1>4, <2>1, <2>2 DEF handleSetOrgMode
<1> QED
  BY <1>3, <1>4

----------------------------------------------------------------------------
(* Password resets.                                                         *)

LEMMA ResetRequestsKeep ==
  ASSUME IInv, NEW r \in Requests
  PROVE  /\ \A p \in People : handlePasswordForgot(r, p) => IInv'
         /\ RetireResets(r) => IInv'
         /\ \A x \in Resets : handlePasswordReset(r, x) => IInv'
         /\ FindReset(r) => IInv'
<1>1. ASSUME NEW p \in People, handlePasswordForgot(r, p) PROVE IInv'
  <2>1. /\ [at |-> "forgot", person |-> p] \in Request
        /\ Holds([at |-> "forgot", person |-> p])
    BY <1>1 DEF Request, Holds, handlePasswordForgot
  <2> QED
    BY <1>1, <2>1, BeginKeeps DEF handlePasswordForgot
<1>2. ASSUME RetireResets(r) PROVE IInv'
  <2> DEFINE p == request[r].person
             sent == ResetsOf(p)
             a == [at |-> "new reset", person |-> p, retire |-> sent]
  <2>1. p \in People /\ accounts[p] # None /\ ~At(r, "consume")
    BY <1>2, RequestFields DEF IInv, RequestsOK, Holds, RetireResets, At
  <2>2. sent \in SUBSET Resets /\ \A y \in sent : resets[y] # None
    BY DEF ResetsOf
  <2>3. Go(r, a)
    BY <1>2 DEF RetireResets
  <2> HIDE DEF p, sent
  <2>4. a \in Request
    BY <2>1, <2>2 DEF Request
  <2>5. Holds(a)
    BY <2>1, <2>2 DEF Holds
  <2> HIDE DEF a
  <2> QED
    BY <2>1, <2>3, <2>4, <2>5, GoKeeps
<1>3. ASSUME NEW x \in Resets, handlePasswordReset(r, x) PROVE IInv'
  <2>1. /\ [at |-> "reset", secret |-> x] \in Request
        /\ Holds([at |-> "reset", secret |-> x])
    BY <1>3 DEF Request, Holds, handlePasswordReset, Redeemable
  <2> QED
    BY <1>3, <2>1, BeginKeeps DEF handlePasswordReset
<1>4. ASSUME FindReset(r) PROVE IInv'
  <2> DEFINE a == [request[r] EXCEPT !.at = "new password"]
  <2>1. /\ request[r] \in Request /\ request[r].at = "reset" /\ ~At(r, "consume")
        /\ resets[request[r].secret] # None
    BY <1>4 DEF IInv, RequestsOK, Holds, FindReset, At
  <2>2. a \in Request /\ a.at = "new password" /\ a.secret = request[r].secret
    BY <2>1 DEF Request
  <2>3. Go(r, a) \/ Refuse(r)
    BY <1>4 DEF FindReset
  <2> HIDE DEF a
  <2>4. Holds(a)
    BY <2>1, <2>2 DEF Holds
  <2> QED
    BY <2>1, <2>2, <2>3, <2>4, GoKeeps, RefuseKeeps
<1> QED
  BY <1>1, <1>2, <1>3, <1>4

LEMMA NewResetKeeps ==
  ASSUME IInv, NEW r \in Requests, NEW x \in Resets, CreatePasswordReset(r, x)
  PROVE  IInv'
<1> DEFINE p == request[r].person
           row == [account |-> p, live |-> TRUE, expired |-> FALSE]
           sent == request[r].retire
           rest == Retired(resets, sent)
<1>0. /\ p \in People /\ accounts[p] # None /\ sent \subseteq Resets /\ ~At(r, "consume")
      /\ \A y \in sent : resets[y] # None
  BY RequestFields DEF IInv, RequestsOK, Holds, CreatePasswordReset, At
<1>2. /\ resets' = [rest EXCEPT ![x] = row] /\ resets[x] = None
      /\ calls' \in 0..MaxCalls /\ request' = [request EXCEPT ![r] = Idle]
      /\ UNCHANGED <<offering, database, accounts, orgs, roles, invites, claimToken, uses>>
  BY DEF IInv, TypeOK, CreatePasswordReset, IsNext, Done
<1> HIDE DEF p, sent, rest
<1>1. row \in Reset /\ row # None /\ row.account = p
  <2>1. row \in Reset /\ row.account = p
    BY <1>0 DEF Reset
  <2> QED
    BY <2>1, NoRow
<1> HIDE DEF row
<1>5. resets \in [Resets -> Reset \cup {None}]
  BY DEF IInv, TypeOK
<1>6. /\ rest \in [Resets -> Reset \cup {None}]
      /\ \A y \in Resets :
           /\ rest[y] = None <=> resets[y] = None
           /\ resets[y] # None => rest[y].account = resets[y].account
                                  /\ (rest[y].live <=> (resets[y].live /\ y \notin sent))
  BY <1>0, <1>5, RetiredResets DEF rest
<1>7. /\ resets' \in [Resets -> Reset \cup {None}] /\ resets'[x] = row
      /\ \A y \in Resets : y # x => resets'[y] = rest[y]
  BY <1>1, <1>2, <1>6
<1>8. Grows
  BY <1>1, <1>2, <1>6, <1>7 DEF Grows
<1>9. TypeOK'
  <2>1. \A y \in Resets : resets[y] # None => accounts[resets[y].account] # None
    BY DEF IInv, TypeOK
  <2>2. \A y \in Resets : resets'[y] # None => accounts'[resets'[y].account] # None
    BY <1>0, <1>1, <1>2, <1>6, <1>7, <2>1
  <2> QED
    BY <1>2, <1>7, <2>2 DEF IInv, TypeOK
<1>10. RequestsOK'
  BY <1>2, <1>8, IdleHolds, RequestsKeep DEF IInv
<1>11. OneAdmin' /\ OrgsAreClaimed'
  BY <1>2 DEF IInv, OneAdmin, OrgsAreClaimed, PlatformAdmin, Claimed
<1>12. ClaimTokenFollowsClaim'
  BY <1>0, <1>2, TokenKeeps DEF IInv, Claimed, RequestsOK, At
<1>13. UsesOK'
  <2>1. \A y \in Invites \cup Resets : Unspent(y)' => Unspent(y)
    BY <1>2, <1>6, <1>7 DEF Unspent
  <2> QED
    BY <1>2, <2>1 DEF IInv, UsesOK
<1>14. ResetsOK'
  <2>1. \A q \in People : (accounts[q] # None /\ accounts[q].password \in Resets) =>
          /\ resets[accounts[q].password] # None
          /\ ~resets[accounts[q].password].live
    BY DEF IInv, ResetsOK
  <2>2. ASSUME NEW q \in People, accounts'[q] # None, accounts'[q].password \in Resets
        PROVE  /\ resets'[accounts'[q].password] # None
               /\ ~resets'[accounts'[q].password].live
    BY <1>2, <1>6, <1>7, <2>1, <2>2
  <2> QED
    BY <2>2 DEF ResetsOK
<1> QED
  BY <1>2, <1>9, <1>10, <1>11, <1>12, <1>13, <1>14 DEF IInv

(* The reset is spent with all the account's, and the account signs in by   *)
(* it.                                                                      *)
LEMMA ResetKeeps ==
  ASSUME IInv, NEW r \in Requests, ResetAccountPassword(r)
  PROVE  IInv'
<1> DEFINE x == request[r].secret
           p == resets[x].account
           sent == ResetsOf(p)
           row == [accounts[p] EXCEPT !.password = x]
<1>1. x \in Resets /\ resets[x] # None /\ ~At(r, "consume")
  BY RequestFields DEF IInv, RequestsOK, Holds, ResetAccountPassword, At
<1>2. /\ accounts' = [accounts EXCEPT ![p] = row]
      /\ resets' = Retired(resets, sent)
      /\ uses' = [uses EXCEPT ![x] = @ + 1]
      /\ request' = [request EXCEPT ![r] = Idle]
      /\ UNCHANGED <<offering, database, orgs, roles, invites, claimToken, calls>>
  BY DEF ResetAccountPassword, Done
<1>3. p \in People /\ accounts[p] # None /\ accounts[p] \in Account
  BY <1>1 DEF IInv, TypeOK, Reset
<1>4. row \in Account /\ row # None /\ row.password = x /\ row.admin = accounts[p].admin
  <2>1. \A a \in Account, y \in Resets :
          /\ [a EXCEPT !.password = y] \in Account
          /\ [a EXCEPT !.password = y].password = y
          /\ [a EXCEPT !.password = y].admin = a.admin
    BY DEF Account
  <2> QED
    BY <1>1, <1>3, <2>1, NoRow
<1>5. \A y \in Resets :
        y \in sent <=> (resets[y] # None /\ resets[y].account = p /\ resets[y].live)
  BY DEF ResetsOf
<1>6. resets[x].live => x \in sent
  BY <1>1, <1>5
<1> HIDE DEF x, p, sent, row
<1>7. /\ accounts \in [People -> Account \cup {None}]
      /\ resets \in [Resets -> Reset \cup {None}]
  BY DEF IInv, TypeOK
<1>8. /\ accounts' \in [People -> Account \cup {None}] /\ accounts'[p] = row
      /\ \A q \in People : q # p => accounts'[q] = accounts[q]
  BY <1>2, <1>3, <1>4, <1>7
<1>9. /\ resets' \in [Resets -> Reset \cup {None}]
      /\ \A y \in Resets :
           /\ resets'[y] = None <=> resets[y] = None
           /\ resets[y] # None => resets'[y].account = resets[y].account
                                  /\ (resets'[y].live <=> (resets[y].live /\ y \notin sent))
  BY <1>2, <1>5, <1>7, RetiredResets
<1>10. \A q \in People : accounts'[q] # None <=> accounts[q] # None
  BY <1>3, <1>4, <1>8
<1>11. Grows
  BY <1>2, <1>9, <1>10 DEF Grows
<1>12. TypeOK'
  <2>1. \A y \in Resets : resets[y] # None => resets[y].account \in People
    BY <1>7 DEF Reset
  <2>2. \A y \in Resets : resets'[y] # None => accounts'[resets'[y].account] # None
    BY <1>9, <1>10, <2>1 DEF IInv, TypeOK
  <2>3. \A o \in Orgs, q \in People : roles'[o][q] # None => orgs'[o] # None /\ accounts'[q] # None
    BY <1>2, <1>10 DEF IInv, TypeOK
  <2> QED
    BY <1>2, <1>8, <1>9, <2>2, <2>3 DEF IInv, TypeOK
<1>13. RequestsOK'
  BY <1>2, <1>11, IdleHolds, RequestsKeep DEF IInv
<1>14. Claimed' <=> Claimed
  BY <1>10 DEF Claimed
<1>15. OneAdmin' /\ OrgsAreClaimed'
  <2>1. \A q \in People : PlatformAdmin(q)' <=> PlatformAdmin(q)
    BY <1>3, <1>4, <1>8, <1>10 DEF PlatformAdmin
  <2> QED
    BY <1>2, <1>14, <2>1 DEF IInv, OneAdmin, OrgsAreClaimed
<1>16. ClaimTokenFollowsClaim'
  BY <1>1, <1>2, <1>14, TokenKeeps DEF IInv, RequestsOK, At
<1>17. UsesOK'
  <2>1. /\ uses \in [Invites \cup Resets -> Nat]
        /\ \A y \in Invites \cup Resets : Unspent(y) => uses[y] = 0
    BY DEF IInv, UsesOK
  <2>2. x \in Invites \cup Resets /\ uses[x] + 1 \in Nat
    BY <1>1, <2>1
  <2>3. /\ uses' \in [Invites \cup Resets -> Nat]
        /\ \A y \in Invites \cup Resets : y # x => uses'[y] = uses[y]
    BY <1>2, <2>1, <2>2
  <2>4. \A y \in Invites \cup Resets : Unspent(y)' => y # x /\ Unspent(y)
    BY <1>1, <1>2, <1>6, <1>9, SecretIds DEF Unspent
  <2> QED
    BY <2>1, <2>3, <2>4 DEF UsesOK
<1>18. ResetsOK'
  <2>1. \A q \in People : (accounts[q] # None /\ accounts[q].password \in Resets) =>
          /\ resets[accounts[q].password] # None
          /\ ~resets[accounts[q].password].live
    BY DEF IInv, ResetsOK
  <2>2. ASSUME NEW q \in People, accounts'[q] # None, accounts'[q].password \in Resets
        PROVE  /\ resets'[accounts'[q].password] # None
               /\ ~resets'[accounts'[q].password].live
    <3>1. CASE q = p
      BY <1>1, <1>4, <1>6, <1>8, <1>9, <3>1
    <3>2. CASE q # p
      BY <1>8, <1>9, <2>1, <2>2, <3>2
    <3> QED
      BY <3>1, <3>2
  <2> QED
    BY <2>2 DEF ResetsOK
<1> QED
  BY <1>2, <1>12, <1>13, <1>15, <1>16, <1>17, <1>18 DEF IInv

----------------------------------------------------------------------------
(* Time, and the hub's process.                                             *)

LEMMA ExpireKeeps ==
  ASSUME IInv, Expire
  PROVE  IInv'
<1>1. CASE \E i \in Invites : /\ Redeemable(invites, i)
                              /\ invites' = [invites EXCEPT ![i].expired = TRUE]
                              /\ UNCHANGED resets
  <2>1. PICK i \in Invites : /\ invites[i] # None /\ UNCHANGED resets
                             /\ invites' = [invites EXCEPT ![i].expired = TRUE]
    BY <1>1 DEF Redeemable
  <2>2. invites[i] \in Invitation /\ invites \in [Invites -> Invitation \cup {None}]
    BY <2>1 DEF IInv, TypeOK
  <2> DEFINE row == [invites[i] EXCEPT !.expired = TRUE]
  <2>3. /\ row \in Invitation /\ row # None /\ row.org = invites[i].org
        /\ row.live = invites[i].live
    BY <2>2, NoRow DEF Invitation
  <2>4. invites' = [invites EXCEPT ![i] = row]
    BY <2>1
  <2> HIDE DEF row
  <2>5. /\ invites' \in [Invites -> Invitation \cup {None}] /\ invites'[i] = row
        /\ \A j \in Invites : j # i => invites'[j] = invites[j]
    BY <2>2, <2>3, <2>4
  <2>6. \A j \in Invites : invites'[j] # None => orgs[invites'[j].org] # None
    BY <2>1, <2>3, <2>5 DEF IInv, TypeOK
  <2>7. \A j \in Invites : invites[j] # None =>
          invites'[j] # None /\ (invites'[j].live => invites[j].live)
    BY <2>3, <2>5
  <2>8. /\ UNCHANGED <<offering, database, accounts, orgs, roles, resets, claimToken, uses, request>>
        /\ calls' \in 0..MaxCalls
    BY <2>1 DEF Expire, IInv, TypeOK
  <2>9. Grows /\ TypeOK' /\ OneAdmin' /\ OrgsAreClaimed' /\ UsesOK' /\ ResetsOK'
    BY <2>5, <2>6, <2>7, <2>8, InvitesKeep
  <2>10. RequestsOK'
    BY <2>8, <2>9, SameRequests DEF IInv
  <2>11. ClaimTokenFollowsClaim'
    BY <2>8, TokenKeeps DEF IInv, Claimed
  <2> QED
    BY <2>8, <2>9, <2>10, <2>11 DEF IInv
<1>2. CASE \E x \in Resets : /\ Redeemable(resets, x)
                             /\ resets' = [resets EXCEPT ![x].expired = TRUE]
                             /\ UNCHANGED invites
  <2>1. PICK x \in Resets : /\ resets[x] # None /\ UNCHANGED invites
                            /\ resets' = [resets EXCEPT ![x].expired = TRUE]
    BY <1>2 DEF Redeemable
  <2>2. resets[x] \in Reset /\ resets \in [Resets -> Reset \cup {None}]
    BY <2>1 DEF IInv, TypeOK
  <2> DEFINE row == [resets[x] EXCEPT !.expired = TRUE]
  <2>3. /\ row \in Reset /\ row # None /\ row.account = resets[x].account
        /\ row.live = resets[x].live
    BY <2>2, NoRow DEF Reset
  <2>4. resets' = [resets EXCEPT ![x] = row]
    BY <2>1
  <2> HIDE DEF row
  <2>5. /\ resets' \in [Resets -> Reset \cup {None}]
        /\ \A y \in Resets : /\ resets'[y] = None <=> resets[y] = None
                             /\ resets[y] # None =>
                                  /\ resets'[y].account = resets[y].account
                                  /\ resets'[y].live = resets[y].live
    BY <2>1, <2>2, <2>3, <2>4
  <2>6. /\ UNCHANGED <<offering, database, accounts, orgs, roles, invites, claimToken, uses, request>>
        /\ calls' \in 0..MaxCalls
    BY <2>1 DEF Expire, IInv, TypeOK
  <2>7. Grows
    BY <2>5, <2>6 DEF Grows
  <2>8. TypeOK'
    <3>1. \A y \in Resets : resets'[y] # None => accounts'[resets'[y].account] # None
      BY <2>5, <2>6 DEF IInv, TypeOK
    <3> QED
      BY <2>5, <2>6, <3>1 DEF IInv, TypeOK
  <2>9. OneAdmin' /\ OrgsAreClaimed'
    BY <2>6 DEF IInv, OneAdmin, OrgsAreClaimed, PlatformAdmin, Claimed
  <2>10. UsesOK'
    <3>1. \A y \in Invites \cup Resets : Unspent(y)' => Unspent(y)
      BY <2>5, <2>6 DEF Unspent
    <3> QED
      BY <2>6, <3>1 DEF IInv, UsesOK
  <2>11. ResetsOK'
    BY <2>5, <2>6 DEF IInv, ResetsOK
  <2>12. RequestsOK'
    BY <2>6, <2>7, SameRequests DEF IInv
  <2>13. ClaimTokenFollowsClaim'
    BY <2>6, TokenKeeps DEF IInv, Claimed
  <2> QED
    BY <2>6, <2>8, <2>9, <2>10, <2>11, <2>12, <2>13 DEF IInv
<1> QED
  BY <1>1, <1>2 DEF Expire

(* An unclaimed hub expects a token again, a claimed one none.              *)
LEMMA RestartKeeps ==
  ASSUME IInv, Restart
  PROVE  IInv'
<1>1. /\ request' = [r \in Requests |-> Idle] /\ claimToken' = ~Claimed
      /\ UNCHANGED <<offering, database, accounts, orgs, invites, resets, uses, calls>>
  BY DEF Restart
<1>2. roles \in [Orgs -> [People -> Roles \cup {None}]]
  BY DEF IInv, TypeOK
<1>3. /\ roles' \in [Orgs -> [People -> Roles \cup {None}]]
      /\ \A o \in Orgs, p \in People : roles'[o][p] # None => roles[o][p] # None
  BY <1>2 DEF Restart
<1>4. claimToken' \in BOOLEAN
  BY <1>1 DEF Claimed
<1>5. Grows /\ TypeOK' /\ OneAdmin' /\ OrgsAreClaimed' /\ UsesOK' /\ ResetsOK'
  BY <1>1, <1>3, <1>4, RolesKeep
<1>6. \A r \in Requests : Holds(request[r])'
  BY <1>1 DEF Holds, Idle
<1>7. RequestsOK'
  BY <1>1, <1>6, IdleHolds DEF RequestsOK
<1>8. ClaimTokenFollowsClaim'
  BY <1>1 DEF ClaimTokenFollowsClaim, Claimed
<1> QED
  BY <1>1, <1>5, <1>7, <1>8 DEF IInv

----------------------------------------------------------------------------
(* All of it.                                                               *)

LEMMA InitIsGood == Init => IInv
<1> SUFFICES ASSUME Init PROVE IInv
  OBVIOUS
<1>1. /\ offering \in {"hosted", "selfhost"}
      /\ accounts = [p \in People |-> None] /\ orgs = [o \in Orgs |-> None]
      /\ roles = [o \in Orgs |-> [p \in People |-> None]]
      /\ invites = [i \in Invites |-> None] /\ resets = [x \in Resets |-> None]
      /\ claimToken = TRUE /\ request = [r \in Requests |-> Idle]
      /\ uses = [x \in Invites \cup Resets |-> 0] /\ calls = 0
  BY DEF Init, Offered, Fresh, Quiet
<1>2. TypeOK
  BY <1>1, Catalogue DEF TypeOK
<1>3. OneAdmin /\ OrgsAreClaimed
  BY <1>1 DEF OneAdmin, OrgsAreClaimed, PlatformAdmin
<1>4. ClaimTokenFollowsClaim
  BY <1>1 DEF ClaimTokenFollowsClaim, Claimed
<1>5. UsesOK /\ ResetsOK
  BY <1>1 DEF UsesOK, ResetsOK
<1>6. RequestsOK
  BY <1>1, IdleHolds DEF RequestsOK
<1> QED
  BY <1>1, <1>2, <1>3, <1>4, <1>5, <1>6 DEF IInv

LEMMA ClaimsKeep == ASSUME IInv, NEW r \in Requests, Claims(r) PROVE IInv'
<1>1. CASE ClaimFails(r)
  BY <1>1, RefuseKeeps DEF ClaimFails, At
<1> QED
  BY <1>1, SetupKeeps, ClaimKeeps, ConsumeKeeps DEF Claims

LEMMA MembershipsKeep == ASSUME IInv, NEW r \in Requests, Memberships(r) PROVE IInv'
BY RoleRequestsKeep, InviteRequestsKeep, SetRoleKeeps, RemoveKeeps, CreateInviteKeeps
   DEF Memberships

LEMMA SecretsKeep == ASSUME IInv, NEW r \in Requests, Secrets(r) PROVE IInv'
<1>1. CASE Rollback(r)
  BY <1>1, RefuseKeeps DEF Rollback, InTransaction, At
<1> QED
  BY <1>1, InviteRequestsKeep, CountKeeps, AcceptKeeps, ResetRequestsKeep, NewResetKeeps,
     ResetKeeps DEF Secrets

LEMMA NextKeeps == IInv /\ [Next]_vars => IInv'
<1> SUFFICES ASSUME IInv, [Next]_vars PROVE IInv'
  OBVIOUS
<1>1. CASE \E r \in Requests : Claims(r) \/ Memberships(r) \/ Secrets(r)
  BY <1>1, ClaimsKeep, MembershipsKeep, SecretsKeep
<1>2. CASE AtOnce
  BY <1>2, RegisterKeeps, RevokeKeeps, LeversKeep DEF AtOnce
<1>3. CASE Expire
  BY <1>3, ExpireKeeps
<1>4. CASE Restart
  BY <1>4, RestartKeeps
<1>5. CASE UNCHANGED vars
  <2>1. UNCHANGED <<offering, database, accounts, orgs, roles, invites, resets, claimToken, request,
                    uses, calls>>
    BY <1>5 DEF vars, tables
  <2>2. Grows
    BY <2>1 DEF Grows
  <2>3. RequestsOK'
    BY <2>1, <2>2, SameRequests DEF IInv
  <2>4. ClaimTokenFollowsClaim'
    BY <2>1, TokenKeeps DEF IInv, Claimed
  <2>5. TypeOK' /\ OneAdmin' /\ OrgsAreClaimed'
    BY <2>1 DEF IInv, TypeOK, OneAdmin, OrgsAreClaimed, PlatformAdmin, Claimed
  <2>6. UsesOK' /\ ResetsOK'
    BY <2>1 DEF IInv, UsesOK, Unspent, ResetsOK
  <2> QED
    BY <2>1, <2>3, <2>4, <2>5, <2>6 DEF IInv
<1> QED
  BY <1>1, <1>2, <1>3, <1>4, <1>5 DEF Next

LEMMA Inductive == Spec => []IInv
BY InitIsGood, NextKeeps, PTL DEF Spec

----------------------------------------------------------------------------
(* The transactions.  Whoever takes a secret from now on finds it live;     *)
(* those who found it live before it was spent may still use it, each once. *)
(* On SQLite what a transaction read stands until it commits.               *)

Took(q, x) ==
  \/ q.at \in {"join", "seated"} /\ q.invite = x
  \/ q.at = "new password" /\ q.secret = x

Inside(x) == {r \in Requests : Took(request[r], x)}

Stands(q) ==
  /\ q.at \in {"join", "seated"} => invites[q.invite].live
  /\ q.at = "new password" => resets[q.secret].live
  /\ q.at = "new reset" => q.retire = ResetsOf(q.person)

(* An account has one live reset at most.                                   *)
OneLive ==
  \A x, y \in Resets :
    (/\ resets[x] # None /\ resets[x].live /\ resets[y] # None /\ resets[y].live
     /\ resets[x].account = resets[y].account) => x = y

TransactionsOK ==
  /\ \A x \in Invites \cup Resets :
       uses[x] + Cardinality(Inside(x)) <= Cardinality(Requests)
  /\ database = "sqlite" =>
       /\ \A r, s \in Requests : InTransaction(r) /\ InTransaction(s) => r = s
       /\ \A r \in Requests : Stands(request[r])
       /\ \A x \in Invites \cup Resets : uses[x] <= 1
       /\ OneLive

LEMMA FewerLive ==
  ASSUME OneLive,
         \A x \in Resets : (resets'[x] # None /\ resets'[x].live) =>
           (resets[x] # None /\ resets[x].live /\ resets'[x].account = resets[x].account)
  PROVE  OneLive'
BY DEF OneLive

LEMMA InsideCounts ==
  ASSUME NEW x
  PROVE  /\ IsFiniteSet(Inside(x)) /\ Cardinality(Inside(x)) \in Nat
         /\ Cardinality(Inside(x)) <= Cardinality(Requests) /\ Cardinality(Requests) \in Nat
<1>1. IsFiniteSet(Requests) /\ Inside(x) \subseteq Requests
  BY FewPeople DEF Inside
<1>2. IsFiniteSet(Inside(x)) /\ Cardinality(Inside(x)) <= Cardinality(Requests)
  BY <1>1, FS_Subset
<1> QED
  BY <1>1, <1>2, FS_CardinalityType

(* A step that uses no secret, and after which nobody took a secret that is *)
(* spent and that he had not taken before.                                  *)
LEMMA NobodyUses ==
  ASSUME TransactionsOK, UsesOK, UsesOK', UNCHANGED uses,
         NEW x \in Invites \cup Resets, Unspent(x)' \/ Inside(x)' \subseteq Inside(x)
  PROVE  uses'[x] + Cardinality(Inside(x)') <= Cardinality(Requests)
<1>1. IsFiniteSet(Requests) /\ Inside(x)' \subseteq Requests
  BY FewPeople DEF Inside
<1>2. /\ Cardinality(Inside(x)') <= Cardinality(Requests)
      /\ Cardinality(Inside(x)') \in Nat /\ Cardinality(Requests) \in Nat
  BY <1>1, FS_Subset, FS_CardinalityType
<1>3. CASE Unspent(x)'
  <2>1. uses'[x] = 0
    BY <1>3 DEF UsesOK
  <2> QED
    BY <1>2, <2>1
<1>4. CASE Inside(x)' \subseteq Inside(x)
  <2>1. Cardinality(Inside(x)') <= Cardinality(Inside(x)) /\ Cardinality(Inside(x)) \in Nat
    BY <1>4, InsideCounts, FS_Subset
  <2>2. uses'[x] = uses[x] /\ uses[x] \in Nat
    BY DEF UsesOK
  <2>3. uses[x] + Cardinality(Inside(x)) <= Cardinality(Requests)
    BY DEF TransactionsOK
  <2> QED
    BY <1>2, <2>1, <2>2, <2>3
<1> QED
  BY <1>3, <1>4

(* A request goes on without a secret in hand, or with one that is live or  *)
(* that it had.                                                             *)
LEMMA RequestGoesOn ==
  ASSUME TransactionsOK, IInv, IInv', NEW r \in Requests, StoreFree(Requests \ {r}),
         NEW q \in Request, request' = [request EXCEPT ![r] = q],
         UNCHANGED <<database, uses>>,
         \A x \in Invites \cup Resets : Took(q, x) => Took(request[r], x) \/ Unspent(x)',
         database = "sqlite" => Stands(q)',
         database = "sqlite" => OneLive'
  PROVE  TransactionsOK'
<1>1. /\ request \in [Requests -> Request] /\ request'[r] = q
      /\ \A s \in Requests : s # r => request'[s] = request[s]
  BY DEF IInv, RequestsOK
<1>2. ASSUME NEW x \in Invites \cup Resets
      PROVE  uses'[x] + Cardinality(Inside(x)') <= Cardinality(Requests)
  <2>1. CASE Unspent(x)'
    BY <2>1, NobodyUses DEF IInv
  <2>2. CASE ~Unspent(x)'
    <3>1. ASSUME NEW s \in Requests, Took(request'[s], x) PROVE Took(request[s], x)
      BY <1>1, <2>2, <3>1
    <3>2. Inside(x)' = {s \in Requests : Took(request'[s], x)}
      BY DEF Inside, Took
    <3>3. Inside(x)' \subseteq Inside(x)
      BY <3>1, <3>2 DEF Inside
    <3> QED
      BY <3>3, NobodyUses DEF IInv
  <2> QED
    BY <2>1, <2>2
<1>3. ASSUME database = "sqlite"
      PROVE  /\ \A s, t \in Requests : InTransaction(s)' /\ InTransaction(t)' => s = t
             /\ \A s \in Requests : Stands(request[s])'
             /\ \A x \in Invites \cup Resets : uses'[x] <= 1
  <2>1. \A s \in Requests : s # r => ~InTransaction(s)
    BY <1>3 DEF StoreFree
  <2>2. \A s \in Requests : s # r => ~InTransaction(s)'
    BY <1>1, <2>1 DEF InTransaction
  <2>3. ASSUME NEW s \in Requests PROVE Stands(request[s])'
    <3>1. CASE s = r
      BY <1>1, <1>3, <3>1 DEF Stands
    <3>2. CASE s # r
      BY <2>2, <3>2 DEF Stands, InTransaction
    <3> QED
      BY <3>1, <3>2
  <2>4. \A x \in Invites \cup Resets : uses[x] <= 1
    BY <1>3 DEF TransactionsOK
  <2> QED
    BY <2>2, <2>3, <2>4
<1> QED
  BY <1>2, <1>3 DEF TransactionsOK

LEMMA IdleTookNothing == (\A x : ~Took(Idle, x)) /\ Stands(Idle)'
BY DEF Idle, Took, Stands

(* Secrets and requests a step does not touch.                              *)
LEMMA RequestStays ==
  ASSUME TransactionsOK, IInv, IInv', StoreFree(Requests), UNCHANGED <<database, uses, request>>,
         UNCHANGED resets
  PROVE  TransactionsOK'
<1>1. ASSUME NEW x \in Invites \cup Resets
      PROVE  uses'[x] + Cardinality(Inside(x)') <= Cardinality(Requests)
  <2>1. Inside(x)' = Inside(x)
    BY DEF Inside, Took
  <2> QED
    BY <2>1, NobodyUses DEF IInv
<1>2. ASSUME database = "sqlite", NEW s \in Requests PROVE ~InTransaction(s)' /\ Stands(request[s])'
  <2>1. ~InTransaction(s)
    BY <1>2 DEF StoreFree
  <2> QED
    BY <2>1 DEF InTransaction, Stands
<1>3. database = "sqlite" => OneLive'
  BY DEF TransactionsOK, OneLive
<1>4. database = "sqlite" => \A x \in Invites \cup Resets : uses'[x] <= 1
  BY DEF TransactionsOK
<1> QED
  BY <1>1, <1>2, <1>3, <1>4 DEF TransactionsOK

(* A use of a secret ends the request that took it.                         *)
LEMMA SecretUsed ==
  ASSUME TransactionsOK, IInv, IInv', NEW r \in Requests, StoreFree(Requests \ {r}),
         request' = [request EXCEPT ![r] = Idle], UNCHANGED database,
         NEW k \in Invites \cup Resets, Took(request[r], k),
         uses' = [uses EXCEPT ![k] = @ + 1],
         database = "sqlite" => Unspent(k),
         database = "sqlite" => OneLive'
  PROVE  TransactionsOK'
<1>1. /\ request \in [Requests -> Request] /\ request'[r] = Idle
      /\ \A s \in Requests : s # r => request'[s] = request[s]
  BY DEF IInv, RequestsOK
<1>2. /\ uses \in [Invites \cup Resets -> Nat] /\ uses'[k] = uses[k] + 1
      /\ \A x \in Invites \cup Resets : x # k => uses'[x] = uses[x]
  BY DEF IInv, UsesOK
<1>3. ASSUME NEW x \in Invites \cup Resets
      PROVE  Inside(x)' = Inside(x) \ {r}
  <2>1. Inside(x)' = {s \in Requests : Took(request'[s], x)}
    BY DEF Inside, Took
  <2>2. \A s \in Requests : Took(request'[s], x) <=> (s # r /\ Took(request[s], x))
    BY <1>1, IdleTookNothing
  <2> QED
    BY <2>1, <2>2 DEF Inside
<1>4. ASSUME NEW x \in Invites \cup Resets
      PROVE  uses'[x] + Cardinality(Inside(x)') <= Cardinality(Requests)
  <2> DEFINE n == Cardinality(Inside(x))
             m == Cardinality(Inside(x) \ {r})
  <2>1. /\ uses[x] + n <= Cardinality(Requests) /\ uses[x] \in Nat /\ n \in Nat
        /\ Cardinality(Requests) \in Nat
    BY <1>2, InsideCounts DEF TransactionsOK
  <2>2. IsFiniteSet(Inside(x))
    BY InsideCounts
  <2>3. m = IF r \in Inside(x) THEN n - 1 ELSE n
    BY <2>2, FS_RemoveElement
  <2>4. x = k => r \in Inside(x)
    BY DEF Inside
  <2>5. Cardinality(Inside(x)') = m
    BY <1>3
  <2> HIDE DEF n, m
  <2>6. CASE x = k
    <3>1. m = n - 1 /\ uses'[x] = uses[x] + 1
      BY <1>2, <2>3, <2>4, <2>6
    <3> QED
      BY <2>1, <2>5, <3>1
  <2>7. CASE x # k
    <3>1. m <= n /\ m \in Int /\ uses'[x] = uses[x]
      BY <1>2, <2>1, <2>3, <2>7
    <3> QED
      BY <2>1, <2>5, <3>1
  <2> QED
    BY <2>6, <2>7
<1>5. ASSUME database = "sqlite"
      PROVE  /\ \A s \in Requests : ~InTransaction(s)' /\ Stands(request[s])'
             /\ \A x \in Invites \cup Resets : uses'[x] <= 1
  <2>1. \A s \in Requests : s # r => ~InTransaction(s)
    BY <1>5 DEF StoreFree
  <2>2. ASSUME NEW s \in Requests PROVE ~InTransaction(s)'
    BY <1>1, <2>1 DEF InTransaction, Idle
  <2>3. ASSUME NEW s \in Requests PROVE Stands(request[s])'
    BY <2>2 DEF Stands, InTransaction
  <2>4. uses[k] = 0
    BY <1>5 DEF IInv, UsesOK
  <2>5. \A x \in Invites \cup Resets : uses[x] <= 1
    BY <1>5 DEF TransactionsOK
  <2>6. \A x \in Invites \cup Resets : uses'[x] <= 1
    BY <1>2, <2>4, <2>5
  <2> QED
    BY <2>2, <2>3, <2>6
<1> QED
  BY <1>4, <1>5 DEF TransactionsOK

----------------------------------------------------------------------------
(* What the steps do to transactions.                                       *)

(* A request that has nothing in hand after its step.                       *)
EmptyHanded(r) ==
  /\ request' = [request EXCEPT ![r] = request'[r]]
  /\ request'[r].at \notin {"join", "seated", "new password", "new reset"}
  /\ UNCHANGED <<database, uses, resets>>

LEMMA HandsEmpty ==
  ASSUME IInv, NEW r \in Requests, NEW q, request' = [request EXCEPT ![r] = q],
         q.at \notin {"join", "seated", "new password", "new reset"},
         UNCHANGED <<database, uses, resets>>
  PROVE  EmptyHanded(r)
<1>1. request'[r] = q
  BY DEF IInv, RequestsOK
<1> QED
  BY <1>1 DEF EmptyHanded

LEMMA NothingInHand ==
  ASSUME TransactionsOK, IInv, IInv', NEW r \in Requests, StoreFree(Requests \ {r}),
         EmptyHanded(r)
  PROVE  TransactionsOK'
<1>1. PICK q \in Request : q = request'[r]
  BY DEF IInv, RequestsOK
<1>2. request' = [request EXCEPT ![r] = q] /\ UNCHANGED <<database, uses>>
  BY <1>1 DEF EmptyHanded
<1>3. q.at \notin {"join", "seated", "new password", "new reset"}
  BY <1>1 DEF EmptyHanded
<1>4. (\A x : ~Took(q, x)) /\ Stands(q)'
  BY <1>3 DEF Took, Stands
<1>5. database = "sqlite" => OneLive'
  BY DEF EmptyHanded, TransactionsOK, OneLive
<1> QED
  BY <1>2, <1>4, <1>5, RequestGoesOn

LEMMA ClaimsTransact ==
  ASSUME TransactionsOK, IInv, IInv', NEW r \in Requests, StoreFree(Requests \ {r}), Claims(r)
  PROVE  TransactionsOK'
<1>1. ASSUME NEW p \in People, handleSetup(r, p) PROVE EmptyHanded(r)
  BY <1>1, HandsEmpty DEF handleSetup, Begin, tables
<1>2. ASSUME InsertPlatformAdmin(r) PROVE EmptyHanded(r)
  BY <1>2, HandsEmpty DEF InsertPlatformAdmin
<1>3. Refuse(r) => EmptyHanded(r)
  BY HandsEmpty DEF Refuse, Done, Idle, tables
<1>4. ConsumeClaim(r) => EmptyHanded(r)
  BY HandsEmpty DEF ConsumeClaim, Done, Idle, tables
<1> QED
  BY <1>1, <1>2, <1>3, <1>4, NothingInHand DEF Claims, ClaimFails

LEMMA MembershipsTransact ==
  ASSUME TransactionsOK, IInv, IInv', NEW r \in Requests, StoreFree(Requests \ {r}),
         Memberships(r)
  PROVE  TransactionsOK'
<1>1. request \in [Requests -> Request]
  BY DEF IInv, RequestsOK
<1>2. ASSUME NEW q \in People, NEW o \in Orgs, NEW p \in People,
             \/ \E role \in Roles : handleSetOrgMemberRole(r, q, o, p, role)
             \/ handleRemoveOrgMember(r, q, o, p)
             \/ \E role \in Roles : handleCreateOrgInvite(r, q, o, p, role)
      PROVE  EmptyHanded(r)
  <2>1. ASSUME NEW a, credentialOf(r, q, o, a),
               a.at \notin {"join", "seated", "new password", "new reset"}
        PROVE  EmptyHanded(r)
    BY <2>1, HandsEmpty DEF credentialOf, Begin, tables
  <2>2. ASSUME NEW role \in Roles, handleSetOrgMemberRole(r, q, o, p, role)
        PROVE  EmptyHanded(r)
    BY <2>1, <2>2 DEF handleSetOrgMemberRole
  <2>3. ASSUME handleRemoveOrgMember(r, q, o, p) PROVE EmptyHanded(r)
    BY <2>1, <2>3 DEF handleRemoveOrgMember
  <2>4. ASSUME NEW role \in Roles, handleCreateOrgInvite(r, q, o, p, role)
        PROVE  EmptyHanded(r)
    BY <2>1, <2>4 DEF handleCreateOrgInvite
  <2> QED
    BY <1>2, <2>2, <2>3, <2>4
<1>3. ASSUME NEW q, Go(r, q), q.at \notin {"join", "seated", "new password", "new reset"}
      PROVE  EmptyHanded(r)
  BY <1>3, HandsEmpty DEF Go, tables
<1>4. ASSUME Refuse(r) PROVE EmptyHanded(r)
  BY <1>4, HandsEmpty DEF Refuse, Done, Idle, tables
<1>5. ASSUME AuthorizeSetRole(r) PROVE EmptyHanded(r)
  <2>1. request[r] \in Request /\ request[r].at = "set role"
    BY <1>1, <1>5 DEF AuthorizeSetRole, At
  <2>2. [request[r] EXCEPT !.at = "write role"].at = "write role"
    BY <2>1 DEF Request
  <2> QED
    BY <1>3, <1>4, <1>5, <2>2 DEF AuthorizeSetRole
<1>6. ASSUME AuthorizeRemove(r) PROVE EmptyHanded(r)
  <2>1. request[r] \in Request /\ request[r].at = "remove"
    BY <1>1, <1>6 DEF AuthorizeRemove, At
  <2>2. [request[r] EXCEPT !.at = "write removal"].at = "write removal"
    BY <2>1 DEF Request
  <2> QED
    BY <1>3, <1>4, <1>6, <2>2 DEF AuthorizeRemove
<1>7. ASSUME CheckInvite(r) PROVE EmptyHanded(r)
  <2>1. request[r] \in Request /\ request[r].at = "invite"
    BY <1>1, <1>7 DEF CheckInvite, At
  <2>2. [request[r] EXCEPT !.at = "write invite"].at = "write invite"
    BY <2>1 DEF Request
  <2> QED
    BY <1>3, <1>4, <1>7, <2>2 DEF CheckInvite
<1>8. ASSUME RetireSent(r) PROVE EmptyHanded(r)
  BY <1>3, <1>8 DEF RetireSent
<1>9. ASSUME SetOrgMemberRole(r) \/ RemoveOrgMember(r) PROVE EmptyHanded(r)
  BY <1>9, HandsEmpty DEF SetOrgMemberRole, RemoveOrgMember, Done, Idle
<1>10. ASSUME NEW i \in Invites, CreateOrgInvite(r, i) PROVE EmptyHanded(r)
  BY <1>10, HandsEmpty DEF CreateOrgInvite, Done, Idle
<1> QED
  BY <1>2, <1>5, <1>6, <1>7, <1>8, <1>9, <1>10, NothingInHand DEF Memberships

(* A transaction that has just found, or still has, its secret.             *)
LEMMA InvitesTransact ==
  ASSUME TransactionsOK, IInv, IInv', NEW r \in Requests, StoreFree(Requests \ {r})
  PROVE  /\ \A i \in Invites, p \in People : handleInviteRedeem(r, i, p) => TransactionsOK'
         /\ FindInvite(r) => TransactionsOK'
         /\ CountPeople(r) => TransactionsOK'
         /\ AcceptOrgInvite(r) => TransactionsOK'
         /\ Rollback(r) => TransactionsOK'
<1>1. request \in [Requests -> Request]
  BY DEF IInv, RequestsOK
<1>2. ASSUME Refuse(r) PROVE TransactionsOK'
  <2>1. EmptyHanded(r)
    BY <1>2, HandsEmpty DEF Refuse, Done, Idle, tables
  <2> QED
    BY <2>1, NothingInHand
<1>3. ASSUME NEW i \in Invites, NEW p \in People, handleInviteRedeem(r, i, p)
      PROVE  TransactionsOK'
  <2> DEFINE q == [at |-> "redeem", invite |-> i, person |-> p, known |-> accounts[p] # None]
  <2>1. /\ request' = [request EXCEPT ![r] = q] /\ q.at = "redeem"
        /\ UNCHANGED <<database, uses, resets>>
    BY <1>3 DEF handleInviteRedeem, Begin, tables
  <2> HIDE DEF q
  <2>2. EmptyHanded(r)
    BY <2>1, HandsEmpty
  <2> QED
    BY <2>2, NothingInHand
<1>4. ASSUME NEW q, Go(r, q), q.at \in {"join", "seated"}, q.invite \in Invites,
             invites[q.invite].live \/ Took(request[r], q.invite),
             database = "sqlite" => invites[q.invite].live
      PROVE  TransactionsOK'
  <2>1. q \in Request /\ request' = [request EXCEPT ![r] = q] /\ UNCHANGED <<database, uses>>
    <3>1. request' = [request EXCEPT ![r] = q] /\ UNCHANGED <<database, uses>>
      BY <1>4 DEF Go
    <3>2. request'[r] = q /\ request'[r] \in Request
      BY <1>1, <3>1 DEF IInv, RequestsOK
    <3> QED
      BY <3>1, <3>2
  <2>2. UNCHANGED <<invites, resets>>
    BY <1>4 DEF Go, tables
  <2>3. ASSUME NEW x \in Invites \cup Resets, Took(q, x)
        PROVE  Took(request[r], x) \/ Unspent(x)'
    BY <1>4, <2>2, <2>3 DEF Took, Unspent
  <2>4. database = "sqlite" => Stands(q)'
    BY <1>4, <2>2 DEF Stands
  <2>5. database = "sqlite" => OneLive'
    BY <2>2 DEF TransactionsOK, OneLive
  <2> QED
    BY <2>1, <2>3, <2>4, <2>5, RequestGoesOn
<1>5. ASSUME FindInvite(r) PROVE TransactionsOK'
  <2> DEFINE a == [request[r] EXCEPT !.at = "join"]
  <2>1. request[r] \in Request /\ request[r].at = "redeem" /\ request[r].invite \in Invites
    BY <1>1, <1>5, RequestFields DEF FindInvite, At
  <2>2. a.at = "join" /\ a.invite = request[r].invite
    BY <2>1 DEF Request
  <2>3. Refuse(r) \/ (Go(r, a) /\ invites[request[r].invite].live)
    BY <1>5 DEF FindInvite
  <2> HIDE DEF a
  <2> QED
    BY <1>2, <1>4, <2>1, <2>2, <2>3
<1>6. ASSUME CountPeople(r) PROVE TransactionsOK'
  <2> DEFINE a == Seated(r, invites[request[r].invite].org)
  <2>1. request[r] \in Request /\ request[r].at = "join" /\ request[r].invite \in Invites
    BY <1>1, <1>6, RequestFields DEF CountPeople, At
  <2>2. a.at = "seated" /\ a.invite = request[r].invite
    BY DEF Seated
  <2>3. Refuse(r) \/ Go(r, a)
    BY <1>6 DEF CountPeople
  <2> HIDE DEF a
  <2>4. /\ Took(request[r], a.invite)
        /\ database = "sqlite" => invites[a.invite].live
    BY <2>1, <2>2 DEF Took, TransactionsOK, Stands
  <2> QED
    BY <1>2, <1>4, <2>1, <2>2, <2>3, <2>4
<1>7. ASSUME AcceptOrgInvite(r) PROVE TransactionsOK'
  <2> DEFINE k == request[r].invite
  <2>1. k \in Invites /\ request[r].at = "seated"
    BY <1>1, <1>7, RequestFields DEF AcceptOrgInvite, At
  <2>2. Took(request[r], k)
    BY <2>1 DEF Took
  <2>3. database = "sqlite" => Unspent(k)
    BY <2>1 DEF TransactionsOK, Stands, Unspent
  <2>4. /\ request' = [request EXCEPT ![r] = Idle] /\ uses' = [uses EXCEPT ![k] = @ + 1]
        /\ UNCHANGED <<database, resets>>
    BY <1>7 DEF AcceptOrgInvite, Done
  <2>5. database = "sqlite" => OneLive'
    BY <2>4 DEF TransactionsOK, OneLive
  <2> HIDE DEF k
  <2> QED
    BY <2>1, <2>2, <2>3, <2>4, <2>5, SecretUsed
<1>8. Rollback(r) => TransactionsOK'
  BY <1>2 DEF Rollback
<1> QED
  BY <1>3, <1>5, <1>6, <1>7, <1>8

LEMMA ResetsTransact ==
  ASSUME TransactionsOK, IInv, IInv', NEW r \in Requests, StoreFree(Requests \ {r})
  PROVE  /\ \A p \in People : handlePasswordForgot(r, p) => TransactionsOK'
         /\ RetireResets(r) => TransactionsOK'
         /\ \A x \in Resets : CreatePasswordReset(r, x) => TransactionsOK'
         /\ \A x \in Resets : handlePasswordReset(r, x) => TransactionsOK'
         /\ FindReset(r) => TransactionsOK'
         /\ ResetAccountPassword(r) => TransactionsOK'
<1>1. request \in [Requests -> Request] /\ resets \in [Resets -> Reset \cup {None}]
  BY DEF IInv, RequestsOK, TypeOK
<1>2. ASSUME \/ \E p \in People : handlePasswordForgot(r, p)
             \/ \E x \in Resets : handlePasswordReset(r, x)
             \/ Refuse(r)
      PROVE  TransactionsOK'
  <2>1. ASSUME NEW p \in People, handlePasswordForgot(r, p) PROVE EmptyHanded(r)
    BY <2>1, HandsEmpty DEF handlePasswordForgot, Begin, tables
  <2>2. ASSUME NEW x \in Resets, handlePasswordReset(r, x) PROVE EmptyHanded(r)
    BY <2>2, HandsEmpty DEF handlePasswordReset, Begin, tables
  <2>3. ASSUME Refuse(r) PROVE EmptyHanded(r)
    BY <2>3, HandsEmpty DEF Refuse, Done, Idle, tables
  <2> QED
    BY <1>2, <2>1, <2>2, <2>3, NothingInHand
<1>3. ASSUME NEW q, Go(r, q), \A x \in Invites \cup Resets : Took(q, x) => Unspent(x),
             Stands(q)
      PROVE  TransactionsOK'
  <2>1. /\ request' = [request EXCEPT ![r] = q]
        /\ UNCHANGED <<database, uses, invites, resets>>
    BY <1>3 DEF Go, tables
  <2>2. request'[r] = q /\ request'[r] \in Request
    BY <1>1, <2>1 DEF IInv, RequestsOK
  <2>3. Stands(q)'
    BY <1>3, <2>1 DEF Stands, ResetsOf
  <2>4. \A x \in Invites \cup Resets : Took(q, x) => Unspent(x)'
    BY <1>3, <2>1 DEF Unspent
  <2>5. database = "sqlite" => OneLive'
    BY <2>1 DEF TransactionsOK, OneLive
  <2> QED
    BY <2>1, <2>2, <2>3, <2>4, <2>5, RequestGoesOn
<1>4. ASSUME RetireResets(r) PROVE TransactionsOK'
  <2> DEFINE q == [at |-> "new reset", person |-> request[r].person,
                   retire |-> ResetsOf(request[r].person)]
  <2>1. Go(r, q) /\ (\A x \in Invites \cup Resets : ~Took(q, x)) /\ Stands(q)
    BY <1>4 DEF RetireResets, Took, Stands
  <2> HIDE DEF q
  <2> QED
    BY <1>3, <2>1
<1>5. ASSUME FindReset(r) PROVE TransactionsOK'
  <2> DEFINE q == [request[r] EXCEPT !.at = "new password"]
  <2>1. request[r] \in Request /\ request[r].at = "reset" /\ request[r].secret \in Resets
    BY <1>1, <1>5, RequestFields DEF FindReset, At
  <2>2. q.at = "new password" /\ q.secret = request[r].secret
    BY <2>1 DEF Request
  <2>3. Refuse(r) \/ (Go(r, q) /\ resets[request[r].secret].live)
    BY <1>5 DEF FindReset, SecretStands
  <2> HIDE DEF q
  <2>4. CASE Refuse(r)
    BY <1>2, <2>4
  <2>5. CASE Go(r, q) /\ resets[request[r].secret].live
    <3>1. (\A x \in Invites \cup Resets : Took(q, x) => Unspent(x)) /\ Stands(q)
      BY <2>1, <2>2, <2>5 DEF Took, Unspent, Stands
    <3> QED
      BY <1>3, <2>5, <3>1
  <2> QED
    BY <2>3, <2>4, <2>5
<1>6. ASSUME ResetAccountPassword(r) PROVE TransactionsOK'
  <2> DEFINE k == request[r].secret
             sent == ResetsOf(resets[k].account)
  <2>1. k \in Resets /\ request[r].at = "new password"
    BY <1>1, <1>6, RequestFields DEF ResetAccountPassword, At
  <2>2. Took(request[r], k)
    BY <2>1 DEF Took
  <2>3. database = "sqlite" => Unspent(k)
    BY <2>1 DEF TransactionsOK, Stands, Unspent
  <2>4. /\ request' = [request EXCEPT ![r] = Idle] /\ uses' = [uses EXCEPT ![k] = @ + 1]
        /\ resets' = Retired(resets, sent) /\ UNCHANGED database
    BY <1>6 DEF ResetAccountPassword, Done
  <2>5. \A y \in Resets : y \in sent => resets[y] # None
    BY DEF ResetsOf
  <2> HIDE DEF k, sent
  <2>6. \A y \in Resets : (resets'[y] # None /\ resets'[y].live) =>
          (resets[y] # None /\ resets[y].live /\ resets'[y].account = resets[y].account)
    BY <1>1, <2>4, <2>5, RetiredResets
  <2>7. database = "sqlite" => OneLive'
    BY <2>6, FewerLive DEF TransactionsOK
  <2> QED
    BY <2>1, <2>2, <2>3, <2>4, <2>7, SecretUsed
<1>7. ASSUME NEW x \in Resets, CreatePasswordReset(r, x) PROVE TransactionsOK'
  <2> DEFINE p == request[r].person
             sent == request[r].retire
             row == [account |-> p, live |-> TRUE, expired |-> FALSE]
             rest == Retired(resets, sent)
  <2>1. /\ request[r] \in Request /\ request[r].at = "new reset" /\ sent \subseteq Resets
        /\ \A y \in sent : resets[y] # None
    BY <1>1, <1>7, RequestFields DEF CreatePasswordReset, At, IInv, RequestsOK, Holds
  <2>2. /\ request' = [request EXCEPT ![r] = Idle] /\ UNCHANGED <<database, uses>>
        /\ resets' = [rest EXCEPT ![x] = row]
    BY <1>7 DEF CreatePasswordReset, Done
  <2>3. database = "sqlite" => sent = ResetsOf(p)
    BY <2>1 DEF TransactionsOK, Stands
  <2>4. row.account = p
    OBVIOUS
  <2> HIDE DEF p, sent, row, rest
  <2>5. /\ rest \in [Resets -> Reset \cup {None}]
        /\ \A y \in Resets :
             /\ rest[y] = None <=> resets[y] = None
             /\ resets[y] # None => rest[y].account = resets[y].account
                                    /\ (rest[y].live <=> (resets[y].live /\ y \notin sent))
    <3>1. \A y \in Resets : y \in sent => resets[y] # None
      BY <2>1
    <3> QED
      BY <1>1, <3>1, RetiredResets DEF rest
  <2>6. resets'[x] = row /\ \A y \in Resets : y # x => resets'[y] = rest[y]
    BY <2>2, <2>5
  <2>7. ASSUME database = "sqlite" PROVE OneLive'
    <3>1. \A y \in Resets : y # x /\ resets'[y] # None /\ resets'[y].live =>
            /\ resets[y] # None /\ resets[y].live /\ resets'[y].account = resets[y].account
            /\ resets[y].account # p
      BY <2>3, <2>5, <2>6, <2>7 DEF ResetsOf
    <3>2. OneLive
      BY <2>7 DEF TransactionsOK
    <3> SUFFICES ASSUME NEW y \in Resets, NEW z \in Resets, resets'[y] # None, resets'[y].live,
                        resets'[z] # None, resets'[z].live,
                        resets'[y].account = resets'[z].account
                 PROVE  y = z
      BY DEF OneLive
    <3>3. CASE y = x \/ z = x
      BY <2>4, <2>6, <3>1, <3>3
    <3>4. CASE y # x /\ z # x
      BY <3>1, <3>2, <3>4 DEF OneLive
    <3> QED
      BY <3>3, <3>4
  <2>8. Idle \in Request /\ Stands(Idle)' /\ \A y : ~Took(Idle, y)
    BY IdleHolds, IdleTookNothing
  <2> QED
    BY <2>2, <2>7, <2>8, RequestGoesOn
<1>8. \A x \in Resets : CreatePasswordReset(r, x) => TransactionsOK'
  BY <1>7
<1> QED
  BY <1>2, <1>4, <1>5, <1>6, <1>8

(* Time passes without a secret: who has one in hand keeps it.              *)
LEMMA ExpireTransacts ==
  ASSUME TransactionsOK, IInv, IInv', Expire
  PROVE  TransactionsOK'
<1>1. /\ invites \in [Invites -> Invitation \cup {None}]
      /\ resets \in [Resets -> Reset \cup {None}]
      /\ request \in [Requests -> Request]
  BY DEF IInv, TypeOK, RequestsOK
<1>2. UNCHANGED <<database, uses, request>>
  BY DEF Expire
<1>3. /\ \A i \in Invites : invites[i] # None => invites'[i].live = invites[i].live
      /\ \A x \in Resets : /\ resets'[x] # None <=> resets[x] # None
                           /\ resets[x] # None =>
                                /\ resets'[x].live = resets[x].live
                                /\ resets'[x].account = resets[x].account
  <2>1. \A i \in Invites : invites[i] # None =>
          /\ [invites[i] EXCEPT !.expired = TRUE] \in Invitation
          /\ [invites[i] EXCEPT !.expired = TRUE].live = invites[i].live
    BY <1>1 DEF Invitation
  <2>2. \A x \in Resets : resets[x] # None =>
          /\ [resets[x] EXCEPT !.expired = TRUE] \in Reset
          /\ [resets[x] EXCEPT !.expired = TRUE].live = resets[x].live
          /\ [resets[x] EXCEPT !.expired = TRUE].account = resets[x].account
    BY <1>1 DEF Reset
  <2>3. CASE \E i \in Invites : /\ Redeemable(invites, i) /\ UNCHANGED resets
                                /\ invites' = [invites EXCEPT ![i].expired = TRUE]
    BY <1>1, <2>1, <2>3 DEF Redeemable
  <2>4. CASE \E x \in Resets : /\ Redeemable(resets, x) /\ UNCHANGED invites
                               /\ resets' = [resets EXCEPT ![x].expired = TRUE]
    BY <1>1, <2>2, <2>4, NoRow DEF Redeemable
  <2> QED
    BY <2>3, <2>4 DEF Expire
<1>4. ASSUME NEW x \in Invites \cup Resets
      PROVE  uses'[x] + Cardinality(Inside(x)') <= Cardinality(Requests)
  <2>1. Inside(x)' = Inside(x)
    BY <1>2 DEF Inside, Took
  <2> QED
    BY <1>2, <2>1, NobodyUses DEF IInv
<1>5. ASSUME database = "sqlite", NEW r \in Requests PROVE Stands(request[r])'
  <2>1. PICK q \in Request : q = request[r] /\ request'[r] = q /\ Holds(q) /\ Stands(q)
    BY <1>2, <1>5 DEF IInv, RequestsOK, TransactionsOK
  <2>2. q.at \in {"join", "seated"} => invites'[q.invite].live
    BY <1>3, <2>1, RequestFields DEF Holds, Stands
  <2>3. q.at = "new password" => resets'[q.secret].live
    BY <1>3, <2>1, RequestFields DEF Holds, Stands
  <2>4. \A p : ResetsOf(p)' = ResetsOf(p)
    BY <1>3 DEF ResetsOf
  <2>5. q.at = "new reset" => q.retire = ResetsOf(q.person)'
    BY <2>1, <2>4 DEF Stands
  <2>6. Stands(q)'
    BY <2>2, <2>3, <2>5 DEF Stands
  <2> QED
    BY <2>1, <2>6 DEF Stands
<1>6. database = "sqlite" => OneLive'
  BY <1>3, FewerLive DEF TransactionsOK
<1>7. ASSUME database = "sqlite", NEW r \in Requests, NEW s \in Requests,
             InTransaction(r)', InTransaction(s)'
      PROVE  r = s
  BY <1>2, <1>7 DEF TransactionsOK, InTransaction
<1>8. ASSUME database = "sqlite", NEW x \in Invites \cup Resets PROVE uses'[x] <= 1
  BY <1>2, <1>8 DEF TransactionsOK
<1> QED
  BY <1>2, <1>4, <1>5, <1>6, <1>7, <1>8 DEF TransactionsOK

LEMMA RestartTransacts ==
  ASSUME TransactionsOK, IInv, IInv', Restart
  PROVE  TransactionsOK'
<1>1. UNCHANGED <<database, uses, resets>> /\ \A r \in Requests : request'[r] = Idle
  BY DEF Restart
<1>2. ASSUME NEW x \in Invites \cup Resets
      PROVE  uses'[x] + Cardinality(Inside(x)') <= Cardinality(Requests)
  <2>1. Inside(x)' = {s \in Requests : Took(request'[s], x)}
    BY DEF Inside, Took
  <2>2. Inside(x)' \subseteq Inside(x)
    BY <1>1, <2>1, IdleTookNothing
  <2> QED
    BY <1>1, <2>2, NobodyUses DEF IInv
<1>3. ASSUME NEW r \in Requests PROVE ~InTransaction(r)' /\ Stands(request[r])'
  <2>1. request'[r].at = "idle"
    BY <1>1 DEF Idle
  <2> QED
    BY <2>1 DEF InTransaction, Stands
<1>4. database = "sqlite" => OneLive' /\ \A x \in Invites \cup Resets : uses'[x] <= 1
  BY <1>1 DEF TransactionsOK, OneLive
<1> QED
  BY <1>1, <1>2, <1>3, <1>4 DEF TransactionsOK

LEMMA AtOnceTransacts ==
  ASSUME TransactionsOK, IInv, IInv', StoreFree(Requests), AtOnce
  PROVE  TransactionsOK'
<1>1. UNCHANGED <<database, uses, request, resets>>
  BY DEF AtOnce, handleRegister, handleRevokeOrgInvite, handleSetOrgPlan, handleSetOrgMode
<1> QED
  BY <1>1, RequestStays

LEMMA StutterTransacts ==
  ASSUME TransactionsOK, UNCHANGED vars
  PROVE  TransactionsOK'
<1>1. UNCHANGED <<database, uses, request, invites, resets>>
  BY DEF vars, tables
<1>2. \A x : Inside(x)' = Inside(x)
  BY <1>1 DEF Inside, Took
<1>3. \A r \in Requests : /\ InTransaction(r)' <=> InTransaction(r)
                          /\ Stands(request[r])' <=> Stands(request[r])
  BY <1>1 DEF InTransaction, Stands, ResetsOf
<1>4. OneLive' <=> OneLive
  BY <1>1 DEF OneLive
<1> QED
  BY <1>1, <1>2, <1>3, <1>4 DEF TransactionsOK

LEMMA NextTransacts == TransactionsOK /\ IInv /\ IInv' /\ [Next]_vars => TransactionsOK'
<1> SUFFICES ASSUME TransactionsOK, IInv, IInv', [Next]_vars PROVE TransactionsOK'
  OBVIOUS
<1>1. ASSUME NEW r \in Requests, StoreFree(Requests \ {r}), Secrets(r) PROVE TransactionsOK'
  BY <1>1, InvitesTransact, ResetsTransact DEF Secrets
<1> QED
  BY <1>1, ClaimsTransact, MembershipsTransact, AtOnceTransacts, ExpireTransacts,
     RestartTransacts, StutterTransacts DEF Next

LEMMA InitTransacts == Init => TransactionsOK
<1> SUFFICES ASSUME Init PROVE TransactionsOK
  OBVIOUS
<1>1. /\ request = [r \in Requests |-> Idle] /\ uses = [x \in Invites \cup Resets |-> 0]
      /\ resets = [x \in Resets |-> None]
  BY DEF Init, Fresh, Quiet
<1>2. ASSUME NEW x \in Invites \cup Resets
      PROVE  uses[x] + Cardinality(Inside(x)) <= Cardinality(Requests)
  <2>1. uses[x] = 0
    BY <1>1
  <2> QED
    BY <2>1, InsideCounts
<1>3. \A r \in Requests : ~InTransaction(r) /\ Stands(request[r])
  BY <1>1 DEF InTransaction, Stands, Idle
<1>4. OneLive /\ \A x \in Invites \cup Resets : uses[x] <= 1
  BY <1>1 DEF OneLive
<1> QED
  BY <1>2, <1>3, <1>4 DEF TransactionsOK

LEMMA Transactional == Spec => [](IInv /\ TransactionsOK)
<1>1. Init => TransactionsOK
  BY InitTransacts
<1>2. TransactionsOK /\ IInv /\ IInv' /\ [Next]_vars => TransactionsOK'
  BY NextTransacts
<1> QED
  BY <1>1, <1>2, Inductive, PTL DEF Spec

----------------------------------------------------------------------------
(* Who is in an organization changes one person at a time, and only after   *)
(* the count of a request that joins.                                       *)

(* Somebody gets in: those counted were below the limit, and the others     *)
(* joined since.                                                            *)
LEMMA SeatTaken ==
  ASSUME NEW S, NEW T, NEW A, IsFiniteSet(S), IsFiniteSet(A), NEW p, T \subseteq S \cup {p},
         NEW n \in Nat, Cardinality(A) < n
  PROVE  Cardinality(T) <= n + Cardinality(S \ A)
<1> DEFINE U == A \cup (S \ A)
<1>1. IsFiniteSet(S \ A) /\ Cardinality(S \ A) \in Nat /\ Cardinality(A) \in Nat
  <2>1. S \ A \subseteq S
    OBVIOUS
  <2>2. IsFiniteSet(S \ A)
    BY <2>1, FS_Subset
  <2> QED
    BY <2>2, FS_CardinalityType
<1>2. IsFiniteSet(U) /\ Cardinality(U) = Cardinality(A) + Cardinality(S \ A)
  <2>1. A \cap (S \ A) = {}
    OBVIOUS
  <2>2. /\ IsFiniteSet(U)
        /\ Cardinality(U) = Cardinality(A) + Cardinality(S \ A) - Cardinality(A \cap (S \ A))
    BY <1>1, FS_Union
  <2>3. Cardinality(A \cap (S \ A)) = 0
    BY <2>1, FS_EmptySet
  <2> QED
    BY <1>1, <2>2, <2>3
<1>3. T \subseteq U \cup {p}
  OBVIOUS
<1> HIDE DEF U
<1>4. /\ IsFiniteSet(U \cup {p}) /\ Cardinality(U) \in Nat
      /\ Cardinality(U \cup {p}) = IF p \in U THEN Cardinality(U) ELSE Cardinality(U) + 1
  BY <1>2, FS_AddElement, FS_CardinalityType
<1>5. IsFiniteSet(T) /\ Cardinality(T) <= Cardinality(U \cup {p})
  BY <1>3, <1>4, FS_Subset
<1>6. Cardinality(T) \in Nat
  BY <1>5, FS_CardinalityType
<1> QED
  BY <1>1, <1>2, <1>4, <1>5, <1>6

Walled(o) == offering = "hosted" /\ orgs[o] # None

(* AcceptOrgInvite writes to the organization it counted.                   *)
LEMMA AcceptSeats ==
  ASSUME IInv, NEW r \in Requests, AcceptOrgInvite(r), NEW o \in Orgs,
         \E p \in People : roles'[o][p] # None /\ roles[o][p] = None
  PROVE  /\ At(r, "seated") /\ invites[request[r].invite].org = o
         /\ request[r].limit # 0 =>
              Cardinality(Members(o)') <=
                request[r].limit + Cardinality(Members(o) \ request[r].among)
<1> DEFINE a == request[r]
           k == a.invite
           p == a.person
           role == invites[k].role
           limit == a.limit
           among == a.among
<1>1. /\ a \in Request /\ a.at = "seated" /\ k \in Invites /\ p \in People
      /\ invites[k] # None /\ limit \in Nat /\ among \subseteq People
      /\ limit # 0 => Cardinality(among) < limit
  BY RequestFields DEF IInv, RequestsOK, Holds, AcceptOrgInvite, At
<1>2. invites[k].org \in Orgs /\ roles \in [Orgs -> [People -> Roles \cup {None}]]
  BY <1>1 DEF IInv, TypeOK, Invitation
<1>3. roles' = IF a.joins THEN [roles EXCEPT ![invites[k].org][p] = role] ELSE roles
  BY DEF AcceptOrgInvite
<1>4. At(r, "seated")
  BY <1>1 DEF At
<1> HIDE DEF a, k, p, role, limit, among
<1>5. invites[k].org = o /\ \A q \in People : q # p => roles'[o][q] = roles[o][q]
  BY <1>1, <1>2, <1>3
<1>6. Members(o)' \subseteq Members(o) \cup {p}
  BY <1>5 DEF Members
<1>7. IsFiniteSet(Members(o)) /\ IsFiniteSet(among)
  BY <1>1, FewPeople, FS_Subset DEF Members
<1>8. limit # 0 => Cardinality(Members(o)') <= limit + Cardinality(Members(o) \ among)
  BY <1>1, <1>6, <1>7, SeatTaken
<1> QED
  BY <1>4, <1>5, <1>8 DEF k, limit, among, a

(* Every other step of a hosted hub lets nobody into an organization that   *)
(* is there.                                                                *)
LEMMA OthersSeatNobody ==
  ASSUME IInv, [Next]_vars, NEW o \in Orgs, Walled(o),
         ~ \E r \in Requests : AcceptOrgInvite(r), NEW p \in People, roles'[o][p] # None
  PROVE  roles[o][p] # None
<1>0. roles \in [Orgs -> [People -> Roles \cup {None}]]
  BY DEF IInv, TypeOK
<1>1. CASE UNCHANGED roles
  BY <1>1
<1>2. ASSUME NEW r \in Requests, InsertPlatformAdmin(r) PROVE UNCHANGED roles
  BY <1>2 DEF InsertPlatformAdmin, Walled
<1>3. ASSUME NEW r \in Requests, SetOrgMemberRole(r) PROVE roles[o][p] # None
  <2>1. request[r].org \in Orgs /\ request[r].target \in People
    BY <1>3, RequestFields DEF IInv, RequestsOK, SetOrgMemberRole, At
  <2> QED
    BY <1>0, <1>3, <2>1 DEF SetOrgMemberRole
<1>4. ASSUME NEW r \in Requests, RemoveOrgMember(r) PROVE roles[o][p] # None
  <2>1. request[r].org \in Orgs /\ request[r].target \in People
    BY <1>4, RequestFields DEF IInv, RequestsOK, RemoveOrgMember, At
  <2> QED
    BY <1>0, <1>4, <2>1 DEF RemoveOrgMember
<1>5. ASSUME NEW q \in People, NEW c \in Orgs, handleRegister(q, c) PROVE roles[o][p] # None
  <2>1. c # o /\ roles' = [roles EXCEPT ![c][q] = "owner"]
    BY <1>5 DEF handleRegister, IsNext, InsertFounder, Walled
  <2> QED
    BY <1>0, <2>1
<1>6. CASE Restart
  BY <1>0, <1>6 DEF Restart
<1>7. ASSUME NEW r \in Requests, Claims(r) PROVE roles[o][p] # None
  <2>1. InsertPlatformAdmin(r) \/ UNCHANGED roles
    BY <1>7 DEF Claims, handleSetup, Begin, ClaimFails, Refuse, ConsumeClaim, tables
  <2> QED
    BY <1>1, <1>2, <2>1
<1>8. ASSUME NEW r \in Requests, Memberships(r) PROVE roles[o][p] # None
  <2>1. SetOrgMemberRole(r) \/ RemoveOrgMember(r) \/ UNCHANGED roles
    BY <1>8 DEF Memberships, handleSetOrgMemberRole, handleRemoveOrgMember,
                handleCreateOrgInvite, credentialOf, Begin, AuthorizeSetRole, AuthorizeRemove,
                CheckInvite, RetireSent, CreateOrgInvite, Go, Refuse, tables
  <2> QED
    BY <1>1, <1>3, <1>4, <2>1
<1>9. ASSUME NEW r \in Requests, Secrets(r) PROVE UNCHANGED roles
  BY <1>9 DEF Secrets, handleInviteRedeem, FindInvite, CountPeople, Rollback,
              handlePasswordForgot, RetireResets, CreatePasswordReset, handlePasswordReset,
              FindReset, ResetAccountPassword, Begin, Go, Refuse, tables
<1>10. CASE AtOnce
  <2>1. (\E q \in People, c \in Orgs : handleRegister(q, c)) \/ UNCHANGED roles
    BY <1>10 DEF AtOnce, handleRevokeOrgInvite, handleSetOrgPlan, handleSetOrgMode
  <2> QED
    BY <1>1, <1>5, <2>1
<1>11. CASE Expire \/ UNCHANGED vars
  BY <1>1, <1>11 DEF Expire, vars, tables
<1> QED
  BY <1>1, <1>6, <1>7, <1>8, <1>9, <1>10, <1>11 DEF Next

----------------------------------------------------------------------------
(* The theorems.                                                            *)

(* The tables keep their types, and what refers to an organization or to an *)
(* account refers to one that is there.                                     *)
THEOREM PeopleTyped == Spec => []TypeOK
<1>1. IInv => TypeOK
  BY DEF IInv
<1> QED
  BY <1>1, Inductive, PTL

(* However many claim the hub at once, one of them is its admin.            *)
THEOREM OneAdminOnly == Spec => []AtMostOneAdmin
<1>1. IInv => AtMostOneAdmin
  <2> SUFFICES ASSUME IInv PROVE AtMostOneAdmin
    OBVIOUS
  <2> DEFINE A == {p \in People : PlatformAdmin(p)}
  <2>1. \A p, q \in A : p = q
    BY DEF IInv, OneAdmin
  <2>2. CASE A = {}
    BY <2>2, FS_EmptySet DEF AtMostOneAdmin
  <2>3. CASE A # {}
    <3>1. PICK p : A = {p}
      BY <2>1, <2>3
    <3>2. Cardinality({p}) = 1
      BY FS_Singleton
    <3> QED
      BY <3>1, <3>2 DEF AtMostOneAdmin
  <2> QED
    BY <2>2, <2>3
<1> QED
  BY <1>1, Inductive, PTL

(* A failed claim leaves the hub claimable, a claimed hub has no token.     *)
THEOREM TokenFollowsClaim == Spec => []ClaimTokenFollowsClaim
<1>1. IInv => ClaimTokenFollowsClaim
  BY DEF IInv
<1> QED
  BY <1>1, Inductive, PTL

(* A secret that took effect is spent; on SQLite it takes effect once, on   *)
(* Postgres at most once for each request that found it live.               *)
THEOREM SecretsOnce == Spec => []SecretsWorkOnce
<1>1. IInv /\ TransactionsOK => SecretsWorkOnce
  <2> SUFFICES ASSUME IInv, TransactionsOK PROVE SecretsWorkOnce
    OBVIOUS
  <2>1. \A x \in Invites \cup Resets : uses[x] > 0 => ~Unspent(x)
    BY DEF IInv, UsesOK
  <2>2. /\ \A x \in Invites : uses[x] > 0 => ~invites[x].live
        /\ \A x \in Resets : uses[x] > 0 => ~resets[x].live
    BY <2>1 DEF Unspent
  <2>3. ASSUME NEW x \in Invites \cup Resets
        PROVE  uses[x] <= IF database = "sqlite" THEN 1 ELSE Cardinality(Requests)
    <3>1. uses[x] + Cardinality(Inside(x)) <= Cardinality(Requests) /\ uses[x] \in Nat
      BY DEF TransactionsOK, IInv, UsesOK
    <3>2. uses[x] <= Cardinality(Requests)
      BY <3>1, InsideCounts
    <3>3. database = "sqlite" => uses[x] <= 1
      BY DEF TransactionsOK
    <3> QED
      BY <3>2, <3>3
  <2>4. ASSUME NEW p \in People, database = "sqlite" PROVE Cardinality(ResetsOf(p)) <= 1
    <3>1. \A x, y \in ResetsOf(p) : x = y
      BY <2>4 DEF TransactionsOK, OneLive, ResetsOf
    <3>2. CASE ResetsOf(p) = {}
      BY <3>2, FS_EmptySet
    <3>3. CASE ResetsOf(p) # {}
      <4>1. PICK x : ResetsOf(p) = {x}
        BY <3>1, <3>3
      <4>2. Cardinality({x}) = 1
        BY FS_Singleton
      <4> QED
        BY <4>1, <4>2
    <3> QED
      BY <3>2, <3>3
  <2>5. ASSUME NEW p \in People, accounts[p] # None PROVE accounts[p].password \notin ResetsOf(p)
    BY <2>5 DEF IInv, ResetsOK, ResetsOf
  <2> QED
    BY <2>2, <2>3, <2>4, <2>5 DEF SecretsWorkOnce
<1> QED
  BY <1>1, Transactional, PTL

(* Nobody joins a full organization of a hosted hub, but beside those who   *)
(* joined since he was counted.                                             *)
THEOREM WallsStand == Spec => SeatsHold
<1>1. IInv /\ [Next]_vars =>
        [\A o \in Orgs :
           (offering = "hosted" /\ orgs[o] # None /\ Members(o)' \ Members(o) # {}) =>
             \E r \in Requests :
               /\ At(r, "seated") /\ invites[request[r].invite].org = o
               /\ request[r].limit # 0 =>
                    Cardinality(Members(o)') <=
                      request[r].limit + Cardinality(Members(o) \ request[r].among)]_vars
  <2> SUFFICES ASSUME IInv, [Next]_vars, NEW o \in Orgs, Walled(o),
                      Members(o)' \ Members(o) # {}
               PROVE  \E r \in Requests :
                        /\ At(r, "seated") /\ invites[request[r].invite].org = o
                        /\ request[r].limit # 0 =>
                             Cardinality(Members(o)') <=
                               request[r].limit + Cardinality(Members(o) \ request[r].among)
    BY DEF Walled
  <2>1. \E p \in People : roles'[o][p] # None /\ roles[o][p] = None
    BY DEF Members
  <2>2. PICK r \in Requests : AcceptOrgInvite(r)
    BY <2>1, OthersSeatNobody
  <2> QED
    BY <2>1, <2>2, AcceptSeats
<1> QED
  BY <1>1, Inductive, PTL DEF Spec, SeatsHold

=============================================================================
