------------------------------ MODULE Enrolment ------------------------------
(***************************************************************************)
(* How a machine becomes a connector of a project on a gateway, and how a  *)
(* self-host hub enrols the machine it runs on for the first project of an *)
(* organization (internal/gateway/enroll.go, connector.go, server.go,      *)
(* internal/hub/selfhost_worker.go, internal/agent/enroll.go).             *)
(*                                                                         *)
(* Whoever holds a token may present it, several at once.  The gateway     *)
(* burns the token in one statement and creates the connector in another.  *)
(* Several projects may be created at once, and each creation goes on to   *)
(* bind the hub's machine while the others do.                             *)
(***************************************************************************)
EXTENDS Naturals, FiniteSets

CONSTANTS
  Projects,          \* ids a project of the hub may get
  Orgs,              \* organizations of the hub
  Creations,         \* requests that create a project at the same time
  Tokens,            \* ids an enrolment token may get
  Connectors,        \* ids a connector may get
  Machines,          \* machines on which somebody runs "agent enroll"
  None, Gone,        \* no row yet, and no row any more
  MaxFaults          \* bound: calls that fail, restarts

VARIABLES
  projects,          \* [Projects -> row of the hub]
  tokens,            \* [Tokens -> row of the gateway]
  connectors,        \* [Connectors -> row of the gateway]
  call,              \* [Callers -> an enrolment between two of its steps]
  config,            \* the connector in the config file of the hub's machine
  worker,            \* the connector the hub's own agent runs as
  recovering,        \* whether the hub has just started
  enrolments,        \* <<token, project, connector>> of the past (history)
  faults             \* so far (bound only)

vars == <<projects, tokens, connectors, call, config, worker, recovering, enrolments, faults>>

----------------------------------------------------------------------------
(* bindSelfhostWorker runs for a new project and once after a start.        *)
Binders == Creations \cup {"recover"}
Callers == Binders \cup Machines

Existing == {p \in Projects : projects[p] \notin {None, Gone}}
CountProjects(o) == Cardinality({p \in Existing : projects[p].org = o})

Idle == [at |-> "idle"]
At(r, stage) == call[r].at = stage
Step(r, next) == call' = [call EXCEPT ![r] = next]
Done(r) == Step(r, Idle)

IsNext(x, table) == table[x] = None /\ x = CHOOSE y \in DOMAIN table : table[y] = None

ProjectRow == [org : Orgs, connector : Connectors \cup {None}]
TokenRow == [project : Projects, shown : BOOLEAN, used : BOOLEAN, expired : BOOLEAN]
ConnectorRow == [project : Projects]

(* None and Gone are told apart from rows, from ids and from one another.   *)
NotRows ==
  /\ None # Gone /\ None \notin Connectors
  /\ None \notin ProjectRow \cup TokenRow \cup ConnectorRow
  /\ Gone \notin ProjectRow \cup TokenRow

(* The bound is a number, and a machine is no request to the hub.           *)
Bounds == MaxFaults \in Nat /\ Binders \cap Machines = {}

----------------------------------------------------------------------------
(* The token.                                                               *)

CreateEnrollToken(t, p, shown) ==
  /\ IsNext(t, tokens)
  /\ tokens' = [tokens EXCEPT ![t] = [project |-> p, shown |-> shown, used |-> FALSE, expired |-> FALSE]]

(* Somebody who may administer a project of the hub asks for a command to   *)
(* paste; the gateway has no row of the project to check.                   *)
handleCreateEnrollToken(t, p) ==
  /\ p \in Existing /\ CreateEnrollToken(t, p, TRUE)
  /\ UNCHANGED <<projects, connectors, call, config, worker, recovering, enrolments, faults>>

Enroll(m, t) ==
  /\ At(m, "idle") /\ tokens[t] \notin {None, Gone} /\ tokens[t].shown
  /\ Step(m, [at |-> "consume", token |-> t])
  /\ UNCHANGED <<projects, tokens, connectors, config, worker, recovering, enrolments, faults>>

(* Slip: a token that was used is good until it expires.                    *)
ConsumableUntilExpired(t) == tokens[t] # Gone /\ ~tokens[t].expired
Consumable(t) == tokens[t] # Gone /\ ~tokens[t].used /\ ~tokens[t].expired

(* One UPDATE; the project is read from the row it changed.                 *)
ConsumeEnrollToken(r) ==
  LET t == call[r].token
  IN  /\ At(r, "consume")
      /\ IF Consumable(t)
           THEN /\ tokens' = [tokens EXCEPT ![t].used = TRUE]
                /\ Step(r, [at |-> "create", token |-> t, project |-> tokens[t].project])
           ELSE UNCHANGED tokens /\ Done(r)
      /\ UNCHANGED <<projects, connectors, config, worker, recovering, enrolments, faults>>

CreateConnector(r, k) ==
  LET a == call[r]
  IN  /\ At(r, "create") /\ IsNext(k, connectors)
      /\ connectors' = [connectors EXCEPT ![k] = [project |-> a.project]]
      /\ enrolments' = enrolments \cup {<<a.token, a.project, k>>}
      /\ Step(r, [at |-> "answer", connector |-> k, project |-> a.project])
      /\ UNCHANGED <<projects, tokens, config, worker, recovering, faults>>

(* EnrollTo: the machine keeps its credential in a file of its own.         *)
Keep(m) ==
  /\ At(m, "answer") /\ m \in Machines /\ Done(m)
  /\ UNCHANGED <<projects, tokens, connectors, config, worker, recovering, enrolments, faults>>

Expire(t) ==
  /\ tokens[t] \notin {None, Gone} /\ ~tokens[t].expired
  /\ tokens' = [tokens EXCEPT ![t].expired = TRUE]
  /\ UNCHANGED <<projects, connectors, call, config, worker, recovering, enrolments, faults>>

PurgeEnrollTokens(t) ==
  /\ tokens[t] \notin {None, Gone} /\ (tokens[t].used \/ tokens[t].expired)
  /\ tokens' = [tokens EXCEPT ![t] = Gone]
  /\ UNCHANGED <<projects, connectors, call, config, worker, recovering, enrolments, faults>>

----------------------------------------------------------------------------
(* The hub's own machine.                                                   *)

(* Which of the free requests it is says nothing.                           *)
handleCreateProject(r, p, o) ==
  /\ At(r, "idle") /\ r = CHOOSE q \in Creations : At(q, "idle")
  /\ IsNext(p, projects)
  /\ projects' = [projects EXCEPT ![p] = [org |-> o, connector |-> None]]
  /\ Step(r, [at |-> "bind", project |-> p, org |-> o, bound |-> FALSE])
  /\ UNCHANGED <<tokens, connectors, config, worker, recovering, enrolments, faults>>

(* A hub that starts with exactly one project; other requests run already.  *)
recoverSelfhostWorker ==
  /\ recovering /\ recovering' = FALSE
  /\ IF Cardinality(Existing) = 1
       THEN \E p \in Existing :
              Step("recover", [at |-> "bind", project |-> p, org |-> projects[p].org,
                               bound |-> projects[p].connector # None])
       ELSE UNCHANGED call
  /\ UNCHANGED <<projects, tokens, connectors, config, worker, enrolments, faults>>

(* The only project of its organization, without a machine; a config file   *)
(* is used again, whatever project it was written for.                      *)
shouldBindSelfhostWorker(r) ==
  LET a == call[r]
  IN  /\ At(r, "bind")
      /\ IF CountProjects(a.org) # 1 \/ a.bound THEN Done(r)
         ELSE Step(r, IF config = None
                        THEN [at |-> "mint", project |-> a.project]
                        ELSE [at |-> "update", project |-> a.project, connector |-> config])
      /\ UNCHANGED <<projects, tokens, connectors, config, worker, recovering, enrolments, faults>>

mintGatewayEnrollToken(r, t) ==
  /\ At(r, "mint")
  /\ CreateEnrollToken(t, call[r].project, FALSE)
  /\ Step(r, [at |-> "consume", token |-> t])
  /\ UNCHANGED <<projects, connectors, config, worker, recovering, enrolments, faults>>

(* The file is written over when another binder got this far too.           *)
EnrollTo(r) ==
  LET a == call[r]
  IN  /\ At(r, "answer") /\ r \in Binders
      /\ config' = a.connector
      /\ Step(r, [at |-> "update", project |-> a.project, connector |-> a.connector])
      /\ UNCHANGED <<projects, tokens, connectors, worker, recovering, enrolments, faults>>

UpdateProject(r) ==
  LET a == call[r]
  IN  /\ At(r, "update")
      /\ projects' = IF a.project \in Existing
                     THEN [projects EXCEPT ![a.project].connector = a.connector] ELSE projects
      /\ Done(r)
      /\ UNCHANGED <<tokens, connectors, config, worker, recovering, enrolments, faults>>

(* The file is read once, when there is one.                                *)
runSelfhostGatewayAgent ==
  /\ worker = None /\ config # None
  /\ worker' = config
  /\ UNCHANGED <<projects, tokens, connectors, call, config, recovering, enrolments, faults>>

(* The gateway keeps its connectors.                                        *)
DeleteProject(p) ==
  /\ p \in Existing /\ projects' = [projects EXCEPT ![p] = Gone]
  /\ UNCHANGED <<tokens, connectors, call, config, worker, recovering, enrolments, faults>>

----------------------------------------------------------------------------
(* A call that fails, whose answer is lost or whose process dies: what it   *)
(* did stays done.                                                          *)
Fault(r) ==
  /\ ~At(r, "idle") /\ faults < MaxFaults /\ faults' = faults + 1
  /\ Done(r)
  /\ UNCHANGED <<projects, tokens, connectors, config, worker, recovering, enrolments>>

Restart ==
  /\ faults < MaxFaults /\ faults' = faults + 1
  /\ call' = [r \in Callers |-> IF r \in Binders THEN Idle ELSE call[r]]
  /\ worker' = None /\ recovering' = TRUE
  /\ UNCHANGED <<projects, tokens, connectors, config, enrolments>>

Next ==
  \/ \E p \in Projects, t \in Tokens : handleCreateEnrollToken(t, p)
  \/ \E m \in Machines : Keep(m) \/ \E t \in Tokens : Enroll(m, t)
  \/ \E r \in Callers : ConsumeEnrollToken(r) \/ (\E k \in Connectors : CreateConnector(r, k)) \/ Fault(r)
  \/ \E r \in Binders : \/ shouldBindSelfhostWorker(r) \/ EnrollTo(r) \/ UpdateProject(r)
                        \/ \E t \in Tokens : mintGatewayEnrollToken(r, t)
  \/ \E t \in Tokens : Expire(t) \/ PurgeEnrollTokens(t)
  \/ \E p \in Projects : \/ DeleteProject(p)
                         \/ \E r \in Creations, o \in Orgs : handleCreateProject(r, p, o)
  \/ recoverSelfhostWorker \/ runSelfhostGatewayAgent
  \/ Restart

Init ==
  /\ projects = [p \in Projects |-> None]
  /\ tokens = [t \in Tokens |-> None]
  /\ connectors = [k \in Connectors |-> None]
  /\ call = [r \in Callers |-> Idle]
  /\ config = None /\ worker = None /\ recovering = TRUE
  /\ enrolments = {} /\ faults = 0

Spec == Init /\ [][Next]_vars

----------------------------------------------------------------------------
(* Properties.                                                              *)

TypeOK ==
  /\ projects \in [Projects -> ProjectRow \cup {None, Gone}]
  /\ tokens \in [Tokens -> TokenRow \cup {None, Gone}]
  /\ connectors \in [Connectors -> ConnectorRow \cup {None}]
  /\ {config, worker} \subseteq {k \in Connectors : connectors[k] # None} \cup {None}
  /\ faults \in 0..MaxFaults

(* A token makes at most one connector, of the project it was minted for,   *)
(* whoever presents it how often, through failing calls and binders of the  *)
(* hub at work at the same time (ConsumeEnrollToken: "atomically        *)
(* validates and burns a token").                                           *)
EnrolledOnce ==
  /\ \A e, f \in enrolments : e[1] = f[1] => e = f
  /\ \A e \in enrolments :
       /\ connectors[e[3]].project = e[2]
       /\ tokens[e[1]] # Gone => tokens[e[1]].used /\ tokens[e[1]].project = e[2]

=============================================================================
