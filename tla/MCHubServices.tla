--------------------------- MODULE MCHubServices ---------------------------
(****************************************************************************)
(* The services of the hub and the enrolment of a gateway, which meet       *)
(* neither in a table nor in a call: one behaviour is about one of them,    *)
(* `part`, while the others rest as they began.  So every property is asked *)
(* of each service with all its interleavings, and one search answers for   *)
(* all.  The browser terminals of HubConnections are here, its other        *)
(* questions in MCConnectorServices.  The people's module is extended, and  *)
(* keeps its names; the others are the instances of HubServices.            *)
(****************************************************************************)
EXTENDS MCHubPeople, HubServices

VARIABLES
  part,
  conn_registry, conn_sock, conn_handler, conn_displaced, conn_nextId, conn_pending,
  conn_failing, conn_asked, conn_channels, conn_req, conn_term

peopleVars == vars
connVars == <<conn_registry, conn_sock, conn_handler, conn_displaced, conn_nextId,
  conn_pending, conn_failing, conn_asked, conn_channels, conn_req, conn_term>>

SeatsOf == [p \in Plans |-> IF p = Free THEN 2 ELSE 0]

Holders == {"ann", "bob", "cid"}
Companies == {"org1", "org2"}

(* What is asked of the hub, and the scopes tokens are asked for with.      *)
A(route, cap) == [route |-> route, cap |-> cap, org |-> None, project |-> None, connector |-> None]

WhatIsAsked ==
  {[A("connector", "exec:fleet.connector") EXCEPT !.connector = c] : c \in {"c1", "c2"}}
  \cup {[A("connector", "write:fleet.file") EXCEPT !.connector = "c1", !.project = "p3"],
        [A("project", "exec:fleet.connector") EXCEPT !.project = "p3"],
        A("fleet", "read:fleet.connector"), A("installation", "read:hub.update")}
  \cup {[A("fleet", "create:fleet.connector") EXCEPT !.connector = "c2", !.project = p] : p \in {"p3", None}}
  \cup {[A("mint", "read:hub.org") EXCEPT !.org = "org1", !.project = p] : p \in {"p1", "p3"}}
  \cup {[A("org", "admin:hub.org") EXCEPT !.org = "org1"],
        [A("project", "admin:hub.project") EXCEPT !.project = "p1"],
        A("fleet", "read:hub.event"),
        A("org", "read:hub.org"), A("mint", "read:hub.org"), A("mint admin", "read:hub.org")}

TokenScopes ==
  {{"read:hub.project", "exec:fleet.connector"}, {"admin:hub.org"},
   {"read:hub.project", "create:fleet.connector", "admin:hub.project"}}

(* A trial is an invoice of nothing, which sets the plan as the event of a  *)
(* checkout does; a payment is invoiced.                                    *)
Buyer == [e \in {"trial", "payment"} |-> "org1"]
Bought == [e \in {"trial", "payment"} |-> IF e = "payment" THEN "starter" ELSE "team"]

OneTry == [n \in 1..1 |-> 1]

(* A browser terminal on a connector that dials in twice.                   *)
Bridges == INSTANCE HubConnections WITH
  Connectors <- {"c1"}, Conns <- {"s1", "s2"}, ConnectorOf <- [s1 |-> "c1", s2 |-> "c1"],
  Requests <- {}, Terminals <- {1}, MaxId <- 1,
  registry <- conn_registry, sock <- conn_sock, handler <- conn_handler,
  displaced <- conn_displaced, nextId <- conn_nextId, pending <- conn_pending,
  failing <- conn_failing, asked <- conn_asked, channels <- conn_channels,
  req <- conn_req, term <- conn_term

----------------------------------------------------------------------------
(* Where behaviours begin.                                                  *)

(* A hosted hub that cid operates: ann owns org1 with bob as a member, bob  *)
(* owns org2.                                                               *)
Hosting ==
  /\ access_orgs = Companies
  /\ access_roles = [o \in Companies |-> [a \in Holders |->
                      CASE o = "org1" /\ a = "ann" -> "owner" [] o = "org1" /\ a = "bob" -> "member"
                        [] o = "org2" /\ a = "bob" -> "owner" [] OTHER -> None]]
  /\ access_projects = [p1 |-> "org1", p2 |-> "org1", p3 |-> "org2"]
  /\ access_attached = {<<"p1", "c1">>, <<"p2", "c2">>, <<"p3", "c2">>}
  /\ \E a \in {"bob", "cid"} : access_sessions = [s1 |-> a, s2 |-> None]

(* A hub that was claimed before accounts existed.                          *)
Anonymous ==
  /\ access_orgs = {}
  /\ access_roles = [o \in Companies |-> [a \in Holders |-> None]]
  /\ access_projects = [p1 |-> None, p2 |-> None, p3 |-> Access!Deleted]
  /\ access_attached = {<<"p1", "c1">>}
  /\ access_sessions = [s1 |-> "legacy", s2 |-> None]

NoRequest == access_tokens = [t1 |-> None] /\ Access!Init

(* The plan's only project is in use on the plan's only machine.            *)
OneProject ==
  /\ project_project = [p1 |-> [selected |-> "c1", activity |-> 0, warned |-> FALSE],
                        p2 |-> None, p3 |-> None]
  /\ project_enrolled = [p1 |-> <<"c1">>, p2 |-> <<>>, p3 |-> <<>>]
  /\ project_machines = {"c1"} /\ project_online = {} /\ project_outputs = {}
  /\ project_request = <<Project!Idle, Project!Idle>>
  /\ project_sweep = Project!Resting
  /\ project_clock = 1 /\ project_used = [p1 |-> 0, p2 |-> 0, p3 |-> 0] /\ project_calls = 0

(* The connector updates itself on the hub's machine or on one of its own.  *)
ServicesInit ==
  /\ part \in {"people", "access", "mail", "billing", "project", "update", "enrol", "bridges"}
  /\ IF part = "people" THEN MCInit ELSE InService /\ offering = "hosted"
  /\ IF part = "access" THEN Hosting \/ Anonymous ELSE Anonymous
  /\ NoRequest
  /\ Mail!Init /\ mail_drains \in {{"w1"}, {"w1", "w2"}}
  /\ part = "mail" \/ mail_drains = {"w1"}
  /\ Bill!Init /\ (part = "billing" \/ billing_ready)
  /\ OneProject
  /\ Update!Init /\ update_machine["hub"] = "m1"
  /\ part = "update" \/ update_machine["connector"] = "m1"
  /\ Enrol!Init
  /\ Bridges!Init

allVars == <<part, peopleVars, accessVars, mailVars, billingVars, projectVars, updateVars, enrolVars, connVars>>

(* The step of one service; the others rest.                                *)
PeopleStep == part = "people" /\ Next /\ UNCHANGED <<part, accessVars, mailVars, billingVars, projectVars, updateVars, enrolVars, connVars>>
AccessStep == part = "access" /\ Access!Next /\ UNCHANGED <<part, peopleVars, mailVars, billingVars, projectVars, updateVars, enrolVars, connVars>>
MailStep == part = "mail" /\ Mail!Next /\ UNCHANGED <<part, peopleVars, accessVars, billingVars, projectVars, updateVars, enrolVars, connVars>>
BillStep == part = "billing" /\ Bill!Next /\ UNCHANGED <<part, peopleVars, accessVars, mailVars, projectVars, updateVars, enrolVars, connVars>>
ProjectStep == part = "project" /\ Project!Next /\ UNCHANGED <<part, peopleVars, accessVars, mailVars, billingVars, updateVars, enrolVars, connVars>>
UpdateStep == part = "update" /\ Update!Next /\ UNCHANGED <<part, peopleVars, accessVars, mailVars, billingVars, projectVars, enrolVars, connVars>>
EnrolStep == part = "enrol" /\ Enrol!Next /\ UNCHANGED <<part, peopleVars, accessVars, mailVars, billingVars, projectVars, updateVars, connVars>>
BridgesStep == part = "bridges" /\ Bridges!Next /\ UNCHANGED <<part, peopleVars, accessVars, mailVars, billingVars, projectVars, updateVars, enrolVars>>

ServicesNext ==
  \/ PeopleStep \/ AccessStep \/ MailStep \/ BillStep
  \/ ProjectStep \/ UpdateStep \/ EnrolStep \/ BridgesStep

(* What there is to compare in a behaviour: nothing of a service that rests. *)
billingView == IF part = "billing" THEN billingVars ELSE <<>>
updateView == IF part = "update" THEN updateVars ELSE <<>>

(* The fairness of Billing and of Updates, in the behaviours about each.    *)
Fairness ==
  /\ \A e \in {"trial", "payment"} :
       WF_billingView(part = "billing" /\ UNCHANGED part /\ \E d \in Deliveries : Bill!Running(e) = {} /\ Bill!Deliver(d, e))
  /\ \A d \in Deliveries : WF_billingView(part = "billing" /\ UNCHANGED part /\ Bill!Advance(d))
  /\ \A p \in Update!Processes : WF_updateView(part = "update" /\ UNCHANGED part /\ Update!Replace(p))
  /\ WF_updateView(part = "update" /\ UNCHANGED part /\ Update!Connect)
  /\ WF_updateView(part = "update" /\ UNCHANGED part /\ Update!StartUpdate)
  /\ WF_updateView(part = "update" /\ UNCHANGED part /\ Update!Serve)
  /\ WF_updateView(part = "update" /\ UNCHANGED part /\ Update!HourPasses)
  /\ WF_updateView(part = "update" /\ UNCHANGED part /\ Update!restartWhenIdle)
  /\ WF_updateView(part = "update" /\ UNCHANGED part /\ Update!ReadFails)
  /\ WF_updateView(part = "update" /\ UNCHANGED part /\ Update!DownloadCancelled)
  /\ WF_updateView(part = "update" /\ UNCHANGED part /\ Update!execDone)

ServicesSpec == ServicesInit /\ [][ServicesNext]_allVars /\ Fairness

----------------------------------------------------------------------------
(* The types of the service the behaviour is about.                         *)
PartsTyped ==
  CASE part = "people" -> TypeOK [] part = "access" -> Access!TypeOK
    [] part = "mail" -> Mail!TypeOK [] part = "billing" -> Bill!TypeOK
    [] part = "project" -> Project!TypeOK [] part = "update" -> Update!TypeOK
    [] part = "enrol" -> Enrol!TypeOK
    [] part = "bridges" -> Bridges!TypeOK

=============================================================================
