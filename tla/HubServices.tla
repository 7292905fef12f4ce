---------------------------- MODULE HubServices ----------------------------
(****************************************************************************)
(* Six services that meet neither in a table nor in a call: permissions,    *)
(* mail, billing and projects of a hub, the updates of hub and connector,   *)
(* and the enrolment of machines.  Each is an instance of its module with   *)
(* variables and constants of its own, so one behaviour, one search and one *)
(* set of theorems can be about all of them.  What theorems assume of the   *)
(* constants is stated here, and evaluated on the instance MCHubServices.   *)
(****************************************************************************)
EXTENDS Authz

CONSTANTS
  Gone,                \* a row that is no more (None: no row yet)
  \* permissions
  AccessAccounts, AccessOperator, AccessLegacy, AccessOrgs, AccessProjects, AccessConnectors,
  AccessSessions, AccessTokens, AccessRequests, AccessScopeSets, AccessAsks, AccessHosted,
  MaxAccessCalls, MaxAccessMoves,
  \* mail
  Mails, MailWorkers, MaxAttempts, Backoff, StaleAfter, SendWithin, RetainFor, EnqueueBy,
  MaxMailTime, MaxMailFaults,
  \* billing
  BillingOrgs, Checkouts, Invoices, Charged, BuyerOf, BoughtPlan, BillingFree, Deliveries,
  MaxBillingFaults, MaxBillingMoves,
  \* projects
  HubProjectIds, ProjectMachines, ProjectRequests, ProjectLimit, MachineLimit, IdleAfter,
  WarnAfter, MaxProjectTime, MaxProjectCalls,
  \* updates
  UpdateMachines, MaxVersion, MaxExecs, MaxUpdateFaults, MaxUpdateMoves,
  \* enrolment
  EnrolProjects, EnrolOrgs, EnrolRequests, EnrolTokens, EnrolConnectors, EnrolMachines,
  MaxEnrolFaults

VARIABLES
  access_orgs, access_roles, access_projects, access_attached, access_sessions,
  access_tokens, access_access, access_seen, access_served, access_moves,
  mail_outbox, mail_worker, mail_drains, mail_clock, mail_faults,
  billing_ready, billing_orgs, billing_opened, billing_event, billing_delivery,
  billing_recorded, billing_issued, billing_doubts, billing_faults, billing_moves,
  project_project, project_enrolled, project_machines, project_online, project_outputs,
  project_request, project_sweep, project_clock, project_used, project_calls,
  update_machine, update_file, update_running, update_op, update_manager,
  update_connector, update_execs, update_latest, update_faults, update_moves,
  enrol_projects, enrol_tokens, enrol_connectors, enrol_call, enrol_config, enrol_worker,
  enrol_recovering, enrol_enrolments, enrol_faults

accessVars == <<access_orgs, access_roles, access_projects, access_attached, access_sessions,
  access_tokens, access_access, access_seen, access_served, access_moves>>
mailVars == <<mail_outbox, mail_worker, mail_drains, mail_clock, mail_faults>>
billingVars == <<billing_ready, billing_orgs, billing_opened, billing_event, billing_delivery,
  billing_recorded, billing_issued, billing_doubts, billing_faults, billing_moves>>
projectVars == <<project_project, project_enrolled, project_machines, project_online,
  project_outputs, project_request, project_sweep, project_clock, project_used,
  project_calls>>
updateVars == <<update_machine, update_file, update_running, update_op, update_manager,
  update_connector, update_execs, update_latest, update_faults, update_moves>>
enrolVars == <<enrol_projects, enrol_tokens, enrol_connectors, enrol_call, enrol_config,
  enrol_worker, enrol_recovering, enrol_enrolments, enrol_faults>>

----------------------------------------------------------------------------
(* The services.  A constant that is not renamed has the name its module    *)
(* gives it.                                                                *)

Access == INSTANCE HubAccess WITH
  Accounts <- AccessAccounts, Operator <- AccessOperator, Legacy <- AccessLegacy,
  Orgs <- AccessOrgs, Projects <- AccessProjects, Connectors <- AccessConnectors,
  Sessions <- AccessSessions, Tokens <- AccessTokens, Requests <- AccessRequests,
  ScopeSets <- AccessScopeSets, Asks <- AccessAsks, Hosted <- AccessHosted,
  MaxCalls <- MaxAccessCalls, MaxMoves <- MaxAccessMoves,
  orgs <- access_orgs, roles <- access_roles, projects <- access_projects,
  attached <- access_attached, sessions <- access_sessions, tokens <- access_tokens,
  access <- access_access, seen <- access_seen, served <- access_served,
  moves <- access_moves

Mail == INSTANCE MailOutbox WITH
  Workers <- MailWorkers, MaxTime <- MaxMailTime, MaxFaults <- MaxMailFaults,
  outbox <- mail_outbox, worker <- mail_worker, drains <- mail_drains, clock <- mail_clock,
  faults <- mail_faults

Bill == INSTANCE Billing WITH
  Orgs <- BillingOrgs, OrgOf <- BuyerOf, PlanOf <- BoughtPlan, Free <- BillingFree,
  MaxFaults <- MaxBillingFaults, MaxMoves <- MaxBillingMoves,
  ready <- billing_ready, orgs <- billing_orgs, opened <- billing_opened, event <- billing_event,
  delivery <- billing_delivery, recorded <- billing_recorded, issued <- billing_issued,
  doubts <- billing_doubts, faults <- billing_faults, moves <- billing_moves

Project == INSTANCE HubProjects WITH
  Projects <- HubProjectIds, Connectors <- ProjectMachines, Requests <- ProjectRequests,
  MaxTime <- MaxProjectTime, MaxCalls <- MaxProjectCalls,
  project <- project_project, enrolled <- project_enrolled, machines <- project_machines,
  online <- project_online, outputs <- project_outputs, request <- project_request,
  sweep <- project_sweep, clock <- project_clock, used <- project_used,
  calls <- project_calls

Update == INSTANCE Updates WITH
  Machines <- UpdateMachines, MaxFaults <- MaxUpdateFaults, MaxMoves <- MaxUpdateMoves,
  machine <- update_machine, file <- update_file, running <- update_running,
  op <- update_op, manager <- update_manager, connector <- update_connector,
  execs <- update_execs, latest <- update_latest, faults <- update_faults,
  moves <- update_moves

Enrol == INSTANCE Enrolment WITH
  Projects <- EnrolProjects, Orgs <- EnrolOrgs, Creations <- EnrolRequests,
  Tokens <- EnrolTokens, Connectors <- EnrolConnectors,
  Machines <- EnrolMachines, MaxFaults <- MaxEnrolFaults,
  projects <- enrol_projects, tokens <- enrol_tokens, connectors <- enrol_connectors,
  call <- enrol_call, config <- enrol_config, worker <- enrol_worker,
  recovering <- enrol_recovering, enrolments <- enrol_enrolments, faults <- enrol_faults

----------------------------------------------------------------------------
(* What the theorems assume: ids and rows that are told apart, bounds that  *)
(* are numbers, and the sizes each module states.                           *)

ASSUME AccessAssumption == Access!Names /\ Access!Routes
ASSUME MailAssumption == IsFiniteSet(Mails) /\ Mail!Sizes /\ Mail!NotRows
ASSUME BillingAssumption == IsFiniteSet(Deliveries) /\ Bill!Bounds
ASSUME ProjectAssumption == IsFiniteSet(ProjectRequests) /\ Project!Sizes
ASSUME UpdateAssumption == Update!Bounds
ASSUME EnrolAssumption == Enrol!NotRows /\ Enrol!Bounds

----------------------------------------------------------------------------
(* The properties are those of the services; each module says what they     *)
(* mean and which code they are about.                                      *)

(* What a request does its account could do while it ran (auth.go).         *)
ActsAreCovered == Access!ActsAreCovered

(* A token never reaches beyond its minter (api_tokens.go).                 *)
TokensWithinMinter == Access!TokensWithinMinter

(* A project that is listed for a request can be routed to by it.           *)
ListedIsRoutable == Access!ListedIsRoutable

(* No two processes send one mail (ClaimDueMail).                           *)
MailHasOneHolder == Mail!MailHasOneHolder

(* Every mail is sent or given up in time (drainMailOutbox).                *)
EveryMailSettles == Mail!EveryMailSettles

(* A mail that is sent or given up stays so (MarkMail...).                  *)
SettledIsFinal == Mail!SettledIsFinal

(* One payment, one fiscal invoice, but for lost answers.                   *)
NoInvoiceWithoutDoubt == Bill!NoInvoiceWithoutDoubt

(* Every payment gets its invoice (issueFiscalInvoice).                     *)
EveryPaymentIsInvoiced == Bill!EveryPaymentIsInvoiced

(* The plan's walls hold up to the requests under way.                      *)
WallsHold == Project!WallsHold

(* The sweep deletes only what nobody used (idle_project.go).               *)
OnlyIdleAreDeleted == Project!OnlyIdleAreDeleted

(* A whole executable is at its path at any time (updater.go).              *)
ExecutableIsWhole == Update!ExecutableIsWhole

(* A connector ends up on its hub's release (agent/update.go).              *)
ConnectorFollowsHub == Update!ConnectorFollowsHub

(* A token enrols one machine, into its project (enroll.go).                *)
EnrolledOnce == Enrol!EnrolledOnce

============================================================================
