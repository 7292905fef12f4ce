# initagent: TLA+ specifications

initagent drives a fleet of machines from one place. This directory holds TLA+ models of its
concurrent core and of the hub's services, the TLC configurations that check them on small instances,
and theorems about eight of the modules that TLAPS proves for every instance. It is written for a reader who has the repository.

## 1. The system and its parts

| Part | Where | State it keeps | Operations | Talks to |
|---|---|---|---|---|
| Gateway task plane | `internal/gateway/task.go`, `dispatch.go`, `server.go` | the `tasks` table of one SQLite file, one database connection | enqueue, claim, set state, finish, reap | connectors, through their sockets; the hub calls it over HTTP |
| Task vocabulary | `internal/scheduler` | none | states, transition table, launch modes | gateway |
| Gateway sockets | `internal/gateway/ws.go` | `Gateway.online`; per socket `pending`, `channels`, `nextID` | attach, stats, mark offline, call, terminals | connectors |
| Connector | `internal/agent` | running commands, done files, terminals, update flags | exec, process, send_keys, sessions, restart when idle | hub or gateway: it always dials out |
| Completion | `internal/completion` | `.initagent/runs/<task>.done` | resolve the outcome of a run | gateway and connector |
| Hub sockets | `internal/hub/conns.go`, `ws.go` | `registry.agents`; per socket `pending`, `channels`, `closed` | add, remove, request, teardown, browser terminals, events | connectors, browsers |
| Hub task proxy | `internal/hub/tasks.go`, `task_output.go` | `task_outputs` | forward to the project's gateway, keep the output | gateway |
| Accounts and organizations | `internal/hub/admin.go`, `invite_store.go`, `org_admin.go`, `planlimit.go`, `claim.go`; `internal/authz` | accounts, organizations, members, invitations, the bootstrap token | claim, invite, accept, change role, remove, plan limits | mail, billing |
| Mail outbox | `internal/hub/mail_outbox.go`, `mail_drain.go` | `mail_outbox` | enqueue, claim due, mark sent or failed, purge | mail provider |
| Billing | `internal/hub/billing.go`, `store_billing.go`, `internal/billing` | plan of an organization, recorded invoices | checkout, provider notifications, fiscal invoice | payment provider |
| Boxes | `internal/hub/box_*.go`, model, skill, staff and voice stores | boxes, tokens, `config_version` | edit, poll for changes, manifest | devices |
| Idle projects | `internal/hub/idle_project.go` | activity and warning times | warn, delete | mail, gateway |
| Updates | `internal/hub/update.go`, `internal/agent/update.go`, `internal/updater` | flags, staged binary | check, apply, restart, roll back | releases |
| Permissions and credentials | `internal/authz`, `internal/hub/auth.go`, `admin_token.go`, `projects.go`, `placement.go` | sessions (memory), tokens | resolve a secret, its boundary and its placement, mint, revoke | every handler |
| Enrolment | `internal/gateway/enroll.go`, `connector.go`, `internal/hub/selfhost_worker.go` | tokens and connectors of a gateway, the config file of the hub's machine | mint, consume, create, bind, recover | gateway, hub, machine |

Interaction in one paragraph: a browser, the CLI or MCP calls the hub; a project's tasks are forwarded
to the project's gateway, a separate process with its own database. The gateway enqueues a row, claims
one for a connector, sends the command on the connector's WebSocket, waits, and records the outcome.
Connectors hold one socket (to the hub or to a gateway), redial when it is lost, and keep executing
whatever happens to it.

What makes it hard:

* many request goroutines over one table, with updates that name a row by its id alone;
* rows leased by wall-clock time to machines that outlive the process that leased them;
* sockets replaced before their loss is noticed, so two goroutines serve one connector;
* calls, timeouts and teardown racing on the same maps;
* retried commands whose first execution may be running or done;
* in the hub's database (SQLite or PostgreSQL): checks and writes in separate statements; and on
  PostgreSQL, where every hosted hub runs, transactions that each miss what the other has not committed.

What each part owes:

* task plane: one active row per machine, no attempt overlapping another, an outcome is final, work
  stays in its project, every accepted request is answered;
* sockets: a connector that talks is reachable, a call gets its own result or an error, nothing waits
  for ever, a replaced socket goes away;
* accounts: an organization keeps an owner, seats are oversold only by acceptances that overlap, a spent
  secret is refused to whoever looks; no request does more than its account held while it ran;
* mail and billing: no mail lost, a bounded number of attempts, one fiscal invoice per payment where the
  hub has the invoice service, and more only for calls in doubt;
* boxes: a box converges to the last configuration; idle projects: nothing in use is deleted;
* updates: a whole executable is always at its path, and connectors follow their hub's release;
* enrolment: a token makes one connector, of the project it was minted for.

`PROJECT.json` lists every part and every hazard with the line where it bites.

## 2. Modules

| Module | Models | Role |
|---|---|---|
| `Scheduler` | `internal/scheduler/task.go` | states, transitions |
| `TaskLifecycle` | nothing of the code: the promise | abstract specification |
| `GatewayDispatch` | task plane, connector execution, done files, clock | detailed specification; implements `TaskLifecycle` |
| `GatewayDispatch_proofs`, `HubConnections_proofs`, `BoxConfig_proofs`, `HubPeople_proofs` | | theorems about those modules |
| `HubServices` | | an instance of each of six services, what the theorems assume of their constants, their properties |
| `ConnectorServices` | | the same for presence and a connector's terminals |
| `HubAccess_proofs`, `MailAndBilling_proofs`, `ProjectsAndEnrolment_proofs`, `UpdatesAndSockets_proofs` | | theorems about the services of `HubServices` and `ConnectorServices` |
| `HubConnections` | hub registry, serve loop, calls, terminals | specification |
| `GatewaySockets` | gateway presence map | specification |
| `BoxConfig` | hub tables that reach a box, `config_version`, polls, manifests | specification |
| `Authz` | `internal/authz`: roles, capabilities, grants | operators |
| `HubPeople` | claim, registration, members, invitations, seats, password resets | specification |
| `HubAccess` | sessions, tokens, boundaries and placement of requests | specification |
| `MailOutbox` | outbox rows, the drains of several hubs | specification |
| `Billing` | checkout, provider's notifications, fiscal invoices | specification |
| `Updates` | hub's manager, connector's update loop, swap of the executable | specification |
| `HubProjects` | projects within a plan, machines, outputs, idle sweep | specification |
| `Enrolment` | enrolment tokens, connectors, self-host binding | specification |
| `ConnectorStreams` | a connector's socket, terminals, pumps and sessions without tmux | specification |
| `MCGatewayDispatch`, `MCHubConnections`, `MCGatewaySockets`, `MCBoxConfig`, `MCHubPeople` | | constants and starting states for TLC |
| `MCHubServices` | the services from `HubPeople` to `Enrolment`, browser terminals | extends `MCHubPeople` and `HubServices`; an instance of `HubConnections` |
| `MCConnectorServices` | the hub's sockets and calls, presence, a connector's terminals | extends `MCHubConnections` and `ConnectorServices` |

Each specification has a short section of *slips*: operators that no action uses, each a wrong edit of
one definition (a dropped condition, a stale time, a missing check). Put in place of the original, each
makes TLC find a property violated; they document what the properties are able to notice.

### GatewayDispatch

| State | Code |
|---|---|
| `task[t]` | the row of `tasks`: state, project, `assigned_worker_id`, `lease_expiry`, `created_at`, `exit_code` |
| `req[r]` | a goroutine in `handleCreateTask` → `RunQueued` → `runClaimed`, with its program counter, the row it inserted (`own`) and the row it claimed (`task`) |
| `presence[w]` | `Gateway.online`: no socket, connected, connected but running an older version |
| `exec` | commands executing on machines (`execCommand`, `processCommand`, `runSendKeys`), known to nobody but the machine |
| `astray` | those of `exec` whose socket was lost: their reply will go out on another one (`Agent.send`) |
| `doneFile[w][t]` | `.initagent/runs/<task>.done` on that machine |
| `now` | the wall clock, in seconds as the table stores it |

Steps: `Submit` (handler up to the INSERT), `Admit`/`Refuse`, `Claim` (one transaction: reap, count,
pick the oldest, update), `StartRead`/`StartWrite` and `FinishRead`/`FinishWrite` (a SELECT and an
UPDATE each, which is where other goroutines come in), `Send`/`Recover`/`SendFails`, `CallFails`
(timeout, client gone, write error, disconnect), `ExecutionEnds`, `Attach`, `Detach`, `Crash`, `Tick`.
A command keeps executing when its socket is lost, and its reply goes out on the socket there is when it
ends. `agentConn.deliver` looks at the id alone and ids begin at 1 on every socket, so in `Hears` a command
that is not astray answers the call that asked for it, and one that is may answer the call of any command
asked for on the machine's present socket, or none. Which machines may run a binary older than the gateway is
the constant `Outdated`; only those can be `draining`.
The store opens its database with one connection (`store.go:237`), so a statement or a transaction is
one step. `Claim` that finds no free slot rolls its reaping back: that is `Refuse`, which changes no row.

Assumptions, all visible in the module:

* `RunFitsLease`: the whole run (RPC timeout, 60 s, plus everything else) fits the lease, 300 s. The
  code has no fencing and relies on exactly this. A process suspended for minutes, or a wall clock
  set forward, breaks it.
* `Tick` waits for timers: a run leaves its stage by its due time and a supervised command is dead by
  its own timeout. A connector that dies takes its commands with it: it runs as a systemd unit with
  the default kill mode (`agent/service.go`). A command that leaves children behind is out of the model,
  as the code kills only the shell.
* `exec` and `process` commands are *supervised*; keys typed into tmux (`send_keys`) are not: the
  connector stops watching at its timeout and the command goes on, so the two properties about overlap
  and repetition exclude or qualify that mode.
* The write of a done file may fail (`processCommand` ignores the error).

### TaskLifecycle and the refinement

`TaskLifecycle` states what a submitter may rely on, in terms of phase, owner, project and the set of
tasks being executed: a machine holds one task at a time, of its own project; a task goes back to the
queue only when nobody executes it; an outcome is final. `LifecycleSpec` maps `assigned`, `running` and
`awaiting_attention` to *active*, and a claim that reaps other rows to one `Start` step that takes the
lapsed ones along. It deliberately does not promise that a task with an outcome has stopped executing.

### HubConnections

| State | Code |
|---|---|
| `registry` | `registry.agents` |
| `handler[c]`, `displaced[c]` | where the goroutine of socket `c` stands in `serveAgent`, `add`, the deferred teardown and `remove` |
| `sock[c]` | up; broken, not noticed yet (a write may still be accepted); closed by this process |
| `nextId`, `pending`, `channels` | the fields of `agentConn` |
| `failing[c]` | the calls the teardown took over and has yet to fail |
| `asked[c]` | ids the connector still owes a result for; they survive the socket they were asked on |
| `req`, `term` | goroutines in `request` and `handleTermWS`, with what their reply or exit channel holds |

A step is one critical section of a mutex or one socket operation. `List` joins the atomic increment of
the id to the critical section that follows it: ids are unique either way. The teardown tells each
terminal in `ReadFails`, where the code does so after releasing the lock: the callback only queues.
Events to browsers and the terminal proxy are left out. `Deliver(c, d, i)` is the result of a call asked on
socket `d` that arrives on `c`, the connector's socket by then; when the two differ the call that takes it
has a `Stray` answer. `ResultsMatchCalls` is about the calls of one socket, where ids are never reused
while they are owed; that a stray result harms is shown on the task plane (run `stray_reply`).

### GatewaySockets

`online`, one entry per connector, and where each socket's goroutine stands: `Attach`, `Stats`,
`ReadFails`, `MarkOffline`. Two questions are asked of it: whether what worker selection reads (socket,
project, draining) always belongs to one connection that is served, and whether an entry is what its
comment says, a live connector socket. Calls on these sockets are part of `GatewayDispatch`.

### ConnectorStreams

| State | Code |
|---|---|
| `sock`, `linked`, `opened` | the sockets dialled so far, `Agent.conn`, the channels opened on the last socket |
| `terms[c]` | `Agent.terms`, by channel number; the entry is named by the socket its stream was opened on |
| `stream[s]` | a `termStream`, from the reserved session to the end of its pump |
| `sessions[n]` | `ephByName`: not there, detached, or attached to a stream |

One goroutine reads the socket, so the handlers of terminal messages and `teardown` exclude each other, and
nothing is read while `attachEphemeral` starts a process. Pumps and session requests are goroutines of their
own and outlive the socket. Channels are numbered from 1 on every socket, so the numbers of a lost socket
come back. What the model reaches and no property forbids: `pumpTerm` ends with `delete(a.terms, channel)`
whoever has the channel, so a pump that is reaped late leaves the process opened on that number since out of
the table, running until it exits by itself; and its `term.exit` goes out on the new socket under that number.
File streams, and tmux itself, are left out.

### BoxConfig

| State | Code |
|---|---|
| `db` | boxes with `config_version` and tokens (with whoever minted them), organizations, staff, pins, assignments, overrides, limits, narrators |
| `database` | which of the two databases the hub has, for good |
| `request[a]` | an operator's request between what it validated and what it writes |
| `poll[b]` | `handleBoxConfig`, read by read: the version, the box, its organizations, narrator, models, limits |
| `applied[b]` | the manifest the box last applied |

Each store operation is an operator from one database to the next (`CreateModel`, `SetAssignment`,
`RenameOrg`, ...) and ends with the bump the code makes in the same transaction; which boxes it bumps is
translated from each query, because a forgotten box is exactly what the main property looks for. A poll
reads the version first and the tables after it, in separate statements, so a manifest can be torn: the
box then holds an older version and asks again. A restart runs the factory seeds again. Two things
reach a manifest without a bump in the code, the size an inspection learns of a pin and the seed of a
narrator nobody had read; both are in the model, and `SameConfig`, with which manifests are compared,
overlooks them.

Minting a token is two statements in one transaction, retire the live ones and insert (`CreateBoxToken`).
On SQLite, whose one connection is with the transaction until it ends, that is `MintAlone`. On PostgreSQL
it is `RevokeLive` and `InsertToken`: the UPDATE finds what is committed by then, and there is no unique
index on live tokens. So two operators that mint at once each leave a secret, although the comment at
`box_token_store.go:26` says a box never carries two. `OneLiveToken` says that comment for SQLite and, for
PostgreSQL, what is left of it. Every *other* edit is one step, also on PostgreSQL, where two edit
transactions may overlap as well; what that does to manifests is not explored, so `AppliedIsCurrent` and
`EditsReachTheBox` are said of a hub on SQLite.

### Authz, HubPeople, HubAccess

`Authz` is the permission rule as operators. `HubPeople` has the tables of accounts, organizations,
memberships, invitations and resets, and every handler over them as the steps it really takes: a check
(roster, seats, role change) in one statement, the write in another. The bootstrap token is
memory and a restart rebuilds it from the tables.

Four transactions decide by what they read: the acceptance of an invitation, its creation, the request of a
reset and its use. They are taken apart where it matters, at the read (`FindInvite`, `CountPeople`, `RetireSent`,
`RetireResets`, `FindReset`) and at the commit with the last writes (`AcceptOrgInvite`, `CreateOrgInvite`,
`CreatePasswordReset`, `ResetAccountPassword`), or `Rollback`. `database` says what may come in between.
On PostgreSQL anything: READ COMMITTED shows each statement what others committed and holds nobody up, as
`store.go:2000` and `internal/store/store.go:140` say of their own transactions. On SQLite nothing:
the one connection is taken (`StoreFree`). A hosted hub is on PostgreSQL (`Offered`, after `RequireStart`); a
self-hosted one may be on either. What remains true of the hosted hub is then this:

* seats (`SeatsHold`): whoever joins was counted against the limit, and goes above it only by those who joined
  between that count and the commit. Two acceptances of the last seat do both pass;
* secrets (`SecretsWorkOnce`): a secret that took effect is spent for whoever looks from then on, but
  requests that looked before each have their use of it; on SQLite it works once. A password is never that of a reset
  that is still live, though on PostgreSQL an account may have two live resets;
* the uniqueness that indexes give (one administrator, one account an address, one membership a person, in
  `ClaimConflicts` and `JoinConflicts`) holds on both.

What the model shows on the way and no property
forbids, because the code promises nothing: a role change judged on an old roster may restore an owner
somebody demoted meanwhile; a hosted administrator may accept an invitation and belongs to the customer's
organization until a restart strips it; the status `suspended` is written and read by nobody; a login
that compared the old password before a reset may issue its session after the reset signed everyone out.
Purges of rows nothing reads are left out.

`HubAccess` takes a request through the hub's edge: the secret is looked up (session or token), its
account's roles are read, the boundary (`atOrg`, `atProject`, `atFleet`, `atConnector`, installation) is
read and the rule applied, the handler acts: act on a target, mint a token, list what is visible, or go
on to gateways chosen by `?project=` or by the machine. Members leave, projects go, machines move and
secrets are revoked between any two steps. `seen[r]` is the history of worlds since a request began, and
the reference the properties use: what a request did must have been permitted in *one* of them. The
registry's presence is nondeterministic, and every project is taken to have a gateway. `Init` is any
well-formed tables (`TypeOK`) with no request begun, since a hub starts on the database it finds;
`MCHubServices` picks two. Two things the model makes visible: `atFleet` authorizes at `?connector=` first while placement follows `?project=` and
asks only to read the project; and a machine that is not on the hub's own sockets is placed by
`?project=`, which need not be a project of the machine.

### MailOutbox, Billing

`MailOutbox`: one row per mail, one drain per hub process, which has one mail at a time (`drains` says how many
processes the installation has; there may be fewer than mails due); `ClaimDueMail` (with rows taken back from a
process that died), the send, and the marks, which name a row by its id alone. `SendWithin` is the
provider's client timeout, external, and shorter than `StaleAfter`: a sender that lives and stalls for longer than
`StaleAfter`, whose mail would go out twice, is assumed away. Time passes only as drains poll, so
that a mail settles is a bounded-time invariant (`EveryMailSettles`) and needs no fairness. The bound has room
for a mail's own attempts, a stale claim for each fault, and the attempts of the mails it queues behind. A hub without a
mail provider drains nothing; that case is not explored.

`Billing`: a delivery is a step per statement or call: set the plan, read the mode, ask for the
recorded invoice, read the buyer, issue, record, answer. The provider delivers what is not answered 200, in any order and
twice at a time. An event without an invoice id or an amount (`Charged` has those with both, `billing.go:177`)
sets the plan and is answered; so is every payment of a hub without the invoice service (`ready`,
`billing.go:197`), which `EveryPaymentIsInvoiced` therefore excludes. The call to the service must carry an
idempotency key (`billing.go:233`), the payment's id, and sends it as `oid` (`fakturownia.go:138`). It does not ask the service to
refuse a second invoice of one `oid`, and what the service does with one is not in the repository: `IssueInvoice` lets it make another or
answer with the one it has. `doubts` counts what may have made an invoice that is not recorded: a call that
failed, a record that failed or was lost with the process, deliveries that overlap. Each may cost
a second invoice, and `NoInvoiceWithoutDoubt` says nothing else does. What the code does and no property
forbids: the event that comes last decides the plan; the mode is read from the organization and not from
the event, so a test payment of one that has left develop mode gets a real invoice; a payment of an
incomplete buyer would be acknowledged without one (`EveryPaymentIsInvoiced` shows that a checkout never
leads there). `syncBillingQuantity` and the providers' formats are left out.

### Updates

`file[m]` has the three paths of the swap (executable, `.previous`, `.rollback`), one step per rename, link
or copy, with failures and crashes between them; hub and connector may share one machine and one
executable. A replacement that outlives the socket it was begun on belongs to no later one: it sets
`updateApplied` when it is done, wherever the next socket is by then (`BeforeServing`). `manager` is `updateManager` (checking, applying, what it knows, auto), `connector` the socket
and the update loop of an agent that follows its hub, restarts when idle and redials. What the code does
and no property forbids: a command read between the idle check and the close of the socket is cut; the
copy that stands in for a hard link may be torn and `Rollback` only looks whether the file exists;
installing a release twice makes `.previous` equal to it; a hub that was rolled back and updates itself
upgrades again 15 s after its restart; connectors do not go back with their hub. The swap on Windows is
not modelled.

### HubProjects, Enrolment

`HubProjects`: creating a project and attaching a machine are a check of the plan and a write; the first
machine of a project is selected; the sweep lists projects, then warns or deletes one after the other by
rows it read before, while `touch`, tasks and machines go on. The model also reaches, without a promise
that forbids it: a machine still selected though it is no longer enrolled, an enrolment row and a stored
output of a project that is gone, and a project deleted unwarned because the hub was down for the time
between warning and deletion.

`Enrolment`: tokens of a gateway from mint to purge, `ConsumeEnrollToken` and `CreateConnector` as the two
statements they are, any number of holders of one token, and the hub's binders (one for each project that is
being created, and one after a start) with the config file they share. A binder counts the projects of its project's
organization. The model also reaches: two projects created at
once in one organization that each see the other and bind no worker; two binders that enrol twice and
overwrite the config; the first project of a second organization, which is given the connector of the
first one's config file; a config file whose connector belongs to a project deleted since, which the gateway then refuses.

### HubServices, ConnectorServices and their instances

The services from `HubPeople` to `ConnectorStreams` and `GatewaySockets` share no variable in the model and
meet in the code only through ids. `HubServices` has six of them as instances (permissions, mail, billing,
projects, updates, enrolment), each with variables and constants of its own (`access_`, `mail_`, ...), so that
one search and one set of theorems can speak of all. It states what the theorems assume of the constants
(`AccessAssumption` to `EnrolAssumption`) and gives each property its name: `MailHasOneHolder` of
`HubServices` is `Mail!MailHasOneHolder`. `ConnectorServices` does the same for presence (`GatewaySockets`)
and a connector's terminals (`ConnectorStreams`), with `PresenceAssumption` and `PtyAssumption`.

A behaviour of `MCHubServices` is a behaviour of one service (`part`) and the other variables rest. Nothing
is lost by it for properties that name one service each. The module extends `MCHubPeople`, so the people's
variables and properties keep their names, and `HubServices`, whose assumptions TLC so evaluates on the very
instance it searches. `PartsTyped` is the type invariant of the service the behaviour is about. Only the
type invariant is asked of the terminals of `HubConnections` there: what is wrong with them is run
`hub_terminals`. `MCConnectorServices` is made the same way of `MCHubConnections`, whose variables and
properties keep their names, and `ConnectorServices`.

## 3. Runs

| Run | Instance | Shows |
|---|---|---|
| `dispatch` | 2 tasks (a process and a send_keys run), 2 requests, 2 machines of one project, lease 1, timeout 1, clock to 2; symmetric in requests and machines | types, one row per machine, runs keep their rows, no overlap, completed runs not repeated, final outcomes, refinement of `TaskLifecycle` |
| `projects` | one machine in each of 2 projects, one of them possibly outdated, an exec and a process run, clock to 1, fairness | project isolation; every request answered |
| `own_task` | as `dispatch` | a counterexample: a request may run another request's row |
| `one_command` | as `dispatch` | a counterexample: a machine may execute two commands at once |
| `stray_reply` | 2 tasks, 1 request, 1 machine | a counterexample: a run recorded as done while it executes, on another command's reply |
| `hub_connections` | 1 connector, 2 sockets, 2 callers, 2 ids a socket, fairness; in other behaviours presence and a connector's terminals, below | registry, calls, results, and that calls return and replaced sockets go; the properties of presence and terminals |
| `hub_terminals` | 1 caller, 1 terminal | a counterexample: a terminal that is never told its end |
| `gateway_sockets` | 1 connector, 2 sockets | a counterexample: a live socket taken out of the presence map |
| `boxes` | 2 boxes (one not created yet), 2 organizations, 1 staff member, 2 pins, 2 purposes, 2 operators, 2 edits, both databases, fairness | a box that is told it is current runs the hub's configuration; one live token a box, or one an operator whose mints overlap; a restart keeps what operators chose, every edit reaches the box |
| `box_roster` | as `boxes` | a counterexample: a roster refers to a pin that was deleted |
| `last_owner` | 4 people, 2 organizations, 2 requests at a time, 3 requests, from an organization with two owners | a counterexample: an organization without an owner |
| `hub_services` | one small instance of each of eight services, below | types, and 17 properties, each of one service |

| Service | Instance in `hub_services`; the last two in `hub_connections` | Properties |
|---|---|---|
| people | 3 persons, 2 organizations, 3 invitations, 2 resets, 2 requests at a time, 2 in all, hosted on PostgreSQL and self-host on either database | one administrator; the claim token goes with the claim; a spent secret is refused; nobody joins a full organization but beside another who joins |
| access | 2 owners and an operator, 2 organizations, 3 projects (one deleted), 2 machines, 2 sessions, 1 token, 2 requests, 1 change around them | a request does what its account held on what its target was, in a world it ran in; a token is never more than its minter; what is listed can be reached |
| mail | 2 mails, 1 or 2 drains, 2 attempts, clock to 14, 1 crash or lost mark | one holder; every mail settles; settled is final |
| billing | 1 organization, an invoice of nothing and a payment, 2 deliveries, 2 faults an event, 1 change of mode, with and without the invoice service, fairness | an invoice a payment unless in doubt; every payment is invoiced where there is the service |
| update | 2 machines, 2 releases, 1 command, 1 fault, 1 request of a person, fairness | a whole executable; the connector follows its hub |
| project | 3 projects, 1 machine, 2 requests, clock to 2, plan of 1 project and 1 machine | walls hold up to the requests that race; only idle projects are deleted |
| enrolment | 2 organizations, 2 projects, 2 creations at a time, 1 token, 2 connectors, 2 machines, 1 fault | a token enrols once |
| bridges | 1 connector, 2 sockets, 1 browser terminal | types |
| presence | 2 connectors, 4 sockets, one with an outdated version | socket, project and draining of an entry belong together |
| ptys | 1 session name, 2 sockets, 2 channels, with and without tmux, fairness | input reaches the terminal it is typed into; a session whose PTY is closed frees its name |

Bounds. Two requests and two machines are what any of the races needs: one holds a row or a slot, the
other takes it. Two tasks let one be left behind, reaped or finished while the other is claimed. A lease
of one second and a clock that reaches two let a lease lapse (`lease_expiry < now`) after a crash and the
row be claimed again; a third attempt would repeat the second. Two sockets are one and its replacement;
a third would displace the second as the second did the first. Two names of sessions (244,602 states by
themselves) showed nothing that one does not: sessions meet only in a channel. With two ids a socket, an id can be
reused wrongly while the first is still owed. The proofs of section 5 remove the bounds for
the safety properties they state.

In the hub's services the races are between two requests, or a request and one change around it: a third
only repeats the second. Two invitations out for the last seat are a race for it, the third is one sent meanwhile.
Two attempts let a mail fail, wait and die; one crash is one row taken back. Two faults an event let an
invoice be in doubt and its record fail. Two releases are an update and the one before it. A clock of two
lets a project, last used at 0, be warned and deleted. Larger instances of single services (4 persons; 2 machines in
`HubProjects`) showed nothing new. One machine never comes to the machine half of `WallsHold`: that half rests on the
theorem `Walls`. With one token the second binder waits at its mint; the theorem `OneEnrolment` is about any number of them.

Deadlock is not checked where a supply is finite, because the instance stops when it is used up: sockets
(`HubConnections`, `GatewaySockets`), edits (`BoxConfig`), requests, events and faults (the hub's services), sockets and channels (`ConnectorStreams`).
In `GatewayDispatch` it is checked.

Fairness. `GatewayDispatch!FairSpec`: each request takes steps while it can (Go schedules runnable
goroutines; the call has a timeout, so `CallFails` is among the steps). Nothing is assumed of connectors
or of the network. `HubConnections!FairSpec`: each call proceeds, its context ends, each serving
goroutine goes through its teardown, and reading from a socket this process closed fails. That a broken
socket is ever found out is *not* assumed: the hub sets no read deadline. All callers of `request` in
`api.go` use a context with a timeout. A write is taken to end, one way or the other: the hub sets no write
deadline either, so on a stalled socket that is when the kernel gives up, and until then the context of
the call is not looked at and other writers to that socket wait.

`BoxConfig!Fairness`: an accepted request is carried out and a box polls for ever (external). Restarts
and other edits are not fair. `Billing!Fairness`: a handler runs to its end and the provider redelivers
what was not answered 200 (external, and what the handler's error answers rely on); overlapping
deliveries are not fair. `Updates!Fairness`: timers tick, dials are repeated, downloads and commands end;
nothing is assumed of releases or people. In `MCHubServices` these are fair in
the behaviours about that service, whose variables are compared there (`billingView`, `updateView`). `ConnectorStreams!FairSpec`: a pump
whose PTY is closed, or that has output and no socket, goes on; processes need not exit. The other services are checked for safety only.

## 4. Where the code and its comments differ

1. `hub/tasks.go:36` says the gateway enqueues, claims, runs and returns *the finished row*; `Claim` takes
   the oldest queued row of the project and the id `Enqueue` returned is dropped (`server.go:252`). A
   request refused after its INSERT leaves a row that a later submission runs and is answered with.
2. `gateway/store.go:79`: "one active task per connector". The slot counts rows; a call that ends early
   finishes the row while the machine still executes the command.
3. `hub/ws.go:93` promises a terminal a final exit message; a terminal that fetched its connection before
   the teardown and opened its channel after it gets none (`openChannel` does not look at `closed`).
4. `gateway/store.go:82`: "presence is a live connector socket". `markOffline` deletes by connector id, so
   the goroutine of a replaced socket evicts the live one; the next `stats` message re-creates the entry
   with no socket.
5. `hub/box_model_override_store.go:157` says a roster whose pin is gone "means the database was edited by
   hand": an assignment is validated before the transaction that writes it, `DeleteModel` asks whether a
   pin is in use before the transaction that deletes it, and the two can cross. The manifest of every
   box the assignment reaches then fails.
6. `authz/membership.go:34`: "The last owner cannot be demoted". The role change is judged on a roster read
   before the write, and the write names the member alone: two owners demoted or removed by two requests
   at once both go.
7. `agent/agent.go:53`: "an exec reply the gateway is waiting on is lost with the socket". It is sent on the
   next socket, if there is one by then, under an id that socket has given to another call: the gateway
   records that other run as done, with the exit code of the first, and answers its submitter, while the
   machine still executes it. The lease of the first run expires as the comment says.

One more has no run of its own, because `OneLiveToken` draws the line where it fails: `hub/box_token_store.go:26`
says "a box never carries two live secrets", and on PostgreSQL two mints at once leave it two.

## 5. Proofs

Every theorem holds for every value of the constants under the assumptions named with it, which TLC
confirms on the runs' instances. The inductive invariant of a module that has one is `IInv`; in the modules
about `HubServices` and `ConnectorServices` it is named after the service (`MailInv`, `BillingInv`, ...). A theorem about a service
is about the behaviours of its instance, as in `Mail!Spec => []MailHasOneHolder`.

### GatewayDispatch

`GatewayDispatch_proofs` proves, for any constants that satisfy the assumptions of `GatewayDispatch`:
`TypeCorrect`, `SlotsAreExclusive`, `RunsHoldTheirRows`, `AttemptsNeverOverlap`,
`CompletedRunsStayCompleted`, `ProjectsAreIsolated`, `OutcomesAreFinal` and `ImplementsLifecycle`.

None of these is inductive alone. The invariant `IInv` adds:

* `RowsOK`, `RequestsOK`: rows are only in states some request writes, an active row is on a worker of its
  project, and a request has a worker and, from the claim on, a row;
* `LeaseOutlastsRun`: while a request holds a row, its due time plus the call still to come is within the
  row's lease. This is where `RunFitsLease` enters, and it is why the reaper leaves held rows alone;
* `OneRunPerTask`: two requests never hold one row;
* `ExecutionCovered`: a supervised command that executes belongs either to a finished row or to a running
  row whose lease ends no earlier than the command. It survives a crash of the gateway, which forgets the
  request but not the row, and it is why a reaped row has no command left;
* `NothingSentYet`: before `Send`, the row a request holds has no supervised execution.

The argument: time only passes while every run is within its due time; a run's due time is within its
lease; so a row reaped at `now` has no run and, by `ExecutionCovered`, no execution. From there slot
exclusion, no overlap and finality follow by cases on the action. The refinement uses the same facts:
`Claim` maps to `Start` with the reaped rows as the lapsed ones, and the disjointness of those from the
executing tasks is the invariant.

### HubConnections

`HubConnections_proofs` proves `ConnectionsTyped`, `RegistryHolds`, `NoCallIsStranded` and `ResultsMatch` for
any number of connectors, sockets, calls and terminals, from the module's assumptions (`Tokens`: a socket
presents the token of one connector; `NotAConn`; `Ids`; `FewRequests`: finitely many calls, so that those
holding a connection can be counted). The invariant adds:

* `RegistryKnown`: what is registered was accepted for that connector, and a socket that was not accepted
  has displaced nobody;
* `CallsKnown`: a call under way is on an accepted socket under an id minted there, and a socket lists
  its own calls only;
* `IdsAreFresh`: two calls of one socket have different ids, and an id is not owed before it is listed. It
  is what makes `ResultsMatchCalls` hold, and it breaks when ids are reused or minted from a stale counter;
* `IdsSuffice`: the bound on ids leaves one for each call that holds a socket without an id yet. It is about the bound and
  not about the code, whose counter has 64 bits.

`NoCallIsStranded` is the critical section of `List` and the teardown taking over all of `pending` at once:
either the call is listed before and is failed, or it finds the socket closed.

### BoxConfig

`BoxConfig_proofs` proves `BoxesTyped`, `AppliedCurrent`, `OneSecret` and `ChoicesSurvive` for any number of
boxes, organizations, pins, purposes, operators and edits, from `Defaults`, `Bounded`, `Limited`,
`Factories` (the factory pins are pins, for purposes that exist) and `NoRow`.

The argument is about two databases, before and after. `Advances(d, e)`: no id of a box is used again, no
version goes back, and a version that stands still stands for the same parts of the manifest (`SameParts`). Each
store operation gets a lemma that its result is a well-formed store (`GoodStore`) that advances; there a
bump that is missing from a query would fail the proof. The rest is independent of what an edit does:

* `ReadSoFar`: what a poll has read is the hub's, *unless* the version it read first is no longer the
  box's. A manifest may be torn, but is then labelled with an older version;
* `AppliedOK`: a box is never ahead of the hub, and if it has the hub's version it has the hub's
  configuration, and that configuration resolves;
* `Seeded`: the two flags that keep a restart's seeds from running twice stay set;
* `MintsSee` and `FewSecrets`: a mint on its way has seen every live secret of its own operator, so it retires
  them; on SQLite it has seen all. That is `OneSecret` on each database.

### HubPeople, permissions

`HubPeople_proofs` proves `PeopleTyped`, `OneAdminOnly`, `TokenFollowsClaim`, `SecretsOnce` and `WallsStand`
(an action property) for any number of people, organizations, secrets and requests, from `FewPeople`
(members can be counted), `Catalogue`, `SecretIds` and `NoRow`. `Holds` says what a request found is still
there when it writes: rows change, none goes. `OneAdmin` and `OrgsAreClaimed` (nothing to be in
before the hub is claimed) carry the claim; `UsesOK` (a secret that took effect is spent) and `ResetsOK` (the reset an
account's password is from is spent) carry the secrets on both databases. `TransactionsOK` is about the
requests inside a transaction: a secret's uses and the requests that have found it live are together no more than the requests,
and on SQLite there is one such request at a time and what it found still stands (`Stands`). `WallsStand` follows by
counting: who is a member after the commit was one at the count, or joined since, or is the one who joins.

`HubAccess_proofs` proves `AccessTyped`, `ActsCovered`, `WithinMinter` and `Routable` for any number of
accounts, organizations, projects, machines, secrets and requests, from any tables, under `Names` (`None` is
no id, role or row; the mark of a deleted project is no organization) and `Routes` (a route about a machine or a project
names it, as both are in the path), together `AccessAssumption`. The invariant `AccessOK` has two parts:

* `SeesNow`: the tables of today are those of a world a request under way has seen. It is why a step that reads
  the tables finds its reference in the history;
* `Past`: what the request did so far, said of its record and of the worlds it saw: its secret stood, its
  identity is that of one such world (`Resolved`), it was allowed on its target (`OnTarget`), what it lists is
  covered (`SeesWell`), where it is placed it could read (`PlacedWell`), what it mints it held (`MintedWell`).

`Past` is monotone in the worlds (`PastGrows`), so members, moves and deletions cannot break it: that is the
whole case of the steps around a request. What remains is one lemma a handler. The identity, the
decision and the placement may each come from another world, which is exactly what the property
allows and what the code gives. `ListedIsRoutable` needs no history: `ReadableCan` and `CanReadable` show that
`readableProjects` and the rule are the same set, except for an identity read while a legacy hub had no
organization, which is why the property is about identities of today.

### Mail and billing

*Mail.* `OutboxTyped`, `OneHolder` and `SettledStays` hold for any number of mails and of hub processes, from
`MailAssumption`: at least one attempt, a wait for every failure before the last, `SendWithin < StaleAfter`
(the mail client gives up before its claim is stale), and markers for a row that is not there which are not
rows. The marks of the code name a row by its id alone, so that two processes do not work on one mail has to
come from time. `MailInv` adds `ClaimsStand`: a process that is not idle claimed its mail at most
`SendWithin` ago, and the row is still as that claim left it, or purged. So the row is not due (`NotDue`), no
other process can claim it, and a mark hits the row its own claim wrote.

`SettledInTime` is the bound of `EveryMailSettles`, for any table of waits, any number of faults, of mails and
of drains: mails may queue for the one drain there is. The invariant is `AllOnTime`. It follows one drain
(`First`): while a mail is due, that drain is busy with others. `Queued(m)` is the time `m` may have lost to
them: `SendWithin` for each attempt another mail has behind it (`Past`) and what the present one has lasted (`Running`). With
`DueBy(m)` = the creation + attempts so far x the longest wait + faults x `StaleAfter` + `Queued(m)`:

* a mail that waits is available by `DueBy`, and the clock has not passed it;
* a mail that is held was claimed by `DueBy`;
* a mail whose holder died was claimed a whole `StaleAfter` before it: the fault has paid for the claim.

A failure pays for the next wait with an attempt, a fault for the stale claim with itself, and a second that passes
while `m` is due is one the drain spends on another mail (`Running` grows), which `Past` takes over when
that attempt ends: `Queued` never goes back. No mail has more than `MaxAttempts` attempts, so `Queued` ends at the
bound of the property. That the longest wait exists is a fact about tables of any length. It follows from the
least-number principle (`LeastNumber`), which stands for the induction the provers do not do.

*Billing.* `BillingTyped` and `InvoicesDoubted` hold for any number of organizations, events and overlapping
deliveries, from `BillingAssumption` (finitely many deliveries at a time, `Bounds`). The invariant `Booked`
is a balance: the invoices made for a payment, and one for each delivery that may still have one made
(`Open`), are covered by its doubts and one more, if it is recorded or under way. Recording an invoice closes
every delivery that has not asked yet; one that asked before stays open, and was counted as a doubt when it
began to overlap.

### Projects and enrolment

*Projects.* `ProjectsTyped`, `Walls` and `IdleOnly` hold for any number of projects, machines and requests,
from `ProjectAssumption` (finitely many requests at a time, `Sizes`). The wall is read in one statement and
written past in another, so it holds up to the requests between the two: `ProjectsFit` and `MachinesFit`
count the rows *and* the requests that were let through. A request is let through when rows fit, and then at
most all the others are between the two statements. Machines of a project are a sequence without repetition
(`Distinct`), as the table has one row a pair. For the sweep, `UsedOK` says a row knows every use of its project,
and `SweepOK` that each row the sweep still has to decide by was read after the uses it counts, so a project that
is deleted was idle by that reading.

*Enrolment.* `EnrolmentTyped` and `OneEnrolment` hold for any number of projects, tokens, connectors and
machines, from `EnrolAssumption` (`NotRows`, `Bounds`). The invariant adds `BurntOnce`: who is about to create a
connector burnt the token itself, nobody else who is has the same token, and none was made with
it; a burnt token stays burnt until it is purged, and a purged one never comes back. The single statement of
`ConsumeEnrollToken` is what establishes it.

### Updates, terminals and presence

*Updates.* `UpdatesTyped` and `WholeExecutable` hold for any number of machines, releases and commands, from
`UpdateAssumption` (`Bounds`). The invariant says what each stage of a replacement has in its hands: what is
staged to be installed has been validated (`Installing`), so no stage after the download writes anything else to a path,
and the copies kept beside the executable are releases or absent (`FileRow`). The steps of `Install` and
`Rollback` are proved one file operation at a time; a crash or a failing call leaves the files as the last
operation did, hence whole.

*Terminals.* `StreamsTyped` and `TerminalInput` hold for any number of sockets, channels and sessions, from
`PtyAssumption`. Beside the property the invariant has `StartsOnSocket` (a PTY that is being started is of
this socket and the channel opened last: the reader of the socket is the one that starts it) and
`ReapedIsUnlisted` (a stream is taken out of the table before it is gone).

*Presence.* `PresenceTyped` and `SelectionMatches` hold for any number of connectors and sockets, from `PresenceAssumption`
(every socket presents the token of one connector). The property is inductive beside the types: whichever
socket's goroutine writes or deletes the entry, the entries of other connectors keep their sockets
(`EntryKeeps`), because no socket is listed for a connector that did not dial it.

### What is only model-checked

* Liveness under fairness is out of the prover's reach: `EveryRequestAnswered`, `EveryCallReturns`,
  `ReplacedConnectionsGo`, `EditsReachTheBox`, `EveryPaymentIsInvoiced`, `ConnectorFollowsHub` and
  `DetachedSessionsGo`.
* `PartsTyped` is the type invariants of eight services by cases, each of which is a theorem of its own
  (`PeopleTyped`, `ConnectionsTyped`, `AccessTyped`, ...). The types of presence and of a connector's
  terminals are theorems only (`PresenceTyped`, `StreamsTyped`).
* The counterexample runs are TLC's.

Every other invariant and action property of a passing run is a theorem.

## 6. Not modelled, and the plan

Not modelled because there is nothing to interleave or it is somebody else's: password hashing, cookies,
HTML and wire formats, id and name generation, static catalogues, SMTP and payment drivers, the web UI,
the CLI. `Heartbeat` of the gateway is tested but called by nothing in production. Skills and voices are
single statements on one table each.

Not modelled though there is something to model: terminals and the write deadline on the gateway's
sockets, events to browsers, the connector's backoff and file streams, completion resolvers, the swap
on Windows, the quantity of seats sent to the payment provider.

Next, in this order:

1. `GatewaySockets` extended with calls, terminals and the write deadline of `call`.
2. Completion resolvers as operators, checked against a reference definition.
