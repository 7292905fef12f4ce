----------------------------- MODULE HubProjects -----------------------------
(***************************************************************************)
(* The projects of one organization on a hosted hub: creating them within  *)
(* the plan, the machines enrolled on them, the machine that is selected,  *)
(* the outputs kept for them, and the hourly sweep that warns about idle   *)
(* projects and deletes them (internal/hub/projects.go, idle_project.go,   *)
(* planlimit.go, tasks.go, task_output.go, store.go).                      *)
(*                                                                         *)
(* A handler checks first and writes later; its checks are one step here,  *)
(* because what matters is what happens between them and the write.  A     *)
(* unit of the clock is the minute in which a touch is not repeated.       *)
(***************************************************************************)
EXTENDS Naturals, Sequences, FiniteSets

CONSTANTS
  Projects, Connectors,
  Requests,          \* the requests served at the same time
  ProjectLimit,      \* projects of the plan, 0 for no limit
  MachineLimit,      \* machines of a project, 0 for no limit
  IdleAfter,         \* age of the last activity at which a project is deleted
  WarnAfter,         \* and at which its owners are warned
  None, Gone,        \* no row yet, and no row any more
  MaxTime, MaxCalls  \* bounds: the clock, requests

VARIABLES
  project,           \* [Projects -> row, or None before and Gone after it]
  enrolled,          \* [Projects -> its machines, oldest first]
  machines,          \* connectors that have a row
  online,            \* connectors that are connected
  outputs,           \* projects that outputs of tasks are kept for
  request,           \* [Requests -> a request between two of its steps]
  sweep,             \* the retention job
  clock,
  used,              \* [Projects -> when somebody last used it] (history)
  calls              \* requests so far (bound only)

vars == <<project, enrolled, machines, online, outputs, request, sweep, clock, used, calls>>

----------------------------------------------------------------------------
Row == [selected : Connectors \cup {None}, activity : Nat, warned : BOOLEAN]

(* None and Gone are told apart, limits and bounds are numbers.             *)
Sizes ==
  /\ None # Gone /\ None \notin Row
  /\ ProjectLimit \in Nat /\ MachineLimit \in Nat /\ IdleAfter \in Nat /\ WarnAfter \in Nat
  /\ MaxTime \in Nat \ {0} /\ MaxCalls \in Nat

Existing == {p \in Projects : project[p] \notin {None, Gone}}
On(p, c) == \E i \in 1..Len(enrolled[p]) : enrolled[p][i] = c
With(p, c) == IF c = None \/ On(p, c) THEN enrolled[p] ELSE Append(enrolled[p], c)

(* The row of a machine on a project is its key, so there is one at most.   *)
Without(s, c) ==
  IF \E i \in 1..Len(s) : s[i] = c
    THEN LET i == CHOOSE j \in 1..Len(s) : s[j] = c
         IN  SubSeq(s, 1, i - 1) \o SubSeq(s, i + 1, Len(s))
    ELSE s

Oldest(s) == IF s = <<>> THEN None ELSE s[1]

(* Slip: one more is allowed when the limit is reached.                     *)
AllowsAnotherAtLimit(count, limit) == limit = 0 \/ count <= limit
AllowsAnother(count, limit) == limit = 0 \/ count < limit

(* refuseAnotherMachine: one that is enrolled already is always welcome.    *)
MachineFits(p, c) ==
  c = None \/ On(p, c) \/ AllowsAnother(Len(enrolled[p]), MachineLimit)

(* TouchProjectActivity, at a time read before it: not twice in a minute,   *)
(* never backwards.                                                         *)
Touched(row, now) ==
  IF row.activity < now THEN [row EXCEPT !.activity = now, !.warned = FALSE] ELSE row

TouchProjectActivity(S, now) ==
  project' = [p \in Projects |-> IF p \in S \cap Existing THEN Touched(project[p], now) ELSE project[p]]

Uses(S, now) ==
  used' = [p \in Projects |-> IF p \in S /\ used[p] < now THEN now ELSE used[p]]

----------------------------------------------------------------------------
(* Requests.                                                                *)

Idle == [at |-> "idle"]
At(r, stage) == request[r].at = stage
Step(r, next) == request' = [request EXCEPT ![r] = next]
Done(r) == Step(r, Idle)

FirstFree(r) == At(r, "idle") /\ \A s \in Requests : s < r => ~At(s, "idle")

Begin(r, next) ==
  /\ calls < MaxCalls /\ calls' = calls + 1
  /\ FirstFree(r)
  /\ Step(r, next)
  /\ UNCHANGED <<project, enrolled, machines, online, outputs, sweep, clock, used>>

(* What a request leaves alone when it writes rows of projects.             *)
Quiet == UNCHANGED <<machines, online, sweep, clock, calls>>

(* A machine that is named has a row.                                       *)
Valid(c) == c = None \/ c \in machines

handleCreateProject(r, c) ==
  /\ AllowsAnother(Cardinality(Existing), ProjectLimit) /\ Valid(c)
  /\ Begin(r, [at |-> "create", machine |-> c])

CreateProject(r, p) ==
  LET c == request[r].machine
  IN  /\ At(r, "create")
      /\ project[p] = None /\ p = CHOOSE q \in Projects : project[q] = None
      /\ project' = [project EXCEPT ![p] = [selected |-> c, activity |-> clock, warned |-> FALSE]]
      /\ enrolled' = [enrolled EXCEPT ![p] = With(p, c)]
      /\ Uses({p}, clock) /\ Done(r)
      /\ Quiet /\ UNCHANGED outputs

(* What the request does not name is taken from the row as it is now.       *)
handleUpdateProject(r, p, c) ==
  LET chosen == IF c # None THEN c ELSE project[p].selected
  IN  /\ p \in Existing /\ Valid(chosen) /\ MachineFits(p, chosen)
      /\ Begin(r, [at |-> "update", project |-> p, machine |-> chosen])

(* One transaction, undone when the project is gone.                        *)
UpdateProject(r) ==
  LET a == request[r]
      p == a.project
  IN  /\ At(r, "update")
      /\ IF p \in Existing
           THEN /\ enrolled' = [enrolled EXCEPT ![p] = With(p, a.machine)]
                /\ project' = [project EXCEPT ![p].selected = a.machine]
                /\ Step(r, [at |-> "stamp", project |-> p])
           ELSE UNCHANGED <<enrolled, project>> /\ Done(r)
      /\ Quiet /\ UNCHANGED <<outputs, used>>

stampProjectActivity(r) ==
  /\ At(r, "stamp")
  /\ TouchProjectActivity({request[r].project}, clock)
  /\ Uses({request[r].project}, clock) /\ Done(r)
  /\ Quiet /\ UNCHANGED <<enrolled, outputs>>

(* handleProjectActivity, a token of the project, a finished task: whoever  *)
(* uses the project stamps it.                                              *)
handleProjectActivity(r, p) == p \in Existing /\ Begin(r, [at |-> "stamp", project |-> p])

handleAttachProjectConnector(r, p, c) ==
  /\ p \in Existing /\ c \in machines /\ MachineFits(p, c)
  /\ Begin(r, [at |-> "attach", project |-> p, machine |-> c])

(* Two statements and a third: the row of the project is not looked at.     *)
AttachProjectConnector(r) ==
  LET a == request[r]
  IN  /\ At(r, "attach")
      /\ enrolled' = [enrolled EXCEPT ![a.project] = With(a.project, a.machine)]
      /\ Step(r, [a EXCEPT !.at = "select"])
      /\ Quiet /\ UNCHANGED <<project, outputs, used>>

selectConnectorIfEmpty(r) ==
  LET a == request[r]
  IN  /\ At(r, "select")
      /\ IF a.project \in Existing /\ project[a.project].selected = None
           THEN Step(r, [a EXCEPT !.at = "write selected"])
           ELSE Done(r)
      /\ Quiet /\ UNCHANGED <<project, enrolled, outputs, used>>

handleDetachProjectConnector(r, p, c) ==
  /\ p \in Existing /\ On(p, c)
  /\ Begin(r, [at |-> "detach", project |-> p, machine |-> c])

DetachProjectConnector(r) ==
  LET a == request[r]
  IN  /\ At(r, "detach")
      /\ enrolled' = [enrolled EXCEPT ![a.project] = Without(@, a.machine)]
      /\ Step(r, [at |-> "list", project |-> a.project])
      /\ Quiet /\ UNCHANGED <<project, outputs, used>>

ListProjectConnectorIds(r) ==
  /\ At(r, "list")
  /\ Step(r, [at |-> "repair", project |-> request[r].project, ids |-> enrolled[request[r].project]])
  /\ Quiet /\ UNCHANGED <<project, enrolled, outputs, used>>

(* The machines that were listed, the selection as it is now.               *)
repairSelectedConnector(r) ==
  LET a == request[r]
      ids == a.ids
      p == a.project
  IN  /\ At(r, "repair")
      /\ IF p \notin Existing \/ \E i \in 1..Len(ids) : ids[i] = project[p].selected
           THEN Done(r)
           ELSE Step(r, [at |-> "write selected", project |-> p, machine |-> Oldest(ids)])
      /\ Quiet /\ UNCHANGED <<project, enrolled, outputs, used>>

(* By the key of the project alone.                                         *)
WriteSelected(r) ==
  LET a == request[r]
  IN  /\ At(r, "write selected")
      /\ project' = IF a.project \in Existing
                    THEN [project EXCEPT ![a.project].selected = a.machine] ELSE project
      /\ Done(r)
      /\ Quiet /\ UNCHANGED <<enrolled, outputs, used>>

(* handleCreateTask: the gateway runs the task, then its streams are kept   *)
(* if the project has a row, and the project is stamped.                    *)
handleCreateTask(r, p) == p \in Existing /\ Begin(r, [at |-> "ran", project |-> p])

rememberTaskOutput(r) ==
  LET p == request[r].project
  IN  /\ At(r, "ran")
      /\ Step(r, [at |-> IF p \in Existing THEN "keep" ELSE "stamp", project |-> p])
      /\ Quiet /\ UNCHANGED <<project, enrolled, outputs, used>>

SaveTaskOutput(r) ==
  LET p == request[r].project
  IN  /\ At(r, "keep")
      /\ outputs' = outputs \cup {p}
      /\ Step(r, [at |-> "stamp", project |-> p])
      /\ Quiet /\ UNCHANGED <<project, enrolled, used>>

(* Outputs that are older than the plan keeps them.                         *)
PurgeTaskOutputs(p) ==
  /\ p \in outputs /\ outputs' = outputs \ {p}
  /\ UNCHANGED <<project, enrolled, machines, online, request, sweep, clock, used, calls>>

(* One transaction: enrolments, outputs, the row.                           *)
DeleteProject(p) ==
  /\ project' = [project EXCEPT ![p] = IF @ = None THEN None ELSE Gone]
  /\ enrolled' = [enrolled EXCEPT ![p] = <<>>]
  /\ outputs' = outputs \ {p}

handleDeleteProject(p) ==
  /\ calls < MaxCalls /\ calls' = calls + 1
  /\ p \in Existing /\ DeleteProject(p)
  /\ UNCHANGED <<machines, online, request, sweep, clock, used>>

(* Every project that had it selected takes its oldest other machine.       *)
handleDeleteConnector(c) ==
  /\ calls < MaxCalls /\ calls' = calls + 1
  /\ c \in machines
  /\ machines' = machines \ {c} /\ online' = online \ {c}
  /\ enrolled' = [p \in Projects |-> Without(enrolled[p], c)]
  /\ project' = [p \in Projects |->
       IF p \in Existing /\ project[p].selected = c
         THEN [project[p] EXCEPT !.selected = Oldest(Without(enrolled[p], c))] ELSE project[p]]
  /\ UNCHANGED <<outputs, request, sweep, clock, used>>

----------------------------------------------------------------------------
(* Machines come, report and go; those of the hub's own plane stamp their   *)
(* projects, those of a gateway do not.                                     *)

touchProjectsForConnector(c) ==
  LET S == {p \in Existing : On(p, c)}
  IN  TouchProjectActivity(S, clock) /\ Uses(S, clock)

Connects(c, own) ==
  /\ c \in machines \ online /\ online' = online \cup {c}
  /\ IF own THEN touchProjectsForConnector(c) ELSE UNCHANGED <<project, used>>
  /\ UNCHANGED <<enrolled, machines, outputs, request, sweep, clock, calls>>

TouchConnector(c) ==
  /\ c \in online /\ touchProjectsForConnector(c)
  /\ UNCHANGED <<enrolled, machines, online, outputs, request, sweep, clock, calls>>

Disconnects(c) ==
  /\ c \in online /\ online' = online \ {c}
  /\ UNCHANGED <<project, enrolled, machines, outputs, request, sweep, clock, used, calls>>

----------------------------------------------------------------------------
(* retainIdleProjects: the rows are listed once, then visited in turn.      *)

Resting == [at |-> "rest"]
SweepAt(stage) == sweep.at = stage
Left == UNCHANGED <<machines, online, request, clock, calls>>

(* The rows, and for the properties when each project was last used.        *)
SweepBegins ==
  /\ SweepAt("rest") /\ Existing # {}
  /\ sweep' = [at |-> "visit", now |-> clock, left |-> Existing, rows |-> project, used |-> used]
  /\ Left /\ UNCHANGED <<project, enrolled, outputs, used>>

NextProject(s) == [at |-> "visit", now |-> s.now, left |-> s.left, rows |-> s.rows, used |-> s.used]

Visited(p) == [at |-> "decide", now |-> sweep.now, left |-> sweep.left \ {p}, rows |-> sweep.rows,
               used |-> sweep.used, project |-> p]

(* projectHasOnlineWorker: a gateway that cannot be asked has none.         *)
NoOnlineWorker(p) ==
  /\ SweepAt("visit") /\ p \in sweep.left
  /\ sweep' = Visited(p)
  /\ Left /\ UNCHANGED <<project, enrolled, outputs, used>>

OnlineWorker(p) ==
  /\ SweepAt("visit") /\ p \in sweep.left
  /\ \E c \in online : On(p, c)
  /\ TouchProjectActivity({p}, sweep.now)
  /\ Uses({p}, sweep.now)
  /\ sweep' = [Visited(p) EXCEPT !.at = "read again", !.used[p] = sweep.now]
  /\ Left /\ UNCHANGED <<enrolled, outputs>>

(* Slip: the listed row stands although it was touched since.               *)
ReadAgainNot ==
  /\ SweepAt("read again")
  /\ sweep' = [sweep EXCEPT !.at = "decide"]
  /\ Left /\ UNCHANGED <<project, enrolled, outputs, used>>

(* A project that went meanwhile ends the whole sweep with an error.        *)
ReadAgain ==
  LET p == sweep.project
  IN  /\ SweepAt("read again")
      /\ sweep' = IF p \in Existing THEN [sweep EXCEPT !.at = "decide", !.rows[p] = project[p]]
                  ELSE Resting
      /\ Left /\ UNCHANGED <<project, enrolled, outputs, used>>

TooOld(row) == row.activity + IdleAfter <= sweep.now
Aging(row) == ~row.warned /\ row.activity + WarnAfter <= sweep.now

DeleteIdle ==
  /\ SweepAt("decide") /\ TooOld(sweep.rows[sweep.project])
  /\ DeleteProject(sweep.project)
  /\ sweep' = NextProject(sweep)
  /\ Left /\ UNCHANGED used

(* warnIdleProject: a mail to every owner.  If none could be queued the     *)
(* project is warned about the next time.                                   *)
WarnIdle ==
  /\ SweepAt("decide")
  /\ ~TooOld(sweep.rows[sweep.project]) /\ Aging(sweep.rows[sweep.project])
  /\ \E queued \in BOOLEAN :
       sweep' = IF queued THEN [sweep EXCEPT !.at = "mark"] ELSE NextProject(sweep)
  /\ Left /\ UNCHANGED <<project, enrolled, outputs, used>>

(* The row as it is now, used again meanwhile or not.                       *)
MarkProjectIdleWarned ==
  LET p == sweep.project
  IN  /\ SweepAt("mark")
      /\ project' = IF p \in Existing THEN [project EXCEPT ![p].warned = TRUE] ELSE project
      /\ sweep' = NextProject(sweep)
      /\ Left /\ UNCHANGED <<enrolled, outputs, used>>

KeepProject ==
  /\ SweepAt("decide")
  /\ ~TooOld(sweep.rows[sweep.project]) /\ ~Aging(sweep.rows[sweep.project])
  /\ sweep' = NextProject(sweep)
  /\ Left /\ UNCHANGED <<project, enrolled, outputs, used>>

(* All visited, or the store failed.                                        *)
SweepEnds ==
  /\ ~SweepAt("rest") /\ sweep' = Resting
  /\ Left /\ UNCHANGED <<project, enrolled, outputs, used>>

Sweep ==
  \/ SweepBegins \/ \E p \in Projects : NoOnlineWorker(p) \/ OnlineWorker(p)
  \/ ReadAgain \/ DeleteIdle \/ WarnIdle \/ MarkProjectIdleWarned \/ KeepProject \/ SweepEnds

----------------------------------------------------------------------------
Tick ==
  /\ clock < MaxTime /\ clock' = clock + 1
  /\ UNCHANGED <<project, enrolled, machines, online, outputs, request, sweep, used, calls>>

(* The hub's process stops and starts between any two steps.                *)
Restart ==
  /\ request' = [r \in Requests |-> Idle] /\ sweep' = Resting /\ online' = {}
  /\ UNCHANGED <<project, enrolled, machines, outputs, clock, used, calls>>

Serve(r) ==
  \/ \E c \in Connectors \cup {None} :
       \/ handleCreateProject(r, c)
       \/ \E p \in Projects : handleUpdateProject(r, p, c)
  \/ \E p \in Projects :
       \/ CreateProject(r, p)
       \/ handleProjectActivity(r, p) \/ handleCreateTask(r, p)
       \/ \E c \in Connectors : handleAttachProjectConnector(r, p, c)
                                \/ handleDetachProjectConnector(r, p, c)
  \/ UpdateProject(r) \/ stampProjectActivity(r)
  \/ AttachProjectConnector(r) \/ selectConnectorIfEmpty(r)
  \/ DetachProjectConnector(r) \/ ListProjectConnectorIds(r) \/ repairSelectedConnector(r)
  \/ WriteSelected(r)
  \/ rememberTaskOutput(r) \/ SaveTaskOutput(r)

Next ==
  \/ \E r \in Requests : Serve(r)
  \/ \E p \in Projects : handleDeleteProject(p) \/ PurgeTaskOutputs(p)
  \/ \E c \in Connectors : \/ handleDeleteConnector(c) \/ TouchConnector(c) \/ Disconnects(c)
                           \/ \E own \in BOOLEAN : Connects(c, own)
  \/ Sweep
  \/ Tick
  \/ Restart

Init ==
  /\ project = [p \in Projects |-> None]
  /\ enrolled = [p \in Projects |-> <<>>]
  /\ machines = Connectors /\ online = {}
  /\ outputs = {}
  /\ request = [r \in Requests |-> Idle]
  /\ sweep = Resting
  /\ clock = 1 /\ used = [p \in Projects |-> 0] /\ calls = 0

Spec == Init /\ [][Next]_vars

----------------------------------------------------------------------------
(* Properties.                                                              *)

TypeOK ==
  /\ project \in [Projects -> Row \cup {None, Gone}]
  /\ \A p \in Projects : \A i, j \in 1..Len(enrolled[p]) : enrolled[p][i] = enrolled[p][j] => i = j
  /\ online \subseteq machines /\ outputs \subseteq Projects
  /\ clock \in 1..MaxTime /\ calls \in 0..MaxCalls

(* The sweep deletes no project that was in use within the idle window when *)
(* the sweep began, or whose worker the sweep found connected, although it  *)
(* decides by rows it read before (retainIdleProjects).                     *)
OnlyIdleAreDeleted ==
  [][SweepAt("decide") /\ project[sweep.project] \notin {None, Gone}
       /\ project'[sweep.project] = Gone /\ sweep' # sweep
       => sweep.used[sweep.project] + IdleAfter <= sweep.now]_vars

(* The walls of the plan are checked before the row is written, in another  *)
(* statement: simultaneous requests can pass them, but by no more than the  *)
(* other requests that were under way (refuseAnotherProject,                *)
(* refuseAnotherMachine).                                                   *)
WallsHold ==
  LET slack == Cardinality(Requests) - 1
  IN  /\ ProjectLimit # 0 => Cardinality(Existing) <= ProjectLimit + slack
      /\ MachineLimit # 0 =>
           \A p \in Existing : Len(enrolled[p]) <= MachineLimit + slack

=============================================================================
