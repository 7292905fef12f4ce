-------------------------- MODULE GatewayDispatch --------------------------
(***************************************************************************)
(* The task plane of a gateway (internal/gateway): the tasks table of its  *)
(* SQLite file, the request goroutines of POST /api/tasks that enqueue,    *)
(* claim, run and finish, the commands the connectors execute, and the     *)
(* clock that leases, RPC timeouts and the connectors' own kill timers     *)
(* read.                                                                   *)
(*                                                                         *)
(* One SQL statement, or one transaction, is one step: the store keeps a   *)
(* single database connection, so statements do not interleave, but        *)
(* UpdateState and Finish read the row in one statement and write it in    *)
(* another, and everything between two statements interleaves.             *)
(*                                                                         *)
(* Time is in whole seconds, as the table stores it.  A run takes at most  *)
(* RpcTimeout for the call on the connector's socket and at most Slack for *)
(* all its other steps together.                                           *)
(***************************************************************************)
EXTENDS Integers, FiniteSets, Scheduler

CONSTANTS NumTasks,     \* how many task ids there are
          Requests,     \* the goroutines serving POST /api/tasks
          Workers,      \* the enrolled connectors
          Outdated,     \* those whose binary may be older than this gateway
          Projects,     \* the projects this gateway serves
          HomeOf,       \* the project each connector is enrolled into
          LaunchOf,     \* how each task asks to be launched
          None,         \* no worker, no project
          Lease,        \* Gateway.lease (DefaultLease is 300)
          RpcTimeout,   \* defaultExecTimeout is 60
          Slack,        \* all a run spends outside the call
          MaxTime       \* bound of the clock in a finite instance

ASSUME TaskCount == NumTasks \in Nat
ASSUME Versions == Outdated \subseteq Workers
ASSUME Homes == HomeOf \in [Workers -> Projects]
ASSUME Launches == LaunchOf \in [1..NumTasks -> {"exec", "process", "send_keys"}]
ASSUME NotAnyone == None \notin Workers /\ None \notin Projects
ASSUME Durations == /\ Lease \in Nat /\ RpcTimeout \in Nat /\ Slack \in Nat
                    /\ MaxTime \in Nat
\* What the absence of fencing in Finish and UpdateState relies on: a run is
\* over before its lease is.
ASSUME RunFitsLease == Slack + RpcTimeout <= Lease

VARIABLES now,        \* the wall clock
          task,       \* the tasks table
          presence,   \* Gateway.online, per connector
          req,        \* the request goroutines
          exec,       \* the commands the connectors are executing
          astray,     \* those among them asked for on a socket lost since
          doneFile    \* each connector's .initagent/runs/<task>.done

vars == <<now, task, presence, req, exec, astray, doneFile>>

Tasks == 1..NumTasks    \* in the order of their ids: ties of created_at
NoTask == 0
NoCode == 2             \* no done file

Row == [state : TaskStates \cup {"absent"}, project : Projects \cup {None},
        worker : Workers \cup {None}, lease : Nat, created : Nat, exit : {0, 1}]

\* Where a request stands: before the claim, holding a claimed row before the
\* command is sent, waiting for the connector, and recording the outcome.
Unclaimed == {"enqueued", "admitted"}
Preparing == {"claimed", "starting", "started"}
Recording == {"finishing", "recording"}
Holding   == Preparing \cup {"waiting"} \cup Recording

\* own is the row this request inserted, task the row it claimed; due is when
\* the run must have left its current stage, to and exit the outcome to record.
Request == [pc : {"idle"} \cup Unclaimed \cup Holding,
            worker : Workers \cup {None},
            own : Tasks \cup {NoTask}, task : Tasks \cup {NoTask},
            due : Nat, to : {"done", "failed"}, exit : {0, 1}]

\* Commands the connector owns and kills; keys typed into a tmux session it can
\* only watch.
Supervised(t) == LaunchOf[t] # "send_keys"

\* until is when the connector gives up on the command.
Execution == [req : Requests, task : Tasks, worker : Workers, until : Nat]

TypeOK == /\ now \in Nat
          /\ task \in [Tasks -> Row]
          /\ presence \in [Workers -> {"offline", "online", "draining"}]
          /\ req \in [Requests -> Request]
          /\ exec \subseteq Execution
          /\ astray \subseteq exec
          /\ doneFile \in [Workers -> [Tasks -> {0, 1, NoCode}]]

Absent == [state |-> "absent", project |-> None, worker |-> None,
           lease |-> 0, created |-> 0, exit |-> 0]

Idle == [pc |-> "idle", worker |-> None, own |-> NoTask, task |-> NoTask,
         due |-> 0, to |-> "failed", exit |-> 0]

Init == /\ now = 0
        /\ task = [t \in Tasks |-> Absent]
        /\ presence = [w \in Workers |-> "offline"]
        /\ req = [r \in Requests |-> Idle]
        /\ exec = {} /\ astray = {}
        /\ doneFile = [w \in Workers |-> [t \in Tasks |-> NoCode]]

-----------------------------------------------------------------------------
(* Slips: what a wrong edit of the statements below could make of them. No *)
(* action uses them; each stands in for its original to confirm that the   *)
(* properties at the end of the module notice.                             *)

\* The lease is over at its expiry, not after it.
ReapedAtExpiry(row) ==
    IF row.state \in LeasedStates /\ row.lease > 0 /\ row.lease <= now
    THEN [row EXCEPT !.state = "queued", !.worker = None, !.lease = 0] ELSE row

\* Every leased row is taken back, whether its lease has lapsed or not.
ReapedEarly(row) ==
    IF row.state \in LeasedStates /\ row.lease > 0
    THEN [row EXCEPT !.state = "queued", !.worker = None, !.lease = 0] ELSE row

\* Finished rows keep their lease_expiry: without the condition on the state
\* they are taken back too.
ReapedAnyState(row) ==
    IF row.lease > 0 /\ row.lease < now
    THEN [row EXCEPT !.state = "queued", !.worker = None, !.lease = 0] ELSE row

\* Only running rows count against the slot.
SlotFreeRunning(table, w) ==
    \A t \in 1..NumTasks : ~(table[t].worker = w /\ table[t].state = "running")

\* The queue of every project at once.
QueuedAnywhere(table, p, t) == table[t].state = "queued"

\* The lease runs from the submission, or backwards.
AssignedSinceCreated(row, w) ==
    [row EXCEPT !.state = "assigned", !.worker = w, !.lease = row.created + Lease]
AssignedBackwards(row, w) ==
    [row EXCEPT !.state = "assigned", !.worker = w, !.lease = now - Lease]

\* The connector launches without a look at its done files.
SendUnseen(r) ==
    LET due == req[r].due + RpcTimeout
    IN  /\ req[r].pc = "started"
        /\ presence[req[r].worker] # "offline"
        /\ req' = [req EXCEPT ![r].pc = "waiting", ![r].due = due]
        /\ exec' = exec \cup {[req |-> r, task |-> req[r].task,
                               worker |-> req[r].worker, until |-> due]}
        /\ UNCHANGED <<now, task, presence, doneFile, astray>>

\* The call has no timeout: it ends with a reply or with the socket.
CallFailsOffline(r) ==
    /\ req[r].pc = "waiting"
    /\ presence[req[r].worker] = "offline"
    /\ req' = [req EXCEPT ![r].pc = "finishing", ![r].to = "failed", ![r].exit = 1]
    /\ UNCHANGED <<now, task, presence, exec, doneFile, astray>>

-----------------------------------------------------------------------------
(* The statements of the store.                                            *)

\* reapExpired: the row of a run whose lease has lapsed goes back to the
\* queue, whatever its project.
Reaped(row) == IF /\ row.state \in LeasedStates
                  /\ row.lease > 0
                  /\ row.lease < now
               THEN [row EXCEPT !.state = "queued", !.worker = None, !.lease = 0]
               ELSE row

ReapExpired == [t \in Tasks |-> Reaped(task[t])]

\* The count of Claim is below workerSlots (one).
SlotFree(table, w) ==
    \A t \in Tasks : ~(table[t].worker = w /\ table[t].state \in ActiveStates)

\* The row ORDER BY created_at, id picks.
Before(table, t, u) == \/ table[t].created < table[u].created
                       \/ table[t].created = table[u].created /\ t <= u

Queued(table, p, t) == table[t].state = "queued" /\ table[t].project = p

OldestQueued(table, p, t) ==
    /\ Queued(table, p, t)
    /\ \A u \in Tasks : Queued(table, p, u) => Before(table, t, u)

\* What Enqueue inserts.
NewRow(p) == [Absent EXCEPT !.state = "queued", !.project = p, !.created = now]

\* The UPDATE of Claim; the exit code and created_at stay.
AssignedTo(row, w) == [row EXCEPT !.state = "assigned", !.worker = w,
                                  !.lease = now + Lease]

\* The UPDATEs of SetState and Finish: by id alone, fencing neither the state
\* read before nor the worker, and keeping worker and lease.
WriteState(t, to) == task' = [task EXCEPT ![t].state = to]
WriteOutcome(t, to, code) ==
    task' = [task EXCEPT ![t].state = to, ![t].exit = code]

-----------------------------------------------------------------------------
(* A request of POST /api/tasks for project HomeOf[w].                     *)

Goto(r, pc) == req' = [req EXCEPT ![r].pc = pc]
Answer(r)   == req' = [req EXCEPT ![r] = Idle]
TerminalState(code) == IF code = 0 THEN "done" ELSE "failed"
Outcome(r, to, code) ==
    req' = [req EXCEPT ![r].pc = "finishing", ![r].to = to, ![r].exit = code]

\* handleCreateTask up to Enqueue: the worker is named or picked, is of the
\* request's project, connected and not draining; a fresh id is minted.  A
\* refused request changes nothing.  RunQueued looks at the worker again, so a
\* connector lost between these checks and the INSERT is as one lost after it.
Submit(r, w, t) ==
    /\ req[r].pc = "idle"
    /\ presence[w] = "online"
    /\ task[t].state = "absent"
    /\ task' = [task EXCEPT ![t] = NewRow(HomeOf[w])]
    /\ req' = [req EXCEPT ![r] = [Idle EXCEPT !.pc = "enqueued", !.worker = w,
                                              !.own = t]]
    /\ UNCHANGED <<now, presence, exec, doneFile, astray>>

\* RunQueued's own look at the worker.
Admit(r) == /\ req[r].pc = "enqueued"
            /\ presence[req[r].worker] = "online"
            /\ Goto(r, "admitted")
            /\ UNCHANGED <<now, task, presence, exec, doneFile, astray>>

\* RunQueued gives up before it holds a row: the connector is gone or draining,
\* Claim reports ErrNoFreeSlot (its transaction, the reaping in it included, is
\* rolled back), the database fails or the client has gone.  The row the
\* request inserted stays queued.
Refuse(r) == /\ req[r].pc \in Unclaimed
             /\ Answer(r)
             /\ UNCHANGED <<now, task, presence, exec, doneFile, astray>>

\* The transaction of Claim: reap, count, pick the oldest, assign.
Claim(r, t) ==
    LET table == ReapExpired
        w     == req[r].worker
    IN  /\ req[r].pc = "admitted"
        /\ SlotFree(table, w)
        /\ OldestQueued(table, HomeOf[w], t)
        /\ task' = [table EXCEPT ![t] = AssignedTo(table[t], w)]
        /\ req' = [req EXCEPT ![r].pc = "claimed", ![r].task = t,
                              ![r].due = now + Slack]
        /\ UNCHANGED <<now, presence, exec, doneFile, astray>>

\* UpdateState(running): the SELECT and the check ...
StartRead(r) == /\ req[r].pc = "claimed"
                /\ CanTransition(task[req[r].task].state, "running")
                /\ Goto(r, "starting")
                /\ UNCHANGED <<now, task, presence, exec, doneFile, astray>>

\* ... and the UPDATE.
StartWrite(r) == /\ req[r].pc = "starting"
                 /\ WriteState(req[r].task, "running")
                 /\ Goto(r, "started")
                 /\ UNCHANGED <<now, presence, exec, doneFile, astray>>

\* UpdateState runs under the request's context: when the client goes away, the
\* transition is refused or the database fails, the run ends here and the row
\* stays assigned until its lease lapses.
StartFails(r) == /\ req[r].pc \in {"claimed", "starting"}
                 /\ Answer(r)
                 /\ UNCHANGED <<now, task, presence, exec, doneFile, astray>>

\* The connector answers a process or send_keys run it has a done file for
\* out of that file (recoverDone).
Recorded(w, t) == LaunchOf[t] # "exec" /\ doneFile[w][t] # NoCode

\* execOn, processOn, sendKeysOn: the connector's socket takes the command, with
\* the timeout the connector enforces by itself, and the connector launches it.
Send(r) ==
    LET due == req[r].due + RpcTimeout
    IN  /\ req[r].pc = "started"
        /\ presence[req[r].worker] # "offline"
        /\ ~Recorded(req[r].worker, req[r].task)
        /\ req' = [req EXCEPT ![r].pc = "waiting", ![r].due = due]
        /\ exec' = exec \cup {[req |-> r, task |-> req[r].task,
                               worker |-> req[r].worker, until |-> due]}
        /\ UNCHANGED <<now, task, presence, doneFile, astray>>

\* The run completed on this connector in an earlier attempt.
Recover(r) ==
    LET code == doneFile[req[r].worker][req[r].task]
    IN  /\ req[r].pc = "started"
        /\ presence[req[r].worker] # "offline"
        /\ Recorded(req[r].worker, req[r].task)
        /\ Outcome(r, TerminalState(code), code)
        /\ UNCHANGED <<now, task, presence, exec, doneFile, astray>>

\* No socket any more, or it does not take the command (or the command is
\* empty): failed with exit code 1.
SendFails(r) == /\ req[r].pc = "started"
                /\ Outcome(r, "failed", 1)
                /\ UNCHANGED <<now, task, presence, exec, doneFile, astray>>

\* agentConn.call returns an error: its timeout, a client that has gone, a
\* write error or "connector disconnected"; or the reply does not resolve to
\* an outcome.  The connector may well be executing still.
CallFails(r) == /\ req[r].pc = "waiting"
                /\ Outcome(r, "failed", 1)
                /\ UNCHANGED <<now, task, presence, exec, doneFile, astray>>

\* Finish, which no client can cancel: the SELECT and the check ...
FinishRead(r) == /\ req[r].pc = "finishing"
                 /\ CanTransition(task[req[r].task].state, req[r].to)
                 /\ Goto(r, "recording")
                 /\ UNCHANGED <<now, task, presence, exec, doneFile, astray>>

\* ... and the UPDATE, after which the request is answered with this row.
FinishWrite(r) == /\ req[r].pc = "recording"
                  /\ WriteOutcome(req[r].task, req[r].to, req[r].exit)
                  /\ Answer(r)
                  /\ UNCHANGED <<now, presence, exec, doneFile, astray>>

\* The transition is refused or the database fails: the outcome is lost and the
\* row stays running until its lease lapses.
FinishFails(r) == /\ req[r].pc \in Recording
                  /\ Answer(r)
                  /\ UNCHANGED <<now, task, presence, exec, doneFile, astray>>

-----------------------------------------------------------------------------
(* The connectors, the process and the clock.                              *)

\* agentConn.deliver knows a call by its id alone, ids begin at 1 on every
\* socket, and the connector replies on the socket it has, not on the one that
\* asked (Agent.send): a command that outlives its socket may answer a call made
\* on the next one.
AskedBy(e, r) == e.req = r /\ e.task = req[r].task /\ e.until = req[r].due

Hears(r, e) ==
    /\ req[r].pc = "waiting"
    /\ IF e \in astray
       THEN \E f \in exec \ astray : f.worker = e.worker /\ AskedBy(f, r)
       ELSE AskedBy(e, r)

\* A command ends: it exits, or the connector kills it at its timeout.  An exit
\* of a process or send_keys run is recorded in the done file, unless the write
\* fails.  The reply reaches a call that waits under its id or, when there is
\* no socket or the connector has given up watching, nobody.
ExecutionEnds(e, code) ==
    /\ exec' = exec \ {e}
    /\ astray' = astray \ {e}
    /\ \/ /\ LaunchOf[e.task] # "exec"
          /\ doneFile' = [doneFile EXCEPT ![e.worker][e.task] = code]
       \/ UNCHANGED doneFile
    /\ \/ \E r \in Requests : Hears(r, e) /\ Outcome(r, TerminalState(code), code)
       \/ UNCHANGED req
    /\ UNCHANGED <<now, task, presence>>

OnLostSockets(S) == astray' = astray \cup {e \in exec : e.worker \in S}

\* A connector says hello, running this gateway's version or an older one; the
\* socket it had before is lost, noticed or not.
Attach(w, status) == /\ status = "draining" => w \in Outdated
                     /\ presence' = [presence EXCEPT ![w] = status]
                     /\ OnLostSockets({w})
                     /\ UNCHANGED <<now, task, req, exec, doneFile>>

\* Its socket is lost.
Detach(w) == /\ presence[w] # "offline"
             /\ presence' = [presence EXCEPT ![w] = "offline"]
             /\ OnLostSockets({w})
             /\ UNCHANGED <<now, task, req, exec, doneFile>>

\* The gateway dies and is restarted: the table survives, sockets and request
\* goroutines do not, and the connectors go on executing.
Crash == /\ presence' = [w \in Workers |-> "offline"]
         /\ req' = [r \in Requests |-> Idle]
         /\ OnLostSockets(Workers)
         /\ UNCHANGED <<now, task, exec, doneFile>>

\* A second passes.  The timers fire in time: no run outstays its due time, no
\* supervised command outlives the connector's kill timer.
Tick == /\ now < MaxTime
        /\ \A r \in Requests : req[r].pc \in Holding => now < req[r].due
        /\ \A e \in exec : Supervised(e.task) => now < e.until
        /\ now' = now + 1
        /\ UNCHANGED <<task, presence, req, exec, doneFile, astray>>

\* What a request does by itself once it has been accepted.
Proceed(r) == \/ Admit(r) \/ Refuse(r) \/ \E t \in Tasks : Claim(r, t)
              \/ StartRead(r) \/ StartWrite(r) \/ StartFails(r)
              \/ Send(r) \/ Recover(r) \/ SendFails(r) \/ CallFails(r)
              \/ FinishRead(r) \/ FinishWrite(r) \/ FinishFails(r)

Next == \/ \E r \in Requests : Proceed(r)
        \/ \E r \in Requests, w \in Workers, t \in Tasks : Submit(r, w, t)
        \/ \E e \in exec, code \in {0, 1} : ExecutionEnds(e, code)
        \/ \E w \in Workers, status \in {"online", "draining"} : Attach(w, status)
        \/ \E w \in Workers : Detach(w)
        \/ Crash
        \/ Tick

Spec == Init /\ [][Next]_vars

\* A goroutine that can run does, and the call's timer fires.
FairSpec == Spec /\ \A r \in Requests : WF_vars(Proceed(r))

-----------------------------------------------------------------------------
(* Properties.                                                             *)

\* workerSlots: of two active rows no two are on one connector, although Claim
\* counts rows another goroutine's unfenced UPDATE may be about to change.
SlotExclusive ==
    \A t, u \in Tasks : /\ task[t].state \in ActiveStates
                        /\ task[u].state \in ActiveStates
                        /\ task[t].worker = task[u].worker
                        => t = u

\* Nobody takes a row from under a run: while a goroutine holds a row, reaping
\* and claiming by others leave it alone, so the unfenced UPDATEs of
\* UpdateState and Finish hit the attempt they were meant for.
RunHoldsRow ==
    \A r \in Requests : req[r].pc \in Holding =>
        /\ task[req[r].task].worker = req[r].worker
        /\ task[req[r].task].state =
              IF req[r].pc \in {"claimed", "starting"} THEN "assigned" ELSE "running"

\* Two attempts at one supervised task never execute at the same time, on one
\* machine or on two, even when the gateway has crashed and the task was claimed
\* again.  (A send_keys run outlives the connector's interest in it, so attempts
\* at it do overlap.)
AttemptsDoNotOverlap ==
    \A e, f \in exec : e.task = f.task /\ Supervised(e.task) => e = f

\* A process run that has completed on a machine is not executing there again:
\* after a crash of the gateway its outcome is recovered, not recomputed.
CompletedRunsNotRepeated ==
    \A e \in exec : LaunchOf[e.task] = "process"
                    => doneFile[e.worker][e.task] = NoCode

\* A command executes only on a connector of the project it was submitted to
\* (store.go: a task for one project must never land on another's machine).
ProjectIsolation ==
    \A e \in exec : task[e.task].project = HomeOf[e.worker]

\* Once GET /api/tasks/{id} has shown an outcome, it shows that outcome for
\* ever: no late Finish, reaping or claim rewrites a finished row.
OutcomeIsFinal ==
    [][\A t \in Tasks : task[t].state \in TerminalStates => task'[t] = task[t]]_vars

\* Every accepted POST is answered: no stage of a run waits for ever.
EveryRequestAnswered ==
    \A r \in Requests : req[r].pc # "idle" ~> req[r].pc = "idle"

\* The task plane keeps the promise TaskLifecycle states, for the commands the
\* connectors supervise.
Phase(row) == IF row.state \in ActiveStates THEN "active" ELSE row.state

Lifecycle == INSTANCE TaskLifecycle WITH
    phase     <- [t \in Tasks |-> Phase(task[t])],
    owner     <- [t \in Tasks |-> IF task[t].state \in ActiveStates
                                  THEN task[t].worker ELSE None],
    project   <- [t \in Tasks |-> task[t].project],
    executing <- {t \in Tasks : Supervised(t) /\ \E e \in exec : e.task = t}

LifecycleSpec == Lifecycle!Spec

-----------------------------------------------------------------------------
(* What hub/tasks.go and gateway/store.go say, and the task plane does not *)
(* do.                                                                     *)

\* handleCreateTask "enqueues, claims, runs, and resolves it synchronously and
\* returns the finished row": the row a request runs is the one it inserted.
SubmissionRunsItsOwnTask ==
    \A r \in Requests : req[r].pc \in Holding => req[r].task = req[r].own

\* workerSlots is "one active task per connector": a connector executes one
\* command at a time.
OneCommandPerWorker ==
    \A e, f \in exec : e.worker = f.worker => e = f

\* agent.go says that a reply the gateway waits for "is lost with the socket":
\* a command it goes on with never decides another run, so a run recorded as
\* done has ended.
CompletedRunsHaveEnded ==
    \A e \in exec : Supervised(e.task) => task[e.task].state # "done"

=============================================================================
