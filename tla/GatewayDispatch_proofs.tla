----------------------- MODULE GatewayDispatch_proofs -----------------------
(***************************************************************************)
(* For every number of tasks, requests, connectors and projects, and for   *)
(* every lease that outlasts a run, the task plane keeps its slots, never  *)
(* takes a row from under a run, never lets two attempts overlap and never *)
(* rewrites an outcome.                                                    *)
(*                                                                         *)
(* The inductive invariant relates three parties that never meet in the    *)
(* code: the row (its lease), the goroutine that claimed it (its due time) *)
(* and the command on the connector (its kill time).  A lease is at least  *)
(* the due time of the goroutine and the kill time of the command, and the *)
(* clock has passed neither, so a row whose lease has lapsed is nobody's.  *)
(***************************************************************************)
EXTENDS GatewayDispatch, TLAPS

\* The rows the task plane produces: awaiting_attention and cancelled are
\* states no request writes.  An active row is on a connector of its project.
RowsOK ==
    \A t \in Tasks :
        /\ task[t].state \in {"absent", "queued", "assigned", "running",
                              "done", "failed"}
        /\ task[t].state \in ActiveStates => /\ task[t].worker \in Workers
                                             /\ task[t].project = HomeOf[task[t].worker]

RequestsOK ==
    \A r \in Requests : /\ req[r].pc # "idle" => req[r].worker \in Workers
                        /\ req[r].pc \in Holding => req[r].task \in Tasks

\* The lease of a held row outlasts the run, the call still to come included.
LeaseOutlastsRun ==
    \A r \in Requests :
        /\ req[r].pc \in Holding => /\ now <= req[r].due
                                    /\ req[r].due <= task[req[r].task].lease
        /\ req[r].pc \in Preparing =>
              req[r].due + RpcTimeout <= task[req[r].task].lease

OneRunPerTask ==
    \A r, s \in Requests : /\ req[r].pc \in Holding /\ req[s].pc \in Holding
                           /\ req[r].task = req[s].task
                           => r = s

\* The row of an executing command is of the project of the connector that
\* executes it.  As long as the connector supervises the command, the row is
\* running for longer than the command lives, or has its outcome.
ExecutionCovered ==
    \A e \in exec :
        /\ task[e.task].state # "absent"
        /\ task[e.task].project = HomeOf[e.worker]
        /\ Supervised(e.task) =>
              /\ now <= e.until
              /\ task[e.task].state \in {"running", "done", "failed"}
              /\ task[e.task].state = "running" => e.until <= task[e.task].lease

\* A run that has not sent its command finds no earlier attempt executing under
\* supervision.
NothingSentYet ==
    \A r \in Requests, e \in exec :
        req[r].pc \in Preparing /\ Supervised(e.task) => e.task # req[r].task

IInv == /\ TypeOK
        /\ RowsOK
        /\ RequestsOK
        /\ SlotExclusive
        /\ RunHoldsRow
        /\ LeaseOutlastsRun
        /\ OneRunPerTask
        /\ ExecutionCovered
        /\ NothingSentYet
        /\ AttemptsDoNotOverlap
        /\ CompletedRunsNotRepeated

Constants == NumTasks \in Nat /\ HomeOf \in [Workers -> Projects]
             /\ None \notin Workers /\ None \notin Projects
             /\ Lease \in Nat /\ RpcTimeout \in Nat /\ Slack \in Nat /\ MaxTime \in Nat
             /\ Slack + RpcTimeout <= Lease

LEMMA ConstantsHold == Constants
BY TaskCount, Homes, NotAnyone, Durations, RunFitsLease DEF Constants

-----------------------------------------------------------------------------
(* Steps that leave the table and the commands alone.                      *)

\* A request that gives up keeps nothing: what the others hold is unaffected.
LEMMA ReleaseKeeps ==
    ASSUME IInv, NEW r \in Requests, req' = [req EXCEPT ![r] = Idle],
           UNCHANGED <<now, task, exec, astray, doneFile>>,
           presence' \in [Workers -> {"offline", "online", "draining"}]
    PROVE  IInv'
<1> USE DEF IInv
<1> Idle \in Request /\ Idle.pc = "idle"
  BY DEF Idle, Request, Tasks, NoTask
<1>1. TypeOK' BY DEF TypeOK
<1>2. \A s \in Requests : req'[s].pc # "idle" => s # r /\ req'[s] = req[s]
  BY DEF TypeOK, Idle
<1>3. RowsOK' /\ SlotExclusive' /\ ExecutionCovered' /\ AttemptsDoNotOverlap'
      /\ CompletedRunsNotRepeated'
  BY DEF RowsOK, SlotExclusive, ExecutionCovered, AttemptsDoNotOverlap,
         CompletedRunsNotRepeated
<1>4. RequestsOK' BY <1>2 DEF RequestsOK, Holding, Preparing, Recording
<1>5. RunHoldsRow' BY <1>2 DEF RunHoldsRow, Holding, Preparing, Recording
<1>6. LeaseOutlastsRun' BY <1>2 DEF LeaseOutlastsRun, Holding, Preparing, Recording
<1>7. OneRunPerTask' BY <1>2 DEF OneRunPerTask, Holding, Preparing, Recording
<1>8. NothingSentYet' BY <1>2 DEF NothingSentYet, Holding, Preparing, Recording
<1> QED BY <1>1, <1>3, <1>4, <1>5, <1>6, <1>7, <1>8

\* A run that moves on within its stage keeps its row, its due time and its
\* connector: between claimed and starting, or from running on.
LEMMA AdvanceKeeps ==
    ASSUME IInv, NEW r \in Requests, NEW next \in Request,
           req' = [req EXCEPT ![r] = next],
           UNCHANGED <<now, task, presence, exec, astray, doneFile>>,
           next.task = req[r].task, next.worker = req[r].worker,
           next.due = req[r].due,
           \/ req[r].pc = "enqueued" /\ next.pc = "admitted"
           \/ req[r].pc = "claimed" /\ next.pc = "starting"
           \/ req[r].pc \in {"started", "waiting", "finishing"} /\ next.pc \in Recording
    PROVE  IInv'
<1> USE DEF IInv
<1>1. TypeOK' BY DEF TypeOK
<1>2. \A s \in Requests : /\ req'[s].task = req[s].task
                          /\ req'[s].worker = req[s].worker
                          /\ req'[s].due = req[s].due
                          /\ s # r => req'[s] = req[s]
  BY DEF TypeOK
<1>3. req'[r] = next BY DEF TypeOK
<1>4. RowsOK' /\ SlotExclusive' /\ ExecutionCovered' /\ AttemptsDoNotOverlap'
      /\ CompletedRunsNotRepeated'
  BY DEF RowsOK, SlotExclusive, ExecutionCovered, AttemptsDoNotOverlap,
         CompletedRunsNotRepeated
<1>5. \A s \in Requests : /\ req'[s].pc \in Holding => req[s].pc \in Holding
                          /\ req'[s].pc \in Preparing => req[s].pc \in Preparing
                          /\ req'[s].pc # "idle" => req[s].pc # "idle"
  BY <1>2, <1>3 DEF Holding, Preparing, Recording
<1>6. RequestsOK' BY <1>2, <1>5 DEF RequestsOK
<1>7. RunHoldsRow' BY <1>2, <1>3, <1>5 DEF RunHoldsRow, Holding, Preparing, Recording
<1>8. LeaseOutlastsRun' BY <1>2, <1>5 DEF LeaseOutlastsRun
<1>9. OneRunPerTask' BY <1>2, <1>5 DEF OneRunPerTask
<1>10. NothingSentYet' BY <1>2, <1>5 DEF NothingSentYet
<1> QED BY <1>1, <1>4, <1>6, <1>7, <1>8, <1>9, <1>10

-----------------------------------------------------------------------------
(* Steps that write the table or the commands.                             *)

LEMMA SubmitKeeps ==
    ASSUME IInv, NEW r \in Requests, NEW w \in Workers, NEW t \in Tasks,
           Submit(r, w, t)
    PROVE  IInv'
<1> USE DEF IInv
<1> DEFINE first == [Idle EXCEPT !.pc = "enqueued", !.worker = w, !.own = t]
<1>1. /\ NewRow(HomeOf[w]) \in Row
      /\ NewRow(HomeOf[w]).state = "queued"
      /\ first \in Request /\ first.pc = "enqueued" /\ first.worker = w
  BY ConstantsHold
     DEF Constants, NewRow, Absent, Row, TaskStates, Idle, Request, Unclaimed, NoTask, TypeOK
<1>2. /\ \A u \in Tasks : u # t => task'[u] = task[u]
      /\ task'[t] = NewRow(HomeOf[w])
      /\ \A s \in Requests : s # r => req'[s] = req[s]
      /\ req'[r] = first
      /\ UNCHANGED <<now, presence, exec, astray, doneFile>>
  BY DEF Submit, TypeOK
<1>3. TypeOK' BY <1>1 DEF TypeOK, Submit
<1> HIDE DEF first
<1>4. \A s \in Requests : /\ req'[s].pc \in Holding => s # r /\ req'[s] = req[s]
                          /\ req'[s].pc \in Preparing => s # r /\ req'[s] = req[s]
  BY <1>1, <1>2 DEF Holding, Preparing, Recording
<1>5. \A s \in Requests : req[s].pc \in Holding => req[s].task # t
  BY DEF RunHoldsRow, Submit
<1>6. \A e \in exec : e.task # t
  BY DEF ExecutionCovered, Submit
<1>7. RowsOK' BY <1>1, <1>2 DEF RowsOK, ActiveStates
<1>8. SlotExclusive' BY <1>1, <1>2 DEF SlotExclusive, ActiveStates
<1>9. RequestsOK'
  <2>1. ASSUME NEW s \in Requests, req'[s].pc # "idle"
        PROVE  req'[s].worker \in Workers
    BY <1>1, <1>2, <2>1 DEF RequestsOK
  <2>2. ASSUME NEW s \in Requests, req'[s].pc \in Holding
        PROVE  req'[s].task \in Tasks
    BY <1>4, <2>2 DEF RequestsOK
  <2> QED BY <2>1, <2>2 DEF RequestsOK
<1>10. RunHoldsRow' BY <1>2, <1>4, <1>5 DEF RunHoldsRow, RequestsOK
<1>11. LeaseOutlastsRun'
  <2>1. \A s \in Requests : req[s].pc \in Preparing => req[s].pc \in Holding
    BY DEF Holding
  <2> QED BY <2>1, <1>2, <1>4, <1>5 DEF LeaseOutlastsRun, RequestsOK
<1>12. OneRunPerTask' BY <1>2, <1>4 DEF OneRunPerTask
<1>13. ExecutionCovered' BY <1>2, <1>6 DEF ExecutionCovered, TypeOK, Execution
<1>14. NothingSentYet' BY <1>2, <1>4 DEF NothingSentYet
<1>15. AttemptsDoNotOverlap' /\ CompletedRunsNotRepeated'
  BY <1>2 DEF AttemptsDoNotOverlap, CompletedRunsNotRepeated
<1> QED BY <1>3, <1>7, <1>8, <1>9, <1>10, <1>11, <1>12, <1>13, <1>14, <1>15

\* What reaping does to one row, and that it spares whatever is still in use.
LEMMA ReapedRow ==
    ASSUME NEW row \in Row, now \in Nat
    PROVE  /\ Reaped(row) \in Row
           /\ Reaped(row).project = row.project
           /\ Reaped(row) = row \/ (/\ row.state \in LeasedStates
                                    /\ row.lease < now
                                    /\ Reaped(row).state = "queued")
BY DEF Reaped, Row, TaskStates, LeasedStates

LEMMA ReapSparesTheUsed ==
    ASSUME IInv, NEW t \in Tasks,
           \/ task[t].state \in TerminalStates
           \/ \E r \in Requests : req[r].pc \in Holding /\ req[r].task = t
           \/ \E e \in exec : e.task = t /\ Supervised(t)
    PROVE  ReapExpired[t] = task[t]
<1> USE DEF IInv
<1>1. /\ task[t] \in Row /\ now \in Nat /\ task[t].lease \in Nat
      /\ ReapExpired[t] = Reaped(task[t])
  BY DEF TypeOK, Row, ReapExpired
<1>2. CASE task[t].state \in TerminalStates
  BY <1>1, <1>2, ReapedRow DEF TerminalStates, LeasedStates
<1>3. ASSUME NEW r \in Requests, req[r].pc \in Holding, req[r].task = t
      PROVE  ReapExpired[t] = task[t]
  <2>1. now <= task[t].lease
    BY <1>1, <1>3 DEF LeaseOutlastsRun, TypeOK, Request
  <2> QED BY <1>1, <2>1, ReapedRow
<1>4. ASSUME NEW e \in exec, e.task = t, Supervised(t)
      PROVE  ReapExpired[t] = task[t]
  <2>1. e.until \in Nat /\ now <= e.until
    BY <1>4 DEF TypeOK, Execution, ExecutionCovered
  <2>2. CASE task[t].state = "running"
    <3>1. now <= task[t].lease
      BY <1>1, <1>4, <2>1, <2>2 DEF ExecutionCovered
    <3> QED BY <1>1, <3>1, ReapedRow
  <2>3. CASE task[t].state # "running"
    <3>1. task[t].state \in {"done", "failed"}
      BY <1>4, <2>3 DEF ExecutionCovered
    <3> QED BY <1>1, <3>1, ReapedRow DEF LeasedStates
  <2> QED BY <2>2, <2>3
<1> QED BY <1>2, <1>3, <1>4

LEMMA ClaimKeeps ==
    ASSUME IInv, NEW r \in Requests, NEW t \in Tasks, Claim(r, t)
    PROVE  IInv'
<1> USE DEF IInv
<1> DEFINE w == req[r].worker
<1> DEFINE next == [req[r] EXCEPT !.pc = "claimed", !.task = t, !.due = now + Slack]
<1> DEFINE row == AssignedTo(ReapExpired[t], w)
<1>1. /\ req[r].pc = "admitted" /\ w \in Workers
      /\ task[t].state \in {"queued", "assigned", "running"}
      /\ ReapExpired[t].state = "queued" /\ ReapExpired[t].project = HomeOf[w]
      /\ ReapExpired[t] \in Row
      /\ SlotFree(ReapExpired, w)
  <2>1. ReapExpired[t] \in Row /\ Queued(ReapExpired, HomeOf[w], t)
    BY ReapedRow DEF Claim, OldestQueued, ReapExpired, TypeOK
  <2>2. task[t].state \in {"queued", "assigned", "running"}
    BY <2>1, ReapedRow DEF Queued, ReapExpired, TypeOK, LeasedStates
  <2> QED BY <2>1, <2>2 DEF Claim, Queued, RequestsOK
<1>2. /\ row \in Row /\ row.state = "assigned" /\ row.worker = w
      /\ row.project = HomeOf[w] /\ row.lease = now + Lease
      /\ next \in Request /\ next.pc = "claimed" /\ next.task = t
      /\ next.worker = w /\ next.due = now + Slack
  <2>1. now + Lease \in Nat /\ now + Slack \in Nat
    BY ConstantsHold DEF Constants, TypeOK
  <2>2. /\ row \in Row /\ row.state = "assigned" /\ row.worker = w
        /\ row.project = HomeOf[w] /\ row.lease = now + Lease
    BY <1>1, <2>1 DEF AssignedTo, Row, TaskStates
  <2>3. req[r] \in Request BY DEF TypeOK
  <2>4. /\ next \in Request /\ next.pc = "claimed" /\ next.task = t
        /\ next.worker = w /\ next.due = now + Slack
    BY <1>1, <2>1, <2>3 DEF Request, Holding, Preparing
  <2> QED BY <2>2, <2>4
<1>3. /\ \A u \in Tasks : u # t => task'[u] = ReapExpired[u]
      /\ task'[t] = row
      /\ \A s \in Requests : s # r => req'[s] = req[s]
      /\ req'[r] = next
      /\ UNCHANGED <<now, presence, exec, astray, doneFile>>
  BY DEF Claim, TypeOK, ReapExpired
<1>4. \A u \in Tasks : /\ ReapExpired[u] \in Row
                       /\ ReapExpired[u].project = task[u].project
                       /\ \/ ReapExpired[u] = task[u]
                          \/ ReapExpired[u].state = "queued"
  BY ReapedRow DEF ReapExpired, TypeOK
<1>5. TypeOK' BY <1>2, <1>4 DEF TypeOK, Claim, ReapExpired
<1> HIDE DEF next, row
<1>6. \A s \in Requests : /\ s # r /\ req'[s].pc \in Holding =>
                                /\ req'[s] = req[s]
                                /\ req[s].task \in Tasks \ {t}
                                /\ task'[req[s].task] = task[req[s].task]
  <2> SUFFICES ASSUME NEW s \in Requests, s # r, req[s].pc \in Holding
               PROVE  /\ req[s].task \in Tasks \ {t}
                      /\ task'[req[s].task] = task[req[s].task]
    BY <1>3
  <2>1. req[s].task \in Tasks BY DEF RequestsOK
  <2>2. ReapExpired[req[s].task] = task[req[s].task]
    BY <2>1, ReapSparesTheUsed
  <2>3. task[req[s].task].state \in {"assigned", "running"}
    BY DEF RunHoldsRow
  <2>4. req[s].task # t BY <1>1, <2>2, <2>3
  <2> QED BY <1>3, <2>1, <2>2, <2>4
<1>7. \A e \in exec : /\ e.task \in Tasks
                      /\ Supervised(e.task) => /\ e.task # t
                                               /\ task'[e.task] = task[e.task]
  <2> SUFFICES ASSUME NEW e \in exec, Supervised(e.task)
               PROVE  e.task # t /\ task'[e.task] = task[e.task]
    BY DEF TypeOK, Execution
  <2>1. e.task \in Tasks BY DEF TypeOK, Execution
  <2>2. ReapExpired[e.task] = task[e.task] BY <2>1, ReapSparesTheUsed
  <2>3. task[e.task].state # "queued" BY DEF ExecutionCovered
  <2> QED BY <1>1, <1>3, <2>1, <2>2, <2>3
<1>8. RowsOK'
  BY <1>1, <1>2, <1>3, <1>4 DEF RowsOK, ActiveStates
<1>9. SlotExclusive'
  BY <1>1, <1>2, <1>3, <1>4 DEF SlotExclusive, SlotFree, ActiveStates
<1>10. RequestsOK'
  BY <1>1, <1>2, <1>3, <1>6 DEF RequestsOK
<1>11. RunHoldsRow'
  BY <1>2, <1>3, <1>6 DEF RunHoldsRow
<1>12. LeaseOutlastsRun'
  <2>1. Preparing \subseteq Holding BY DEF Holding
  <2>2. now \in Nat BY DEF TypeOK
  <2>3. now + Slack + RpcTimeout <= now + Lease /\ now <= now + Slack
        /\ now + Slack <= now + Lease
    BY <2>2, ConstantsHold DEF Constants
  <2>4. ASSUME NEW s \in Requests, s # r, req'[s].pc \in Holding
        PROVE  /\ now' <= req'[s].due /\ req'[s].due <= task'[req'[s].task].lease
               /\ req'[s].pc \in Preparing =>
                     req'[s].due + RpcTimeout <= task'[req'[s].task].lease
    BY <1>3, <1>6, <2>4 DEF LeaseOutlastsRun
  <2>5. /\ now' <= req'[r].due /\ req'[r].due <= task'[req'[r].task].lease
        /\ req'[r].due + RpcTimeout <= task'[req'[r].task].lease
    BY <1>2, <1>3, <2>3
  <2> QED BY <2>1, <2>4, <2>5 DEF LeaseOutlastsRun
<1>13. OneRunPerTask' BY <1>2, <1>3, <1>6 DEF OneRunPerTask
<1>14. ExecutionCovered'
  <2>1. \A u \in Tasks : task[u].state # "absent" =>
                            /\ task'[u].state # "absent"
                            /\ task'[u].project = task[u].project
    BY <1>1, <1>2, <1>3, <1>4
  <2> QED BY <1>3, <1>7, <2>1 DEF ExecutionCovered, Supervised
<1>15. NothingSentYet'
  <2>1. Preparing \subseteq Holding BY DEF Holding
  <2> QED BY <2>1, <1>2, <1>3, <1>6, <1>7 DEF NothingSentYet
<1>16. AttemptsDoNotOverlap' /\ CompletedRunsNotRepeated'
  BY <1>3 DEF AttemptsDoNotOverlap, CompletedRunsNotRepeated
<1> QED BY <1>5, <1>8, <1>9, <1>10, <1>11, <1>12, <1>13, <1>14, <1>15, <1>16

\* An UPDATE by the holder of a row touches nobody else's row.
LEMMA HolderAlone ==
    ASSUME IInv, NEW r \in Requests, req[r].pc \in Holding
    PROVE  /\ req[r].task \in Tasks
           /\ task[req[r].task] \in Row
           /\ \A s \in Requests : req[s].pc \in Holding /\ s # r
                                  => req[s].task \in Tasks \ {req[r].task}
BY DEF IInv, OneRunPerTask, RequestsOK, TypeOK

LEMMA StartWriteKeeps ==
    ASSUME IInv, NEW r \in Requests, StartWrite(r)
    PROVE  IInv'
<1> USE DEF IInv
<1> DEFINE t == req[r].task
<1> DEFINE row == [task[t] EXCEPT !.state = "running"]
<1>1. /\ t \in Tasks /\ task[t].state = "assigned" /\ task[t] \in Row
      /\ \A s \in Requests : req[s].pc \in Holding /\ s # r
                             => req[s].task \in Tasks \ {t}
      /\ req[r].pc = "starting" /\ req[r].pc \in Holding /\ req[r].pc \in Preparing
  BY HolderAlone DEF StartWrite, RunHoldsRow, Holding, Preparing
<1>2. /\ row \in Row /\ row.state = "running" /\ row.worker = task[t].worker
      /\ row.project = task[t].project /\ row.lease = task[t].lease
  BY <1>1 DEF Row, TaskStates
<1>3. /\ task' = [task EXCEPT ![t] = row]
      /\ req' = [req EXCEPT ![r].pc = "started"]
      /\ UNCHANGED <<now, presence, exec, astray, doneFile>>
  BY <1>1 DEF StartWrite, WriteState, Goto, TypeOK
<1>4. /\ task'[t] = row
      /\ \A u \in Tasks : u # t => task'[u] = task[u]
      /\ \A s \in Requests : s # r => req'[s] = req[s]
      /\ req'[r].pc = "started" /\ req'[r].task = t
      /\ req'[r].worker = req[r].worker /\ req'[r].due = req[r].due
  BY <1>1, <1>3 DEF TypeOK, Request
<1>5. TypeOK'
  <2>1. [req[r] EXCEPT !.pc = "started"] \in Request
    BY DEF TypeOK, Request, Holding, Preparing
  <2> QED BY <1>2, <1>3, <2>1 DEF TypeOK
<1> HIDE DEF row, t
<1>6. RowsOK' BY <1>1, <1>2, <1>4 DEF RowsOK, ActiveStates
<1>7. SlotExclusive' BY <1>1, <1>2, <1>4 DEF SlotExclusive, ActiveStates
<1>8. RequestsOK'
  <2>1. ASSUME NEW s \in Requests
        PROVE  /\ req'[s].pc # "idle" => req'[s].worker \in Workers
               /\ req'[s].pc \in Holding => req'[s].task \in Tasks
    BY <1>1, <1>4 DEF RequestsOK
  <2> QED BY <2>1 DEF RequestsOK
<1>9. RunHoldsRow' BY <1>1, <1>2, <1>4 DEF RunHoldsRow, t
<1>10. LeaseOutlastsRun'
  <2>1. Preparing \subseteq Holding BY DEF Holding
  <2>2. ASSUME NEW s \in Requests
        PROVE  /\ req'[s].pc \in Holding =>
                     /\ now' <= req'[s].due
                     /\ req'[s].due <= task'[req'[s].task].lease
               /\ req'[s].pc \in Preparing =>
                     req'[s].due + RpcTimeout <= task'[req'[s].task].lease
    BY <1>1, <1>2, <1>3, <1>4, <2>1 DEF LeaseOutlastsRun, t
  <2> QED BY <2>2 DEF LeaseOutlastsRun
<1>11. OneRunPerTask' BY <1>1, <1>4 DEF OneRunPerTask
<1>12. ExecutionCovered'
  <2>1. \A e \in exec : e.task \in Tasks /\ (Supervised(e.task) => e.task # t)
    BY <1>1 DEF NothingSentYet, TypeOK, Execution, t
  <2>2. \A u \in Tasks : task[u].state # "absent" =>
                            /\ task'[u].state # "absent"
                            /\ task'[u].project = task[u].project
    BY <1>2, <1>4
  <2> QED BY <1>3, <1>4, <2>1, <2>2 DEF ExecutionCovered, Supervised
<1>13. NothingSentYet'
  <2>1. Preparing \subseteq Holding BY DEF Holding
  <2> QED BY <2>1, <1>1, <1>3, <1>4 DEF NothingSentYet, t
<1>14. AttemptsDoNotOverlap' /\ CompletedRunsNotRepeated'
  BY <1>3 DEF AttemptsDoNotOverlap, CompletedRunsNotRepeated
<1> QED BY <1>5, <1>6, <1>7, <1>8, <1>9, <1>10, <1>11, <1>12, <1>13, <1>14

\* The command of a run is the only execution of its task.
LEMMA SendKeeps ==
    ASSUME IInv, NEW r \in Requests, Send(r)
    PROVE  IInv'
<1> USE DEF IInv
<1> DEFINE due == req[r].due + RpcTimeout
<1> DEFINE sent == [req |-> r, task |-> req[r].task,
                    worker |-> req[r].worker, until |-> due]
<1> DEFINE next == [req[r] EXCEPT !.pc = "waiting", !.due = due]
<1>1. /\ req[r].pc = "started" /\ req[r].pc \in Preparing /\ req[r].pc \in Holding
      /\ req[r] \in Request /\ due \in Nat /\ req[r].due \in Nat /\ RpcTimeout \in Nat
      /\ req[r].task \in Tasks /\ req[r].worker \in Workers
      /\ task[req[r].task].state = "running"
      /\ task[req[r].task].worker = req[r].worker
      /\ due <= task[req[r].task].lease
  BY ConstantsHold
     DEF Constants, Send, Preparing, Holding, TypeOK, Request, RequestsOK,
         RunHoldsRow, LeaseOutlastsRun
<1>2. /\ next \in Request /\ next.pc = "waiting" /\ next.due = due
      /\ next.task = req[r].task /\ next.worker = req[r].worker
      /\ sent \in Execution /\ sent.task = req[r].task /\ sent.until = due
      /\ sent.worker = req[r].worker
  BY <1>1 DEF Request, Execution, Holding
<1>3. /\ req' = [req EXCEPT ![r] = next]
      /\ exec' = exec \cup {sent}
      /\ UNCHANGED <<now, task, presence, doneFile, astray>>
  BY DEF Send, TypeOK
<1>4. /\ req'[r] = next
      /\ \A s \in Requests : s # r => req'[s] = req[s]
  BY <1>3 DEF TypeOK
<1>5. TypeOK' BY <1>2, <1>3 DEF TypeOK
<1> HIDE DEF sent, next
<1>6. RowsOK' /\ SlotExclusive' BY <1>3 DEF RowsOK, SlotExclusive
<1>7. RequestsOK' BY <1>1, <1>2, <1>4 DEF RequestsOK
<1>8. RunHoldsRow' BY <1>1, <1>2, <1>3, <1>4 DEF RunHoldsRow
<1>9. LeaseOutlastsRun'
  <2>1. now <= req[r].due /\ now \in Nat
    BY <1>1 DEF LeaseOutlastsRun, TypeOK
  <2>2. now <= due BY <1>1, <2>1
  <2> QED BY <1>1, <1>2, <1>3, <1>4, <2>2 DEF LeaseOutlastsRun, Preparing
<1>10. OneRunPerTask' BY <1>1, <1>2, <1>4 DEF OneRunPerTask
<1>11. ExecutionCovered'
  <2>1. now <= req[r].due /\ now \in Nat
    BY <1>1 DEF LeaseOutlastsRun, TypeOK
  <2>2. now <= due BY <1>1, <2>1
  <2>3. task[req[r].task].project = HomeOf[req[r].worker]
    BY <1>1 DEF RowsOK, ActiveStates
  <2> QED BY <1>1, <1>2, <1>3, <2>2, <2>3 DEF ExecutionCovered
<1>12. NothingSentYet'
  <2>1. Preparing \subseteq Holding /\ "waiting" \notin Preparing
    BY DEF Holding, Preparing
  <2> QED BY <2>1, <1>1, <1>2, <1>3, <1>4 DEF NothingSentYet, OneRunPerTask
<1>13. AttemptsDoNotOverlap'
  BY <1>1, <1>2, <1>3 DEF AttemptsDoNotOverlap, NothingSentYet
<1>14. CompletedRunsNotRepeated'
  <2>1. /\ LaunchOf[req[r].task] = "process" =>
             doneFile[req[r].worker][req[r].task] = NoCode
    BY DEF Send, Recorded
  <2> QED BY <1>2, <1>3, <2>1 DEF CompletedRunsNotRepeated
<1> QED BY <1>5, <1>6, <1>7, <1>8, <1>9, <1>10, <1>11, <1>12, <1>13, <1>14

LEMMA FinishWriteKeeps ==
    ASSUME IInv, NEW r \in Requests, FinishWrite(r)
    PROVE  IInv'
<1> USE DEF IInv
<1> DEFINE t == req[r].task
<1> DEFINE row == [task[t] EXCEPT !.state = req[r].to, !.exit = req[r].exit]
<1>1. /\ t \in Tasks /\ task[t].state = "running" /\ task[t] \in Row
      /\ \A s \in Requests : req[s].pc \in Holding /\ s # r
                             => req[s].task \in Tasks \ {t}
      /\ req[r] \in Request
  BY HolderAlone DEF FinishWrite, RunHoldsRow, Holding, Recording, TypeOK
<1>2. /\ row \in Row /\ row.state \in {"done", "failed"}
      /\ row.project = task[t].project /\ row.lease = task[t].lease
  BY <1>1 DEF Row, TaskStates, Request
<1>3. /\ task' = [task EXCEPT ![t] = row]
      /\ req' = [req EXCEPT ![r] = Idle]
      /\ UNCHANGED <<now, presence, exec, astray, doneFile>>
  BY <1>1 DEF FinishWrite, WriteOutcome, Answer, TypeOK
<1>4. /\ task'[t] = row
      /\ \A u \in Tasks : u # t => task'[u] = task[u]
      /\ Idle \in Request /\ Idle.pc = "idle"
      /\ \A s \in Requests : req'[s].pc # "idle" => s # r /\ req'[s] = req[s]
  BY <1>1, <1>3 DEF TypeOK, Idle, Request, NoTask
<1>5. TypeOK' BY <1>2, <1>3, <1>4 DEF TypeOK
<1> HIDE DEF row, t
<1>6. "idle" \notin Holding /\ Preparing \subseteq Holding
  BY DEF Holding, Preparing, Recording
<1>7. RowsOK' BY <1>1, <1>2, <1>4 DEF RowsOK, ActiveStates
<1>8. SlotExclusive' BY <1>1, <1>2, <1>4 DEF SlotExclusive, ActiveStates
<1>9. RequestsOK' BY <1>4, <1>6 DEF RequestsOK
<1>10. \A s \in Requests : req'[s].pc \in Holding =>
                             /\ s # r /\ req'[s] = req[s]
                             /\ task'[req[s].task] = task[req[s].task]
  BY <1>1, <1>4, <1>6
<1>11. RunHoldsRow' BY <1>10 DEF RunHoldsRow
<1>12. LeaseOutlastsRun' BY <1>3, <1>6, <1>10 DEF LeaseOutlastsRun
<1>13. OneRunPerTask' BY <1>10 DEF OneRunPerTask
<1>14. ExecutionCovered'
  <2>1. \A e \in exec : e.task \in Tasks BY DEF TypeOK, Execution
  <2> QED BY <2>1, <1>1, <1>2, <1>3, <1>4 DEF ExecutionCovered
<1>15. NothingSentYet' BY <1>3, <1>6, <1>10 DEF NothingSentYet
<1>16. AttemptsDoNotOverlap' /\ CompletedRunsNotRepeated'
  BY <1>3 DEF AttemptsDoNotOverlap, CompletedRunsNotRepeated
<1> QED BY <1>5, <1>7, <1>8, <1>9, <1>11, <1>12, <1>13, <1>14, <1>15, <1>16

\* The done file of a command that ends concerns no other command: another
\* attempt would overlap.
LEMMA EndedAlone ==
    ASSUME IInv, NEW e \in exec, NEW code \in {0, 1}, exec' = exec \ {e},
           \/ doneFile' = [doneFile EXCEPT ![e.worker][e.task] = code]
           \/ UNCHANGED doneFile
    PROVE  /\ doneFile' \in [Workers -> [Tasks -> {0, 1, NoCode}]]
           /\ CompletedRunsNotRepeated'
<1> USE DEF IInv
<1>1. CASE UNCHANGED doneFile
  BY <1>1 DEF TypeOK, CompletedRunsNotRepeated
<1>2. CASE doneFile' = [doneFile EXCEPT ![e.worker][e.task] = code]
  <2>1. /\ \A f \in exec : f.worker \in Workers /\ f.task \in Tasks
        /\ doneFile \in [Workers -> [Tasks -> {0, 1, NoCode}]]
    BY DEF TypeOK, Execution
  <2>2. doneFile' \in [Workers -> [Tasks -> {0, 1, NoCode}]]
    BY <1>2, <2>1
  <2>3. \A w \in Workers, t \in Tasks :
            t # e.task => doneFile'[w][t] = doneFile[w][t]
    BY <1>2, <2>1
  <2>4. ASSUME NEW f \in exec', LaunchOf[f.task] = "process"
        PROVE  doneFile'[f.worker][f.task] = NoCode
    <3>1. f \in exec /\ f # e OBVIOUS
    <3>2. f.task # e.task
      BY <2>4, <3>1 DEF AttemptsDoNotOverlap, Supervised
    <3> QED BY <2>1, <2>3, <2>4, <3>1, <3>2 DEF CompletedRunsNotRepeated
  <2> QED BY <2>2, <2>4 DEF CompletedRunsNotRepeated
<1> QED BY <1>1, <1>2

\* Ending a command otherwise only drops it from what executes.
LEMMA FewerExecutionsKeep ==
    ASSUME IInv, NEW e \in exec, exec' = exec \ {e}, astray' = astray \ {e},
           UNCHANGED <<now, task, presence, req>>,
           doneFile' \in [Workers -> [Tasks -> {0, 1, NoCode}]],
           CompletedRunsNotRepeated'
    PROVE  IInv'
BY DEF IInv, TypeOK, RowsOK, RequestsOK, SlotExclusive, RunHoldsRow,
       LeaseOutlastsRun, OneRunPerTask, ExecutionCovered, NothingSentYet,
       AttemptsDoNotOverlap

LEMMA ExecutionEndsKeeps ==
    ASSUME IInv, NEW e \in exec, NEW code \in {0, 1}, ExecutionEnds(e, code)
    PROVE  IInv'
<1> USE DEF IInv
<1>1. /\ doneFile' \in [Workers -> [Tasks -> {0, 1, NoCode}]]
      /\ CompletedRunsNotRepeated'
  BY EndedAlone DEF ExecutionEnds
<1>2. CASE UNCHANGED req
  BY <1>2, <1>1, FewerExecutionsKeep DEF ExecutionEnds
<1>3. ASSUME NEW r \in Requests, req[r].pc = "waiting",
             Outcome(r, TerminalState(code), code)
      PROVE  IInv'
  <2> DEFINE next == [req[r] EXCEPT !.pc = "finishing",
                                    !.to = TerminalState(code),
                                    !.exit = code]
  <2>1. /\ r \in Requests /\ next \in Request /\ next.pc = "finishing"
        /\ next.task = req[r].task /\ next.worker = req[r].worker
        /\ next.due = req[r].due
        /\ req' = [req EXCEPT ![r] = next]
        /\ exec' = exec \ {e} /\ astray' = astray \ {e}
        /\ UNCHANGED <<now, task, presence>>
    <3>1. r \in Requests OBVIOUS
    <3>2. req[r] \in Request BY <3>1 DEF TypeOK
    <3>3. "finishing" \in Holding BY DEF Holding, Recording
    <3>4. /\ next \in Request /\ next.pc = "finishing"
          /\ next.task = req[r].task /\ next.worker = req[r].worker
          /\ next.due = req[r].due
      BY <3>2, <3>3 DEF Request, TerminalState
    <3>5. req' = [req EXCEPT ![r] = next]
      BY <1>3, <3>1 DEF Outcome, TypeOK
    <3>6. /\ exec' = exec \ {e} /\ astray' = astray \ {e}
          /\ UNCHANGED <<now, task, presence>>
      BY DEF ExecutionEnds
    <3> QED BY <3>1, <3>4, <3>5, <3>6
  <2> HIDE DEF next
  <2>2. TypeOK' BY <1>1, <2>1 DEF TypeOK
  <2>3. \A s \in Requests : /\ req'[s].task = req[s].task
                            /\ req'[s].worker = req[s].worker
                            /\ req'[s].due = req[s].due
                            /\ s # r => req'[s] = req[s]
    BY <2>1 DEF TypeOK
  <2>4. req'[r] = next BY <2>1 DEF TypeOK
  <2>5. \A s \in Requests : /\ req'[s].pc \in Holding => req[s].pc \in Holding
                            /\ req'[s].pc \in Preparing => req[s].pc \in Preparing
                            /\ req'[s].pc # "idle" => req[s].pc # "idle"
    BY <1>3, <2>1, <2>3, <2>4 DEF Holding, Preparing, Recording
  <2>6. RowsOK' /\ SlotExclusive' BY <2>1 DEF RowsOK, SlotExclusive
  <2>7. RequestsOK' BY <2>3, <2>5 DEF RequestsOK
  <2>8. RunHoldsRow'
    BY <1>3, <2>1, <2>3, <2>4, <2>5 DEF RunHoldsRow, Holding, Preparing, Recording
  <2>9. LeaseOutlastsRun' BY <2>1, <2>3, <2>5 DEF LeaseOutlastsRun
  <2>10. OneRunPerTask' BY <2>3, <2>5 DEF OneRunPerTask
  <2>11. ExecutionCovered' /\ AttemptsDoNotOverlap'
    BY <2>1 DEF ExecutionCovered, AttemptsDoNotOverlap
  <2>12. NothingSentYet' BY <2>1, <2>3, <2>5 DEF NothingSentYet
  <2> QED BY <1>1, <2>2, <2>6, <2>7, <2>8, <2>9, <2>10, <2>11, <2>12
<1> QED BY <1>2, <1>3 DEF ExecutionEnds, Hears

LEMMA CrashKeeps ==
    ASSUME IInv, Crash
    PROVE  IInv'
<1> USE DEF IInv
<1>1. Idle \in Request /\ Idle.pc = "idle" /\ "idle" \notin Holding
      /\ "idle" \notin Preparing
  BY DEF Idle, Request, NoTask, Holding, Preparing, Recording
<1>2. \A r \in Requests : req'[r] = Idle BY DEF Crash
<1> QED
  BY <1>1, <1>2
     DEF Crash, OnLostSockets, TypeOK, RowsOK, RequestsOK, SlotExclusive, RunHoldsRow,
         LeaseOutlastsRun, OneRunPerTask, ExecutionCovered, NothingSentYet,
         AttemptsDoNotOverlap, CompletedRunsNotRepeated

\* The clock passes neither a due time nor a kill time.
LEMMA TickKeeps ==
    ASSUME IInv, Tick
    PROVE  IInv'
<1> USE DEF IInv, Tick
<1>1. now \in Nat /\ now' = now + 1 /\ UNCHANGED <<task, presence, req, exec, astray, doneFile>>
  BY DEF TypeOK
<1>2. /\ TypeOK' /\ RowsOK' /\ RequestsOK' /\ SlotExclusive' /\ RunHoldsRow'
      /\ OneRunPerTask' /\ NothingSentYet' /\ AttemptsDoNotOverlap'
      /\ CompletedRunsNotRepeated'
  BY <1>1 DEF TypeOK, RowsOK, RequestsOK, SlotExclusive, RunHoldsRow,
              OneRunPerTask, NothingSentYet, AttemptsDoNotOverlap,
              CompletedRunsNotRepeated
<1>3. LeaseOutlastsRun'
  <2>1. \A r \in Requests : req[r].due \in Nat BY DEF TypeOK, Request
  <2> QED BY <1>1, <2>1 DEF LeaseOutlastsRun
<1>4. ExecutionCovered'
  <2>1. \A e \in exec : e.until \in Nat BY DEF TypeOK, Execution
  <2> QED BY <1>1, <2>1 DEF ExecutionCovered
<1> QED BY <1>2, <1>3, <1>4

-----------------------------------------------------------------------------
(* The invariant holds, and what follows from it.                          *)

LEMMA InitHolds == Init => IInv
<1> SUFFICES ASSUME Init PROVE IInv
  OBVIOUS
<1>1. Absent \in Row /\ Absent.state = "absent" /\ Idle \in Request /\ Idle.pc = "idle"
  BY DEF Absent, Row, TaskStates, Idle, Request, NoTask
<1>2. TypeOK BY <1>1 DEF Init, TypeOK
<1>3. "idle" \notin Holding /\ "idle" \notin Preparing
  BY DEF Holding, Preparing, Recording
<1>4. RowsOK /\ SlotExclusive
  BY <1>1 DEF Init, RowsOK, SlotExclusive, ActiveStates
<1> QED
  BY <1>1, <1>2, <1>3, <1>4
     DEF Init, IInv, RequestsOK, RunHoldsRow, LeaseOutlastsRun, OneRunPerTask,
         ExecutionCovered, NothingSentYet, AttemptsDoNotOverlap,
         CompletedRunsNotRepeated

\* The actions of a request that move on within a stage.
LEMMA GotoKeeps ==
    ASSUME IInv, NEW r \in Requests, NEW pc, Goto(r, pc),
           UNCHANGED <<now, task, presence, exec, astray, doneFile>>,
           \/ req[r].pc = "enqueued" /\ pc = "admitted"
           \/ req[r].pc = "claimed" /\ pc = "starting"
           \/ req[r].pc = "finishing" /\ pc = "recording"
    PROVE  IInv'
<1> DEFINE next == [req[r] EXCEPT !.pc = pc]
<1>1. req[r] \in Request /\ pc \in {"admitted", "starting", "recording"}
  BY DEF IInv, TypeOK
<1>2. /\ next \in Request /\ next.pc = pc /\ next.task = req[r].task
      /\ next.worker = req[r].worker /\ next.due = req[r].due
  BY <1>1 DEF Request, Unclaimed, Holding, Preparing, Recording
<1>3. req' = [req EXCEPT ![r] = next] BY DEF Goto, IInv, TypeOK
<1> HIDE DEF next
<1> QED BY <1>2, <1>3, AdvanceKeeps DEF Recording

LEMMA OutcomeKeeps ==
    ASSUME IInv, NEW r \in Requests, NEW to \in {"done", "failed"},
           NEW code \in {0, 1}, Outcome(r, to, code),
           UNCHANGED <<now, task, presence, exec, astray, doneFile>>,
           req[r].pc \in {"started", "waiting"}
    PROVE  IInv'
<1> DEFINE next == [req[r] EXCEPT !.pc = "finishing", !.to = to, !.exit = code]
<1>1. req[r] \in Request /\ "finishing" \in Holding
  BY DEF IInv, TypeOK, Holding, Recording
<1>2. /\ next \in Request /\ next.pc = "finishing" /\ next.task = req[r].task
      /\ next.worker = req[r].worker /\ next.due = req[r].due
  BY <1>1 DEF Request
<1>3. req' = [req EXCEPT ![r] = next] BY DEF Outcome, IInv, TypeOK
<1> HIDE DEF next
<1> QED BY <1>2, <1>3, AdvanceKeeps DEF Recording

LEMMA ProceedKeeps ==
    ASSUME IInv, NEW r \in Requests, Proceed(r)
    PROVE  IInv'
<1>1. CASE Admit(r) BY <1>1, GotoKeeps DEF Admit
<1>2. CASE Refuse(r) \/ StartFails(r) \/ FinishFails(r)
  BY <1>2, ReleaseKeeps DEF Refuse, StartFails, FinishFails, Answer, IInv, TypeOK
<1>3. CASE \E t \in Tasks : Claim(r, t) BY <1>3, ClaimKeeps
<1>4. CASE StartRead(r) BY <1>4, GotoKeeps DEF StartRead
<1>5. CASE StartWrite(r) BY <1>5, StartWriteKeeps
<1>6. CASE Send(r) BY <1>6, SendKeeps
<1>7. CASE Recover(r)
  <2> DEFINE code == doneFile[req[r].worker][req[r].task]
  <2>1. req[r].task \in Tasks /\ req[r].worker \in Workers
    BY <1>7 DEF Recover, IInv, RequestsOK, Holding, Preparing
  <2>2. code \in {0, 1} BY <1>7, <2>1 DEF Recover, Recorded, IInv, TypeOK
  <2>3. TerminalState(code) \in {"done", "failed"} BY DEF TerminalState
  <2> QED BY <1>7, <2>2, <2>3, OutcomeKeeps DEF Recover
<1>8. CASE SendFails(r) \/ CallFails(r)
  BY <1>8, OutcomeKeeps DEF SendFails, CallFails
<1>9. CASE FinishRead(r) BY <1>9, GotoKeeps DEF FinishRead
<1>10. CASE FinishWrite(r) BY <1>10, FinishWriteKeeps
<1> QED BY <1>1, <1>2, <1>3, <1>4, <1>5, <1>6, <1>7, <1>8, <1>9, <1>10 DEF Proceed

\* The sockets play no part in the invariant.
LEMMA SocketsFree ==
    ASSUME IInv, presence' \in [Workers -> {"offline", "online", "draining"}],
           UNCHANGED <<now, task, req, exec, doneFile>>, astray' \subseteq exec
    PROVE  IInv'
BY DEF IInv, TypeOK, RowsOK, RequestsOK, SlotExclusive, RunHoldsRow,
       LeaseOutlastsRun, OneRunPerTask, ExecutionCovered, NothingSentYet,
       AttemptsDoNotOverlap, CompletedRunsNotRepeated

LEMMA NextKeeps == IInv /\ [Next]_vars => IInv'
<1> SUFFICES ASSUME IInv, [Next]_vars PROVE IInv'
  OBVIOUS
<1>1. ASSUME NEW r \in Requests, Proceed(r) PROVE IInv'
  BY <1>1, ProceedKeeps
<1>2. ASSUME NEW r \in Requests, NEW w \in Workers, NEW t \in Tasks, Submit(r, w, t)
      PROVE  IInv'
  BY <1>2, SubmitKeeps
<1>3. ASSUME NEW e \in exec, NEW code \in {0, 1}, ExecutionEnds(e, code)
      PROVE  IInv'
  BY <1>3, ExecutionEndsKeeps
<1>4. ASSUME NEW w \in Workers, NEW status \in {"online", "draining"}, Attach(w, status)
      PROVE  IInv'
  BY <1>4, SocketsFree DEF Attach, OnLostSockets, IInv, TypeOK
<1>5. ASSUME NEW w \in Workers, Detach(w) PROVE IInv'
  BY <1>5, SocketsFree DEF Detach, OnLostSockets, IInv, TypeOK
<1>6. CASE Crash BY <1>6, CrashKeeps
<1>7. CASE Tick BY <1>7, TickKeeps
<1>8. CASE UNCHANGED vars
  BY <1>8, SocketsFree DEF vars, IInv, TypeOK
<1> QED BY <1>1, <1>2, <1>3, <1>4, <1>5, <1>6, <1>7, <1>8 DEF Next

LEMMA InvariantHolds == Spec => []IInv
BY InitHolds, NextKeeps, PTL DEF Spec

\* Every variable keeps its type: no state of the task plane leaves the table,
\* the goroutines or the commands in a shape the code does not know.
THEOREM TypeCorrect == Spec => []TypeOK
<1>1. IInv => TypeOK BY DEF IInv
<1> QED BY <1>1, InvariantHolds, PTL

\* Claim's count is enough: a connector never has two active rows, whatever the
\* unfenced UPDATEs of UpdateState and Finish interleave with.
THEOREM SlotsAreExclusive == Spec => []SlotExclusive
<1>1. IInv => SlotExclusive BY DEF IInv
<1> QED BY <1>1, InvariantHolds, PTL

\* A run keeps the row it claimed, in the state it left it in, until it has
\* recorded the outcome or given up.
THEOREM RunsHoldTheirRows == Spec => []RunHoldsRow
<1>1. IInv => RunHoldsRow BY DEF IInv
<1> QED BY <1>1, InvariantHolds, PTL

\* The lease keeps a task from being attempted again while a connector still
\* supervises an earlier attempt, across crashes of the gateway.
THEOREM AttemptsNeverOverlap == Spec => []AttemptsDoNotOverlap
<1>1. IInv => AttemptsDoNotOverlap BY DEF IInv
<1> QED BY <1>1, InvariantHolds, PTL

\* The done file is enough: what completed on a machine is not started there
\* again.
THEOREM CompletedRunsStayCompleted == Spec => []CompletedRunsNotRepeated
<1>1. IInv => CompletedRunsNotRepeated BY DEF IInv
<1> QED BY <1>1, InvariantHolds, PTL

\* A connector only ever executes work of the project it is enrolled into.
THEOREM ProjectsAreIsolated == Spec => []ProjectIsolation
<1>1. IInv => ProjectIsolation BY DEF IInv, ExecutionCovered, ProjectIsolation
<1> QED BY <1>1, InvariantHolds, PTL

-----------------------------------------------------------------------------
(* Outcomes are final.                                                     *)

LEMMA FinalStep ==
    ASSUME IInv, [Next]_vars, NEW t \in Tasks, task[t].state \in TerminalStates
    PROVE  task'[t] = task[t]
<1> USE DEF IInv, TerminalStates
<1>1. CASE UNCHANGED task BY <1>1
<1>2. ASSUME NEW r \in Requests, NEW w \in Workers, NEW u \in Tasks, Submit(r, w, u)
      PROVE  task'[t] = task[t]
  BY <1>2 DEF Submit, TypeOK
<1>3. ASSUME NEW r \in Requests, NEW u \in Tasks, Claim(r, u)
      PROVE  task'[t] = task[t]
  <2>1. ReapExpired[t] = task[t] BY ReapSparesTheUsed
  <2>2. ReapExpired[u].state = "queued" BY <1>3 DEF Claim, OldestQueued, Queued
  <2>3. task' = [ReapExpired EXCEPT ![u] = AssignedTo(ReapExpired[u], req[r].worker)]
    BY <1>3 DEF Claim
  <2> QED BY <2>1, <2>2, <2>3 DEF ReapExpired
<1>4. ASSUME NEW r \in Requests, StartWrite(r)
      PROVE  task'[t] = task[t]
  BY <1>4 DEF StartWrite, WriteState, RunHoldsRow, Holding, Preparing, TypeOK
<1>5. ASSUME NEW r \in Requests, FinishWrite(r)
      PROVE  task'[t] = task[t]
  BY <1>5 DEF FinishWrite, WriteOutcome, RunHoldsRow, Holding, Recording, TypeOK
<1>6. \/ UNCHANGED task
      \/ \E r \in Requests, w \in Workers, u \in Tasks : Submit(r, w, u)
      \/ \E r \in Requests, u \in Tasks : Claim(r, u)
      \/ \E r \in Requests : StartWrite(r) \/ FinishWrite(r)
  BY DEF Next, Proceed, Admit, Refuse, StartRead, StartFails, Send, Recover, SendFails,
         CallFails, FinishRead, FinishFails, ExecutionEnds, Attach, Detach, Crash,
         Tick, vars
<1> QED BY <1>1, <1>2, <1>3, <1>4, <1>5, <1>6

\* A finished row is never written again: not by a late Finish, whose check and
\* whose UPDATE are two statements, nor by reaping or claiming.
THEOREM OutcomesAreFinal == Spec => OutcomeIsFinal
<1>1. IInv /\ [Next]_vars
      => [\A t \in Tasks : task[t].state \in TerminalStates => task'[t] = task[t]]_vars
  BY FinalStep
<1> QED BY <1>1, InvariantHolds, PTL DEF Spec, OutcomeIsFinal

-----------------------------------------------------------------------------
(* The task plane implements TaskLifecycle.                                *)

LEMMA SameLifecycle ==
    ASSUME UNCHANGED <<task, exec>>
    PROVE  UNCHANGED Lifecycle!lifecycle
BY DEF Lifecycle!lifecycle

LEMMA SubmitRefines ==
    ASSUME IInv, NEW r \in Requests, NEW w \in Workers, NEW t \in Tasks,
           Submit(r, w, t)
    PROVE  Lifecycle!Submit(t, HomeOf[w])
<1>1. /\ task[t].state = "absent" /\ task \in [Tasks -> Row]
      /\ task' = [task EXCEPT ![t] = NewRow(HomeOf[w])] /\ UNCHANGED exec
  BY DEF Submit, IInv, TypeOK
<1>2. NewRow(HomeOf[w]).state = "queued" /\ NewRow(HomeOf[w]).project = HomeOf[w]
  BY DEF NewRow, Absent
<1> QED BY <1>1, <1>2 DEF Lifecycle!Submit, Phase, ActiveStates

LEMMA StartWriteRefines ==
    ASSUME IInv, NEW r \in Requests, StartWrite(r)
    PROVE  UNCHANGED Lifecycle!lifecycle
<1>1. /\ req[r].task \in Tasks /\ task[req[r].task].state = "assigned"
      /\ task[req[r].task] \in Row /\ task \in [Tasks -> Row]
      /\ task' = [task EXCEPT ![req[r].task].state = "running"]
      /\ UNCHANGED exec
  BY DEF StartWrite, WriteState, IInv, TypeOK, RequestsOK, RunHoldsRow, Holding,
         Preparing
<1>2. \A t \in Tasks : /\ Phase(task'[t]) = Phase(task[t])
                       /\ task'[t].worker = task[t].worker
                       /\ task'[t].project = task[t].project
                       /\ task'[t].state \in ActiveStates <=>
                          task[t].state \in ActiveStates
  BY <1>1 DEF Phase, ActiveStates, Row
<1> QED BY <1>1, <1>2 DEF Lifecycle!lifecycle

LEMMA FinishWriteRefines ==
    ASSUME IInv, NEW r \in Requests, FinishWrite(r),
           NEW u \in Tasks, u = req[r].task, NEW to, to = req[r].to
    PROVE  Lifecycle!Finish(u, to)
<1>1. /\ task[u].state = "running"
      /\ to \in {"done", "failed"}
      /\ task[u] \in Row /\ task \in [Tasks -> Row]
      /\ task' = [task EXCEPT ![u].state = to,
                              ![u].exit = req[r].exit]
      /\ UNCHANGED exec
  BY DEF FinishWrite, WriteOutcome, IInv, TypeOK, RequestsOK, RunHoldsRow, Holding,
         Recording, Request
<1>2. /\ task'[u].state = to
      /\ \A t \in Tasks : /\ t # u => task'[t] = task[t]
                           /\ task'[t].project = task[t].project
  BY <1>1 DEF Row
<1>3. \A t \in Tasks :
         /\ Phase(task'[t]) = IF t = u THEN to ELSE Phase(task[t])
         /\ (IF task'[t].state \in ActiveStates THEN task'[t].worker ELSE None)
            = IF t = u THEN None
              ELSE IF task[t].state \in ActiveStates THEN task[t].worker ELSE None
  BY <1>1, <1>2 DEF Phase, ActiveStates
<1>4. [t \in Tasks |-> Phase(task'[t])]
      = [[t \in Tasks |-> Phase(task[t])] EXCEPT ![u] = req[r].to]
  BY <1>1, <1>3
<1>5. [t \in Tasks |-> IF task'[t].state \in ActiveStates THEN task'[t].worker ELSE None]
      = [[t \in Tasks |-> IF task[t].state \in ActiveStates THEN task[t].worker ELSE None]
           EXCEPT ![u] = None]
  BY <1>1, <1>3
<1>6. Phase(task[u]) = "active"
  BY <1>1 DEF Phase, ActiveStates
<1>7. /\ UNCHANGED [t \in Tasks |-> task[t].project]
      /\ UNCHANGED {t \in Tasks : Supervised(t) /\ \E e \in exec : e.task = t}
  BY <1>1, <1>2
<1> QED BY <1>1, <1>4, <1>5, <1>6, <1>7 DEF Lifecycle!Finish

\* The rows reaping takes back are nobody's.
LEMMA ClaimRefines ==
    ASSUME IInv, NEW r \in Requests, NEW t \in Tasks, Claim(r, t)
    PROVE  \E v \in Workers, L \in SUBSET Tasks : Lifecycle!Start(t, v, L)
<1>1. PICK w \in Workers : w = req[r].worker
  BY DEF IInv, Claim, RequestsOK
<1>2. PICK Lapsed \in SUBSET Tasks : Lapsed = {u \in Tasks : ReapExpired[u] # task[u]}
  OBVIOUS
<1> DEFINE Executing == {u \in Tasks : Supervised(u) /\ \E e \in exec : e.task = u}
<1> USE DEF IInv
<1>3. /\ ReapExpired[t].state = "queued" /\ ReapExpired[t].project = HomeOf[w]
      /\ SlotFree(ReapExpired, w)
      /\ task' = [ReapExpired EXCEPT ![t] = AssignedTo(ReapExpired[t], w)]
      /\ UNCHANGED exec
  BY <1>1 DEF Claim, OldestQueued, Queued, RequestsOK
<1>4. \A u \in Tasks : /\ ReapExpired[u] \in Row
                       /\ ReapExpired[u].project = task[u].project
                       /\ u \in Lapsed => /\ task[u].state \in ActiveStates
                                          /\ ReapExpired[u].state = "queued"
  BY <1>2, ReapedRow DEF ReapExpired, TypeOK, LeasedStates, ActiveStates
<1>5. \A u \in Tasks : u \in Lapsed => u \notin Executing
  BY <1>2, ReapSparesTheUsed
<1>6. t \notin Executing
  <2> SUFFICES ASSUME NEW e \in exec, e.task = t, Supervised(t) PROVE FALSE
    OBVIOUS
  <2>1. ReapExpired[t] = task[t] BY ReapSparesTheUsed
  <2> QED BY <1>3, <2>1 DEF ExecutionCovered
<1>7. \A u \in Tasks : u # t => task'[u] = ReapExpired[u]
  BY <1>3 DEF ReapExpired
<1>8. task'[t].state = "assigned" /\ task'[t].worker = w /\ task'[t].project = HomeOf[w]
  BY <1>3, <1>4 DEF AssignedTo, Row, ReapExpired
<1>9. \A u \in Tasks : u \notin Lapsed /\ task[u].state \in ActiveStates
                       => task[u].worker # w
  BY <1>2, <1>3 DEF SlotFree
<1>10. t \in Lapsed \/ task[t].state = "queued" BY <1>2, <1>3
<1>11. \A u \in Tasks :
          Phase(task'[u]) = IF u = t THEN "active"
                            ELSE IF u \in Lapsed THEN "queued" ELSE Phase(task[u])
  BY <1>2, <1>4, <1>7, <1>8 DEF Phase, ActiveStates
<1>12. \A u \in Tasks :
          (IF task'[u].state \in ActiveStates THEN task'[u].worker ELSE None)
          = IF u = t THEN w
            ELSE IF u \in Lapsed THEN None
            ELSE IF task[u].state \in ActiveStates THEN task[u].worker ELSE None
  BY <1>2, <1>4, <1>7, <1>8 DEF ActiveStates
<1>13. \A u \in Tasks : task'[u].project = task[u].project
  BY <1>3, <1>4, <1>7, <1>8
<1>14. \A u \in Tasks : Phase(task[u]) = "active" <=> task[u].state \in ActiveStates
  BY DEF Phase, ActiveStates, TypeOK, Row, TaskStates
<1>15. Lapsed \subseteq Lifecycle!Active([u \in Tasks |-> Phase(task[u])]) \ Executing
  BY <1>4, <1>5, <1>14 DEF Lifecycle!Active
<1>16. \A u \in Lifecycle!Active([v \in Tasks |-> Phase(task[v])]) \ Lapsed :
          /\ u \in Tasks
          /\ (IF task[u].state \in ActiveStates THEN task[u].worker ELSE None) # w
  BY <1>9, <1>14 DEF Lifecycle!Active
<1>17. [u \in Tasks |-> Phase(task'[u])]
       = [u \in Tasks |-> IF u = t THEN "active"
                          ELSE IF u \in Lapsed THEN "queued" ELSE Phase(task[u])]
  BY <1>11
<1>18. [u \in Tasks |-> IF task'[u].state \in ActiveStates THEN task'[u].worker ELSE None]
       = [u \in Tasks |->
            IF u = t THEN w
            ELSE IF u \in Lapsed THEN None
            ELSE IF task[u].state \in ActiveStates THEN task[u].worker ELSE None]
  BY <1>12
<1>19. /\ UNCHANGED [u \in Tasks |-> task[u].project]
       /\ UNCHANGED Executing
       /\ task[t].project = HomeOf[w]
  BY <1>3, <1>4, <1>13
<1>20. t \in Lapsed \/ Phase(task[t]) = "queued"
  BY <1>10 DEF Phase, ActiveStates
<1> HIDE DEF IInv
<1>21. Lifecycle!Start(t, w, Lapsed)
  BY <1>6, <1>15, <1>16, <1>17, <1>18, <1>19, <1>20 DEF Lifecycle!Start
<1> QED BY <1>21

LEMMA SendRefines ==
    ASSUME IInv, NEW r \in Requests, Send(r), NEW t \in Tasks, t = req[r].task
    PROVE  [Lifecycle!BeginExecution(t)]_(Lifecycle!lifecycle)
<1> DEFINE Executing(ex) == {u \in Tasks : Supervised(u) /\ \E e \in ex : e.task = u}
<1>1. /\ task[t].state = "running"
      /\ UNCHANGED task
      /\ \E e : e.task = t /\ exec' = exec \cup {e}
  BY DEF Send, IInv, RequestsOK, RunHoldsRow, Holding, Preparing
<1>2. CASE Supervised(t)
  <2>1. t \notin Executing(exec)
    BY <1>2 DEF Send, IInv, NothingSentYet, Preparing
  <2>2. Executing(exec') = Executing(exec) \cup {t}
    BY <1>1, <1>2
  <2>3. Phase(task[t]) = "active" BY <1>1 DEF Phase, ActiveStates
  <2>4. /\ UNCHANGED [u \in Tasks |-> Phase(task[u])]
        /\ UNCHANGED [u \in Tasks |-> IF task[u].state \in ActiveStates
                                      THEN task[u].worker ELSE None]
        /\ UNCHANGED [u \in Tasks |-> task[u].project]
    BY <1>1
  <2> QED BY <1>1, <2>1, <2>2, <2>3, <2>4 DEF Lifecycle!BeginExecution
<1>3. CASE ~Supervised(t)
  <2>1. Executing(exec') = Executing(exec)
    BY <1>1, <1>3
  <2> QED BY <1>1, <2>1 DEF Lifecycle!lifecycle
<1> QED BY <1>2, <1>3

LEMMA ExecutionEndsRefines ==
    ASSUME IInv, NEW e \in exec, NEW code \in {0, 1}, ExecutionEnds(e, code)
    PROVE  [Lifecycle!EndExecution(e.task)]_(Lifecycle!lifecycle)
<1> DEFINE Executing(ex) == {u \in Tasks : Supervised(u) /\ \E f \in ex : f.task = u}
<1>1. e.task \in Tasks /\ UNCHANGED task /\ exec' = exec \ {e}
  BY DEF ExecutionEnds, IInv, TypeOK, Execution
<1>2. CASE Supervised(e.task)
  <2>1. e.task \in Executing(exec) BY <1>1, <1>2
  <2>2. Executing(exec') = Executing(exec) \ {e.task}
    BY <1>1, <1>2 DEF IInv, AttemptsDoNotOverlap
  <2>3. /\ UNCHANGED [u \in Tasks |-> Phase(task[u])]
        /\ UNCHANGED [u \in Tasks |-> IF task[u].state \in ActiveStates
                                      THEN task[u].worker ELSE None]
        /\ UNCHANGED [u \in Tasks |-> task[u].project]
    BY <1>1
  <2> QED BY <2>1, <2>2, <2>3 DEF Lifecycle!EndExecution
<1>3. CASE ~Supervised(e.task)
  <2>1. Executing(exec') = Executing(exec)
    BY <1>1, <1>3
  <2> QED BY <1>1, <2>1 DEF Lifecycle!lifecycle
<1> QED BY <1>2, <1>3

LEMMA NextRefines == IInv /\ [Next]_vars => [Lifecycle!Next]_(Lifecycle!lifecycle)
<1> SUFFICES ASSUME IInv, [Next]_vars
             PROVE  [Lifecycle!Next]_(Lifecycle!lifecycle)
  OBVIOUS
<1>1. ASSUME NEW r \in Requests, NEW w \in Workers, NEW t \in Tasks, Submit(r, w, t)
      PROVE  Lifecycle!Next
  <2>1. HomeOf[w] \in Projects BY Homes
  <2> QED BY <1>1, <2>1, SubmitRefines DEF Lifecycle!Next
<1>2. ASSUME NEW r \in Requests, NEW t \in Tasks, Claim(r, t)
      PROVE  Lifecycle!Next
  BY <1>2, ClaimRefines DEF Lifecycle!Next
<1>3. ASSUME NEW r \in Requests, Send(r)
      PROVE  [Lifecycle!Next]_(Lifecycle!lifecycle)
  <2>1. PICK t \in Tasks : t = req[r].task
    BY <1>3 DEF Send, IInv, RequestsOK, Holding, Preparing
  <2> QED BY <1>3, <2>1, SendRefines DEF Lifecycle!Next
<1>4. ASSUME NEW e \in exec, NEW code \in {0, 1}, ExecutionEnds(e, code)
      PROVE  [Lifecycle!Next]_(Lifecycle!lifecycle)
  <2>1. e.task \in Tasks BY DEF IInv, TypeOK, Execution
  <2> QED BY <1>4, <2>1, ExecutionEndsRefines DEF Lifecycle!Next
<1>5. ASSUME NEW r \in Requests, FinishWrite(r)
      PROVE  Lifecycle!Next
  <2>1. PICK t \in Tasks, to \in {"done", "failed"} : t = req[r].task /\ to = req[r].to
    BY <1>5 DEF FinishWrite, IInv, RequestsOK, TypeOK, Request, Holding, Recording
  <2> QED BY <1>5, <2>1, FinishWriteRefines DEF Lifecycle!Next
<1>6. ASSUME NEW r \in Requests, StartWrite(r)
      PROVE  UNCHANGED Lifecycle!lifecycle
  BY <1>6, StartWriteRefines
<1>7. CASE UNCHANGED <<task, exec>> BY <1>7, SameLifecycle
<1>8. \/ UNCHANGED <<task, exec>>
      \/ \E r \in Requests, w \in Workers, t \in Tasks : Submit(r, w, t)
      \/ \E r \in Requests, t \in Tasks : Claim(r, t)
      \/ \E r \in Requests : StartWrite(r) \/ Send(r) \/ FinishWrite(r)
      \/ \E e \in exec, code \in {0, 1} : ExecutionEnds(e, code)
  BY DEF Next, Proceed, Admit, Refuse, StartRead, StartFails, Recover, SendFails,
         CallFails, FinishRead, FinishFails, Attach, Detach, Crash, Tick, vars
<1> QED BY <1>1, <1>2, <1>3, <1>4, <1>5, <1>6, <1>7, <1>8

LEMMA InitRefines == Init => Lifecycle!Init
BY DEF Init, Lifecycle!Init, Phase, Absent, ActiveStates

\* Leases, sockets, goroutines and the clock implement the promise of
\* TaskLifecycle: work only on machines of its project, one task per machine,
\* no second attempt while the first executes, outcomes for good.
THEOREM ImplementsLifecycle == Spec => LifecycleSpec
BY InitRefines, NextRefines, InvariantHolds, PTL
   DEF Spec, LifecycleSpec, Lifecycle!Spec

=============================================================================
