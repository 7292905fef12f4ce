--------------------------- MODULE TaskLifecycle ---------------------------
(***************************************************************************)
(* What the task plane promises to whoever submits work and whoever lends  *)
(* a machine, without sockets, leases, requests or a clock:                *)
(*   - a worker holds one task at a time, and only work of its project;    *)
(*   - a task is taken back for another attempt only when no machine is    *)
(*     executing it any more, so two attempts never overlap;               *)
(*   - an outcome, once recorded, is final.                                *)
(* It does NOT promise that a task with an outcome has stopped executing.  *)
(***************************************************************************)
CONSTANTS Tasks, Workers, None, Projects, HomeOf

VARIABLES phase,        \* absent, queued, active, done or failed
          owner,        \* the worker an active task is on
          project,      \* the project a task was submitted to
          executing     \* the tasks some machine is executing right now,
                        \* supervising the command

lifecycle == <<phase, owner, project, executing>>

Active(ph) == {t \in Tasks : ph[t] = "active"}

Init == /\ phase = [t \in Tasks |-> "absent"]
        /\ owner = [t \in Tasks |-> None]
        /\ project = [t \in Tasks |-> None]
        /\ executing = {}

\* The project is part of the submission: it is fixed by this step.
Submit(t, p) == /\ phase[t] = "absent"
                /\ phase' = [phase EXCEPT ![t] = "queued"]
                /\ project' = [project EXCEPT ![t] = p]
                /\ UNCHANGED <<owner, executing>>

\* Worker w starts task t; the tasks in Lapsed, which nobody executes, go
\* back to the queue in the same step (t may be one of them).
Start(t, w, Lapsed) ==
    /\ Lapsed \subseteq Active(phase) \ executing
    /\ t \in Lapsed \/ phase[t] = "queued"
    /\ t \notin executing
    /\ project[t] = HomeOf[w]
    /\ \A u \in Active(phase) \ Lapsed : owner[u] # w
    /\ phase' = [u \in Tasks |-> IF u = t THEN "active"
                                 ELSE IF u \in Lapsed THEN "queued" ELSE phase[u]]
    /\ owner' = [u \in Tasks |-> IF u = t THEN w
                                 ELSE IF u \in Lapsed THEN None ELSE owner[u]]
    /\ UNCHANGED <<project, executing>>

BeginExecution(t) == /\ phase[t] = "active"
                     /\ t \notin executing
                     /\ executing' = executing \cup {t}
                     /\ UNCHANGED <<phase, owner, project>>

EndExecution(t) == /\ t \in executing
                   /\ executing' = executing \ {t}
                   /\ UNCHANGED <<phase, owner, project>>

Finish(t, outcome) == /\ phase[t] = "active"
                      /\ phase' = [phase EXCEPT ![t] = outcome]
                      /\ owner' = [owner EXCEPT ![t] = None]
                      /\ UNCHANGED <<project, executing>>

Next == \E t \in Tasks :
           \/ \E p \in Projects : Submit(t, p)
           \/ \E w \in Workers, Lapsed \in SUBSET Tasks : Start(t, w, Lapsed)
           \/ BeginExecution(t)
           \/ EndExecution(t)
           \/ \E outcome \in {"done", "failed"} : Finish(t, outcome)

Spec == Init /\ [][Next]_lifecycle

=============================================================================
