----------------------------- MODULE Scheduler -----------------------------
(***************************************************************************)
(* The vocabulary of internal/scheduler: the states of a task, which of    *)
(* them hold a worker's slot, which are final, and the transition table.   *)
(***************************************************************************)

TaskStates == {"queued", "assigned", "running", "done", "failed",
               "awaiting_attention", "cancelled"}

\* Task.IsActive: the states that hold a slot.
ActiveStates == {"assigned", "running", "awaiting_attention"}

\* Task.IsTerminal.
TerminalStates == {"done", "failed", "cancelled"}

\* The targets Task.CanTransition admits from each state.
Targets(from) ==
    CASE from = "queued"             -> {"assigned", "cancelled"}
      [] from = "assigned"           -> {"running", "queued", "cancelled"}
      [] from = "running"            -> {"done", "failed", "awaiting_attention",
                                         "queued", "cancelled"}
      [] from = "awaiting_attention" -> {"running", "cancelled", "failed"}
      [] OTHER                       -> {}

CanTransition(from, to) == to \in Targets(from)

\* The states the lease reaper takes a row out of: awaiting_attention holds
\* the slot without a live lease.
LeasedStates == {"assigned", "running"}

=============================================================================
