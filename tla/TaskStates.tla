----------------------------- MODULE TaskStates -----------------------------
(***************************************************************************)
(* The vocabulary of an issue task: its statuses, the sets the code groups *)
(* them in, and the CAS table of TaskOrchestrator._set_status.             *)
(***************************************************************************)
EXTENDS Naturals

\* Status of a task row that has not been inserted yet.
Absent == "absent"

\* Mutant: sealing is not counted as running.
BugRunningStates ==
    {"preparing", "developer_working", "reviewing",
     "developer_revising", "publishing"}

RUNNING_TASK_STATES ==
    {"preparing", "developer_working", "reviewing",
     "developer_revising", "sealing", "publishing"}

TERMINAL_TASK_STATES ==
    {"completed", "closed", "dismissed", "failed",
     "cancelled", "manual_intervention"}

TaskStatus ==
    RUNNING_TASK_STATES \cup TERMINAL_TASK_STATES
        \cup {"queued", "cancelling", "awaiting_human_review"}

\* Statuses in which the lease heartbeat may renew a claim.
CLAIMED_STATES == RUNNING_TASK_STATES \cup {"cancelling"}

CLOSABLE_TASK_STATUSES ==
    {"awaiting_human_review", "failed", "manual_intervention", "cancelled"}

\* Statuses from which the orchestrator may move a task to s.
STATUS_EXPECTED(s) ==
    CASE s = "developer_working"  -> {"preparing"}
      [] s = "reviewing"          -> {"developer_working", "reviewing"}
      [] s = "developer_revising" -> {"preparing", "reviewing"}
      [] s = "sealing"            -> {"preparing", "developer_working",
                                      "reviewing", "developer_revising"}
      [] s = "publishing"         -> {"preparing", "sealing"}

\* Why a queued task was queued, and which pipeline its worker runs.
FailureCode ==
    {"none", "publish_existing", "pr_feedback_revision", "error",
     "manager_restarted", "worker_interrupted", "developer_report_invalid"}

=============================================================================
