--------------------------- MODULE TaskLifecycle ---------------------------
(***************************************************************************)
(* What the task table promises about ONE task, whoever touches it: a task *)
(* is executed only under a claim, only forward through the pipeline while *)
(* the claim stands, and loses the claim in the very step that ends the    *)
(* execution.  TaskWorkflow is shown to implement this for every task.     *)
(***************************************************************************)
EXTENDS TaskStates

VARIABLES status, claim

vars == <<status, claim>>

NoClaim == 0

TypeOK ==
    /\ status \in TaskStatus \cup {Absent}
    /\ claim \in Nat

\* The order in which a single execution may visit the running statuses.
Forward ==
    {<<"preparing", "developer_working">>, <<"developer_working", "reviewing">>,
     <<"reviewing", "developer_revising">>, <<"preparing", "developer_revising">>,
     <<"reviewing", "sealing">>, <<"developer_revising", "sealing">>,
     <<"sealing", "publishing">>, <<"preparing", "publishing">>}

Init ==
    /\ status = Absent
    /\ claim = NoClaim

Create ==
    /\ status = Absent
    /\ status' = "queued"
    /\ UNCHANGED claim

Claim ==
    /\ status = "queued"
    /\ status' = "preparing"
    /\ claim' > claim

Advance ==
    /\ claim # NoClaim
    /\ <<status, status'>> \in Forward
    /\ UNCHANGED claim

\* A claimed task may be asked to cancel; its claim stands meanwhile.
RequestCancel ==
    \/ /\ status = "queued"
       /\ status' = "cancelled"
       /\ UNCHANGED claim
    \/ /\ status \in RUNNING_TASK_STATES
       /\ status' = "cancelling"
       /\ UNCHANGED claim

\* The end of an execution: published, cancelled, failed, handed to a human,
\* or put back in the queue to reconcile an interrupted publication.
Release ==
    /\ claim # NoClaim
    /\ claim' = NoClaim
    /\ \/ status = "publishing" /\ status' \in {"awaiting_human_review", "queued"}
       \/ status = "cancelling" /\ status' = "cancelled"
       \/ status \in RUNNING_TASK_STATES
              /\ status' \in {"failed", "manual_intervention"}

\* Decisions of users, reviewers and the forge about a task at rest.
Decide ==
    /\ claim = NoClaim
    /\ UNCHANGED claim
    /\ \/ /\ status = "awaiting_human_review"
          /\ status' \in {"completed", "closed", "queued"}
       \/ /\ status \in {"failed", "manual_intervention"}
          /\ status' = "queued"
       \/ /\ status \in CLOSABLE_TASK_STATUSES
          /\ status' = "dismissed"

Next == Create \/ Claim \/ Advance \/ RequestCancel \/ Release \/ Decide

Spec == Init /\ [][Next]_vars

=============================================================================
