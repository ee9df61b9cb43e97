------------------------ MODULE TaskWorkflow_proofs ------------------------
(***************************************************************************)
(* Theorems about TaskWorkflow, for every set of tasks, users and issues,  *)
(* every pair of limits and any number of claims and crashes.              *)
(***************************************************************************)
EXTENDS TaskWorkflow, FiniteSetTheorems, TLAPS

-----------------------------------------------------------------------------
(***************************************************************************)
(* Types.                                                                  *)
(***************************************************************************)
\* The vocabulary, as ground facts, so that its definitions can stay closed.
LEMMA Statuses ==
    /\ RUNNING_TASK_STATES \subseteq TaskStatus
    /\ "queued" \in TaskStatus /\ "preparing" \in TaskStatus
    /\ "reviewing" \in TaskStatus /\ "sealing" \in TaskStatus
    /\ "publishing" \in TaskStatus /\ "cancelling" \in TaskStatus
    /\ "cancelled" \in TaskStatus /\ "dismissed" \in TaskStatus
    /\ "awaiting_human_review" \in TaskStatus /\ "completed" \in TaskStatus
    /\ "closed" \in TaskStatus /\ "failed" \in TaskStatus
    /\ "manual_intervention" \in TaskStatus
  BY DEF TaskStatus, RUNNING_TASK_STATES, TERMINAL_TASK_STATES

\* The failure codes the actions write.
LEMMA Codes ==
    /\ "none" \in FailureCode /\ "publish_existing" \in FailureCode
    /\ "pr_feedback_revision" \in FailureCode /\ "error" \in FailureCode
    /\ "manager_restarted" \in FailureCode /\ "worker_interrupted" \in FailureCode
    /\ "developer_report_invalid" \in FailureCode
  BY DEF FailureCode

\* The places in the code a worker goes to.
LEMMA Places ==
    /\ AwaitPcs \subseteq Pcs /\ BusyPcs \subseteq Pcs
    /\ "idle" \in Pcs /\ "start" \in Pcs
    /\ "check" \in Pcs /\ "prepare" \in Pcs /\ "review" \in Pcs
    /\ "develop" \in Pcs /\ "revise" \in Pcs /\ "seal" \in Pcs
    /\ "sealing" \in Pcs /\ "committing" \in Pcs /\ "set_commit" \in Pcs
    /\ "push" \in Pcs /\ "pull" \in Pcs /\ "record" \in Pcs
    /\ "to_develop" \in Pcs /\ "to_revise" \in Pcs /\ "publish" \in Pcs
    /\ "notify" \in Pcs /\ "fail" \in Pcs /\ "manual" \in Pcs
    /\ "cancelled" \in Pcs
  BY DEF Pcs, Yielded, AwaitPcs, BusyPcs

\* Ending an execution (the writes of _fail, _interrupt, _awaiting_review,
\* _recover_expired...) yields a row.
LEMMA ReleasedType ==
    ASSUME NEW r \in Row, NEW s \in TaskStatus, NEW c \in FailureCode
    PROVE  Released(r, s, c) \in Row
  BY DEF Released, Row, NoClaim

\* A worker at rest is a worker.
LEMMA IdleWorkerType == IdleWorker \in Worker
  BY Places DEF IdleWorker, Worker, Modes, NoClaim

\* A worker that moves to another place, or leaves, is still a worker.
LEMMA WorkerType ==
    ASSUME TypeOK, NEW t \in Tasks, NEW p \in Pcs
    PROVE  /\ Go(t, p) \in [Tasks -> Worker]
           /\ Leave(t) \in [Tasks -> Worker]
  <1>1. Go(t, p) \in [Tasks -> Worker]
    BY DEF Go, TypeOK, Worker
  <1>2. Leave(t) \in [Tasks -> Worker]
    BY IdleWorkerType DEF Leave, TypeOK
  <1> QED BY <1>1, <1>2

\* A cancelled task gets a status of the table, its worker stays a worker.
LEMMA SignalledType ==
    ASSUME TypeOK, NEW S \in SUBSET Tasks
    PROVE  Signalled(S) \in [Tasks -> Worker]
  BY DEF Signalled, TypeOK, Worker

\* The fork stays a fork when something is published.
LEMMA PublishedType ==
    ASSUME TypeOK, NEW t \in Tasks, NEW f \in Fork
    PROVE  /\ Committed(t) \in Workspace
           /\ Pushed(t) \in Fork
           /\ WithPull(f) \in Fork
  <1>1. Committed(t) \in Workspace
    <2>1. git[t] \in Workspace /\ worker[t].fb \in SUBSET Feedback
      BY DEF TypeOK, Worker
    <2>2. git[t].head + 1 \in Nat
      BY <2>1 DEF Workspace
    <2>3. git[t].answers \cup worker[t].fb \in SUBSET Feedback
      BY <2>1 DEF Workspace
    <2> QED BY <2>1, <2>2, <2>3 DEF Committed, Workspace
  <1>2. Pushed(t) \in Fork
    BY DEF TypeOK, Pushed, Fork, Workspace
  <1>3. WithPull(f) \in Fork
    <2>1. f.opened + 1 \in Nat
      BY DEF Fork
    <2> QED BY <2>1 DEF WithPull, Fork, PullStates
  <1> QED BY <1>1, <1>2, <1>3

\* A row that is recovered stays a row.
LEMMA RecoveredType ==
    ASSUME NEW r \in Row
    PROVE  Recovered(r) \in Row
  BY ReleasedType, Statuses, Codes DEF Recovered, Row

\* Recovery keeps the types of what it writes.
LEMMA RecoverType ==
    ASSUME TypeOK, recover_expired
    PROVE  /\ row' \in [Tasks -> Row]
           /\ agent' \in [Tasks -> AgentRuns]
  BY RecoveredType DEF TypeOK, recover_expired, AgentRuns

\* The initial state is typed.
LEMMA InitType == Init => TypeOK
  BY IdleWorkerType, Codes
  DEF Init, TypeOK, Row, PullStates, TriageStates, FeedbackStates, AgentRuns,
      Workspace, Fork, NoClaim, Edits, NoEdit

\* Every step keeps every type: one step of the proof per operation, and under
\* it one per variable that the operation writes.
LEMMA NextType == TypeOK /\ [Next]_vars => TypeOK'
  <1> SUFFICES ASSUME TypeOK, [Next]_vars PROVE TypeOK'
    OBVIOUS
  <1>row. row \in [Tasks -> Row]
    BY DEF TypeOK
  <1>worker. worker \in [Tasks -> Worker]
    BY DEF TypeOK
  <1>agent. agent \in [Tasks -> AgentRuns]
    BY DEF TypeOK
  <1>git. git \in [Tasks -> Workspace]
    BY DEF TypeOK
  <1>forge. forge \in [Tasks -> Fork]
    BY DEF TypeOK
  <1>triage. triage \in [Issues -> TriageStates]
    BY DEF TypeOK
  <1>fb. fb \in [Tasks -> [Feedback -> FeedbackStates]]
    BY DEF TypeOK
  <1>probe. probe \in [Tasks -> PullStates]
    BY DEF TypeOK
  <1>nclaims. nclaims \in Nat
    BY DEF TypeOK
  <1>edit. edit \in Edits /\ overrun \in SUBSET Issues
    BY DEF TypeOK
  <1>issue. \A t \in Tasks : IssueOf[t] \in Issues
    BY WorkflowAssumption
  <1>write. ASSUME NEW i \in Issues, NEW s \in TriageStates, WriteTriage(i, s)
            PROVE  triage' \in [Issues -> TriageStates] /\ overrun' \in SUBSET Issues
    BY <1>write, <1>triage, <1>edit DEF WriteTriage
  <1>0. ASSUME NEW t \in Tasks, ReadDispatch(t) PROVE TypeOK'
    <2>1. edit' \in Edits
      BY <1>0, <1>edit DEF ReadDispatch, Edits
    <2> QED BY <1>0, <2>1
      DEF TypeOK, dbVars, worldVars, tickVars, procVars, editVars, ReadDispatch
  <1>1. ASSUME NEW t \in Tasks, dispatch_issue(t) PROVE TypeOK'
    <2>1. row' \in [Tasks -> Row]
      BY <1>1, <1>row, Statuses DEF dispatch_issue, Row
    <2>2. triage' \in [Issues -> TriageStates] /\ overrun' \in SUBSET Issues
      <3>1. "dispatched" \in TriageStates
        BY DEF TriageStates
      <3> QED BY <1>1, <1>triage, <1>edit, <1>issue, <1>write, <3>1 DEF dispatch_issue
    <2>3. edit' \in Edits
      BY <1>1, <1>edit DEF dispatch_issue, Edits
    <2> QED BY <1>1, <2>1, <2>2, <2>3
      DEF TypeOK, dbVars, worldVars, tickVars, procVars, editVars, dispatch_issue
  <1>2. ASSUME NEW i \in Issues, Triage(i) PROVE TypeOK'
    <2>1. triage' \in [Issues -> TriageStates] /\ overrun' \in SUBSET Issues
      <3>1. "ignored" \in TriageStates /\ "discovered" \in TriageStates
        BY DEF TriageStates
      <3> QED BY <1>2, <1>triage, <1>edit, <1>write, <3>1
          DEF Triage, ReadIgnore, ignore, ReadRestore, restore, dbVars
    <2>2. edit' \in Edits
      BY <1>2, <1>edit DEF Triage, ReadIgnore, ignore, ReadRestore, restore, Edits
    <2> QED BY <1>2, <2>1, <2>2
      DEF TypeOK, dbVars, worldVars, tickVars, procVars, editVars, Triage, ReadIgnore, ignore,
          ReadRestore, restore
  <1>3. ASSUME NEW t \in Tasks, request_cancel(t) PROVE TypeOK'
    <2>1. row' \in [Tasks -> Row]
      BY <1>3, <1>row, Statuses DEF request_cancel, CancelTarget, Row
    <2>2. worker' \in [Tasks -> Worker]
      BY <1>3, <1>worker, SignalledType DEF request_cancel
    <2> QED BY <1>3, <2>1, <2>2
      DEF TypeOK, dbVars, worldVars, tickVars, procVars, editVars, request_cancel
  <1>4. ASSUME NEW u \in Users, toggle_user(u) PROVE TypeOK'
    <2>1. row' \in [Tasks -> Row]
      BY <1>4, <1>row, Statuses DEF toggle_user, CancelTarget, Row
    <2>2. worker' \in [Tasks -> Worker]
      BY <1>4, <1>worker, SignalledType DEF toggle_user
    <2> QED BY <1>4, <2>1, <2>2
      DEF TypeOK, dbVars, worldVars, tickVars, procVars, editVars, toggle_user
  <1>5. ASSUME NEW t \in Tasks, close(t) PROVE TypeOK'
    <2>1. row' \in [Tasks -> Row]
      BY <1>5, <1>row, Statuses DEF close, Row
    <2> QED BY <1>5, <2>1
      DEF TypeOK, dbVars, worldVars, tickVars, procVars, editVars, close
  <1>6. ASSUME NEW t \in Tasks, queue_existing_publish(t) PROVE TypeOK'
    <2>1. row' \in [Tasks -> Row]
      BY <1>6, <1>row, Statuses, Codes, ZenonT(40) DEF queue_existing_publish, Row
    <2> QED BY <1>6, <2>1
      DEF TypeOK, dbVars, worldVars, tickVars, procVars, editVars, queue_existing_publish
  <1>7. ASSUME NEW t \in Tasks, NEW ids \in SUBSET Feedback,
              queue_feedback_revision(t, ids) PROVE TypeOK'
    <2>1. row' \in [Tasks -> Row]
      <3>1. row' = [row EXCEPT ![t].status = "queued",
                               ![t].code = "pr_feedback_revision"]
        BY <1>7 DEF queue_feedback_revision
      <3>2. "queued" \in TaskStatus /\ "pr_feedback_revision" \in FailureCode
        BY Statuses, Codes
      <3> QED BY <1>row, <3>1, <3>2 DEF Row
    <2>2. fb' \in [Tasks -> [Feedback -> FeedbackStates]]
      BY <1>7, <1>fb DEF queue_feedback_revision, FeedbackStates
    <2> QED BY <1>7, <2>1, <2>2
      DEF TypeOK, dbVars, worldVars, tickVars, procVars, editVars, queue_feedback_revision
  <1>8. ASSUME NEW t \in Tasks, NEW s \in {"merged", "closed"}, ForgeDecides(t, s)
         PROVE  TypeOK'
    <2>1. forge' \in [Tasks -> Fork]
      BY <1>8, <1>forge DEF ForgeDecides, Fork, PullStates
    <2> QED BY <1>8, <2>1
      DEF TypeOK, dbVars, worldVars, tickVars, procVars, editVars, ForgeDecides
  <1>9. ASSUME NEW t \in Tasks, PullProbe(t) PROVE TypeOK'
    <2>1. probe' \in [Tasks -> PullStates]
      BY <1>9, <1>probe, <1>forge DEF PullProbe, Fork
    <2> QED BY <1>9, <2>1
      DEF TypeOK, dbVars, worldVars, tickVars, procVars, editVars, PullProbe
  <1>10. ASSUME NEW t \in Tasks, pr_status_tick(t) PROVE TypeOK'
    <2>1. row' \in [Tasks -> Row]
      BY <1>10, <1>row, Statuses DEF pr_status_tick, ProbeResult, Row
    <2>2. probe' \in [Tasks -> PullStates]
      BY <1>10, <1>probe DEF pr_status_tick, PullStates
    <2> QED BY <1>10, <2>1, <2>2
      DEF TypeOK, dbVars, worldVars, tickVars, procVars, editVars, pr_status_tick
  <1>11. ASSUME NEW t \in Tasks, NEW new \in SUBSET Feedback, sync_feedback(t, new)
         PROVE  TypeOK'
    <2>1. row' \in [Tasks -> Row]
      BY <1>11, <1>row, Statuses DEF sync_feedback, ProbeResult, Row
    <2>2. fb' \in [Tasks -> [Feedback -> FeedbackStates]]
      BY <1>11, <1>fb DEF sync_feedback, upsert_pr_feedback, FeedbackStates
    <2>3. probe' \in [Tasks -> PullStates]
      BY <1>11, <1>probe DEF sync_feedback, PullStates
    <2> QED BY <1>11, <2>1, <2>2, <2>3
      DEF TypeOK, dbVars, worldVars, tickVars, procVars, editVars, sync_feedback
  <1>12. ASSUME NEW t \in Tasks, LeaseExpires(t) PROVE TypeOK'
    <2>1. row' \in [Tasks -> Row]
      BY <1>12, <1>row DEF LeaseExpires, Row
    <2> QED BY <1>12, <2>1
      DEF TypeOK, dbVars, worldVars, tickVars, procVars, editVars, LeaseExpires
  <1>13. ASSUME NEW t \in Tasks, HeartbeatLost(t) PROVE TypeOK'
    <2>1. worker' \in [Tasks -> Worker]
      BY <1>13, <1>worker DEF HeartbeatLost, Worker
    <2> QED BY <1>13, <2>1
      DEF TypeOK, dbVars, worldVars, tickVars, procVars, editVars, HeartbeatLost
  <1>14. ASSUME NEW gateOpen \in BOOLEAN, TickBegin(gateOpen) PROVE TypeOK'
    <2>1. row' \in [Tasks -> Row]
      BY <1>14, <1>row, RecoverType DEF TickBegin
    <2>2. agent' \in [Tasks -> AgentRuns]
      BY <1>14, <1>agent, RecoverType DEF TickBegin
    <2> QED BY <1>14, <2>1, <2>2
      DEF TypeOK, dbVars, worldVars, tickVars, procVars, editVars, TickBegin
  <1>15. ASSUME NEW t \in Tasks, TickClaim(t) PROVE TypeOK'
    <2>1. row' \in [Tasks -> Row]
      BY <1>15, <1>row, Statuses, <1>nclaims DEF TickClaim, Row
    <2>2. worker' \in [Tasks -> Worker]
      <3>1. [IdleWorker EXCEPT !.pc = "start", !.token = nclaims + 1] \in Worker
        <4>1. "start" \in Pcs /\ nclaims + 1 \in Nat
          BY Places, <1>nclaims
        <4> QED BY <4>1, IdleWorkerType DEF Worker
      <3> QED BY <1>15, <1>worker, <3>1 DEF TickClaim
    <2> QED BY <1>15, <2>1, <2>2
      DEF TypeOK, dbVars, worldVars, tickVars, procVars, editVars, TickClaim
  <1>16. ASSUME NEW t \in Tasks, Begin(t) PROVE TypeOK'
    <2>1. worker' \in [Tasks -> Worker]
      <3>1. ASSUME NEW m \in Modes, NEW F \in SUBSET Feedback, NEW p \in Pcs
            PROVE  /\ [worker EXCEPT ![t].mode = m, ![t].fb = F, ![t].pc = p]
                          \in [Tasks -> Worker]
                   /\ [worker EXCEPT ![t].mode = m, ![t].pc = p]
                          \in [Tasks -> Worker]
        BY <1>worker DEF Worker
      <3>2. "feedback" \in Modes /\ "existing" \in Modes
        BY DEF Modes
      <3>3. SelectedFeedback(t) \in SUBSET Feedback
        BY DEF SelectedFeedback
      <3>4. CASE ~Renewable(t, worker[t].token)
        BY <1>16, <3>4, WorkerType, Places DEF Begin
      <3>5. CASE Renewable(t, worker[t].token) /\ row[t].code = "pr_feedback_revision"
        <4>1. PICK p \in {"check", "fail"} :
                 worker' = [worker EXCEPT ![t].mode = "feedback",
                                          ![t].fb = SelectedFeedback(t),
                                          ![t].pc = p]
          BY <1>16, <3>5 DEF Begin
        <4> QED BY <4>1, <3>1, <3>2, <3>3, Places
      <3>6. CASE Renewable(t, worker[t].token) /\ row[t].code = "publish_existing"
        <4>1. PICK p \in {"check", "fail"} :
                 worker' = [worker EXCEPT ![t].mode = "existing", ![t].pc = p]
          BY <1>16, <3>6 DEF Begin
        <4> QED BY <4>1, <3>1, <3>2, Places
      <3>7. CASE /\ Renewable(t, worker[t].token)
                 /\ row[t].code \notin {"pr_feedback_revision", "publish_existing"}
        BY <1>16, <3>7, WorkerType, Places DEF Begin
      <3> QED BY <3>4, <3>5, <3>6, <3>7
    <2> QED BY <1>16, <2>1
      DEF TypeOK, dbVars, worldVars, tickVars, procVars, editVars, Begin
  <1>17. ASSUME NEW t \in Tasks, Prepare(t) PROVE TypeOK'
    <2>1. row' \in [Tasks -> Row]
      BY <1>17, <1>row, ZenonT(40) DEF Prepare, set_prepared, Row
    <2>2. worker' \in [Tasks -> Worker]
      BY <1>17, <1>worker, WorkerType, Places DEF Prepare, set_prepared
    <2> QED BY <1>17, <2>1, <2>2
      DEF TypeOK, dbVars, worldVars, tickVars, procVars, editVars, Prepare, set_prepared
  <1>18. ASSUME NEW t \in Tasks, Check(t) PROVE TypeOK'
    <2>1. worker' \in [Tasks -> Worker]
      BY <1>18, <1>worker, WorkerType, Places DEF Check
    <2> QED BY <1>18, <2>1
      DEF TypeOK, dbVars, worldVars, tickVars, procVars, editVars, Check
  <1>19. ASSUME NEW t \in Tasks, NEW from \in Pcs, NEW s \in RUNNING_TASK_STATES,
               NEW to \in Pcs, StageBegin(t, from, s, to) PROVE TypeOK'
    <2>1. row' \in [Tasks -> Row]
      BY <1>19, <1>row, Statuses DEF StageBegin, begin_agent_run, Row
    <2>2. agent' \in [Tasks -> AgentRuns]
      BY <1>19, <1>agent DEF StageBegin, begin_agent_run, AgentRuns, Roles
    <2>3. worker' \in [Tasks -> Worker]
      BY <1>19, <1>worker, WorkerType, Places DEF StageBegin, begin_agent_run, SetStatusError
    <2> QED BY <1>19, <2>1, <2>2, <2>3
      DEF TypeOK, dbVars, worldVars, tickVars, procVars, editVars, StageBegin, begin_agent_run
  <1>20. ASSUME NEW t \in Tasks, NEW from \in Pcs, NEW to \in Pcs, StageEnd(t, from, to)
         PROVE  TypeOK'
    <2>1. agent' \in [Tasks -> AgentRuns]
      <3>1. PICK ok \in BOOLEAN : FinishDeveloper(t, ok)
        BY <1>20 DEF StageEnd
      <3>2. [running |-> agent[t].running \ {"developer"},
             report  |-> agent[t].report \/ ok] \in AgentRuns
        BY <1>agent DEF AgentRuns
      <3> QED BY <1>agent, <3>1, <3>2 DEF FinishDeveloper
    <2>2. git' \in [Tasks -> Workspace]
      BY <1>20, <1>git DEF StageEnd, Workspace
    <2>3. worker' \in [Tasks -> Worker]
      <3>1. \E p \in {to, "fail", "manual", "cancelled"} : worker' = Go(t, p)
        BY <1>20 DEF StageEnd
      <3> QED BY <3>1, WorkerType, Places
    <2> QED BY <1>20, <2>1, <2>2, <2>3
      DEF TypeOK, dbVars, worldVars, tickVars, procVars, editVars, StageEnd
  <1>21. ASSUME NEW t \in Tasks, NEW r \in Reviewers, ReviewBegin(t, r) PROVE TypeOK'
    <2>1. row' \in [Tasks -> Row]
      BY <1>21, <1>row, Statuses DEF ReviewBegin, begin_agent_run, Row
    <2>2. agent' \in [Tasks -> AgentRuns]
      BY <1>21, <1>agent DEF ReviewBegin, begin_agent_run, AgentRuns, Roles
    <2>3. worker' \in [Tasks -> Worker]
      <3>1. [worker EXCEPT ![t].rev[r] = "running"] \in [Tasks -> Worker]
        BY <1>worker DEF Worker
      <3>2. Go(t, "fail") \in [Tasks -> Worker]
        BY WorkerType, Places
      <3> QED BY <1>21, <3>1, <3>2 DEF ReviewBegin, begin_agent_run
    <2> QED BY <1>21, <2>1, <2>2, <2>3
      DEF TypeOK, dbVars, worldVars, tickVars, procVars, editVars, ReviewBegin, begin_agent_run
  <1>22. ASSUME NEW t \in Tasks, NEW r \in Reviewers, ReviewEnd(t, r) PROVE TypeOK'
    <2>1. agent' \in [Tasks -> AgentRuns]
      <3>1. \E S : agent' = [agent EXCEPT ![t].running = @ \ S]
        BY <1>22 DEF ReviewEnd
      <3> QED BY <1>agent, <3>1 DEF AgentRuns
    <2>2. worker' \in [Tasks -> Worker]
      <3>1. CASE worker' = Go(t, "fail")
        BY <3>1, WorkerType, Places
      <3>2. CASE \E p \in {"review", "to_revise", "seal"} :
                 worker' = [worker EXCEPT ![t].rev[r] = "done", ![t].pc = p]
        <4>1. PICK p \in Pcs :
                 worker' = [worker EXCEPT ![t].rev[r] = "done", ![t].pc = p]
          BY <3>2, Places
        <4> QED BY <4>1, <1>worker DEF Worker
      <3> QED BY <1>22, <3>1, <3>2 DEF ReviewEnd
    <2> QED BY <1>22, <2>1, <2>2
      DEF TypeOK, dbVars, worldVars, tickVars, procVars, editVars, ReviewEnd
  <1>23. ASSUME NEW t \in Tasks, SealBegin(t) PROVE TypeOK'
    <2>1. row' \in [Tasks -> Row]
      BY <1>23, <1>row, Statuses DEF SealBegin, Row
    <2>2. worker' \in [Tasks -> Worker]
      BY <1>23, <1>worker, WorkerType, Places DEF SealBegin, SetStatusError
    <2> QED BY <1>23, <2>1, <2>2
      DEF TypeOK, dbVars, worldVars, tickVars, procVars, editVars, SealBegin
  <1>24. ASSUME NEW t \in Tasks, Seal(t) PROVE TypeOK'
    <2>1. worker' \in [Tasks -> Worker]
      BY <1>24, <1>worker, WorkerType, Places DEF Seal
    <2> QED BY <1>24, <2>1
      DEF TypeOK, dbVars, worldVars, tickVars, procVars, editVars, Seal
  <1>25. ASSUME NEW t \in Tasks, Commit(t) PROVE TypeOK'
    <2>1. git' \in [Tasks -> Workspace]
      BY <1>25, <1>git, <1>forge, PublishedType DEF Commit
    <2>2. worker' \in [Tasks -> Worker]
      BY <1>25, <1>worker, WorkerType, Places DEF Commit
    <2> QED BY <1>25, <2>1, <2>2
      DEF TypeOK, dbVars, worldVars, tickVars, procVars, editVars, Commit
  <1>26. ASSUME NEW t \in Tasks, set_commit(t) PROVE TypeOK'
    <2>1. row' \in [Tasks -> Row]
      BY <1>26, <1>row, <1>git, SMTT(30) DEF set_commit, Row, Workspace
    <2>2. worker' \in [Tasks -> Worker]
      BY <1>26, <1>worker, WorkerType, Places DEF set_commit
    <2> QED BY <1>26, <2>1, <2>2
      DEF TypeOK, dbVars, worldVars, tickVars, procVars, editVars, set_commit
  <1>27. ASSUME NEW t \in Tasks, begin_publication(t) PROVE TypeOK'
    <2>1. row' \in [Tasks -> Row]
      BY <1>27, <1>row, Statuses DEF begin_publication, Row
    <2>2. worker' \in [Tasks -> Worker]
      BY <1>27, <1>worker, WorkerType, Places DEF begin_publication
    <2> QED BY <1>27, <2>1, <2>2
      DEF TypeOK, dbVars, worldVars, tickVars, procVars, editVars, begin_publication
  <1>28. ASSUME NEW t \in Tasks, ForgePush(t) PROVE TypeOK'
    <2>1. forge' \in [Tasks -> Fork]
      BY <1>28, <1>forge, PublishedType DEF ForgePush
    <2>2. worker' \in [Tasks -> Worker]
      BY <1>28, <1>worker, WorkerType, Places DEF ForgePush
    <2> QED BY <1>28, <2>1, <2>2
      DEF TypeOK, dbVars, worldVars, tickVars, procVars, editVars, ForgePush
  <1>29. ASSUME NEW t \in Tasks, ForgePull(t) PROVE TypeOK'
    <2>1. forge' \in [Tasks -> Fork]
      BY <1>29, <1>forge, PublishedType DEF ForgePull
    <2>2. worker' \in [Tasks -> Worker]
      BY <1>29, <1>worker, WorkerType, Places DEF ForgePull
    <2> QED BY <1>29, <2>1, <2>2
      DEF TypeOK, dbVars, worldVars, tickVars, procVars, editVars, ForgePull
  <1>30. ASSUME NEW t \in Tasks, awaiting_review(t) PROVE TypeOK'
    <2>1. row' \in [Tasks -> Row]
      <3>1. ASSUME NEW s \in TaskStatus
            PROVE  [Released(row[t], s, "none") EXCEPT !.pr = TRUE] \in Row
        BY <1>row, Codes DEF Released, NoClaim, Row
      <3> QED BY <1>30, <1>row, <3>1, Statuses DEF awaiting_review
    <2>2. worker' \in [Tasks -> Worker]
      BY <1>30, <1>worker, WorkerType, Places DEF awaiting_review
    <2> QED BY <1>30, <2>1, <2>2
      DEF TypeOK, dbVars, worldVars, tickVars, procVars, editVars, awaiting_review
  <1>31. ASSUME NEW t \in Tasks, Notify(t) PROVE TypeOK'
    <2>1. fb' \in [Tasks -> [Feedback -> FeedbackStates]]
      BY <1>31, <1>fb DEF Notify, mark_feedback_processed, FeedbackStates
    <2>2. worker' \in [Tasks -> Worker]
      BY <1>31, <1>worker, WorkerType, Places DEF Notify
    <2> QED BY <1>31, <2>1, <2>2
      DEF TypeOK, dbVars, worldVars, tickVars, procVars, editVars, Notify
  <1>32. ASSUME NEW t \in Tasks, Fail(t) PROVE TypeOK'
    <2>1. row' \in [Tasks -> Row]
      BY <1>32, <1>row, ReleasedType, Statuses, Codes DEF Fail, Row
    <2>2. triage' \in [Issues -> TriageStates]
      BY <1>32, <1>triage DEF Fail, TriageStates
    <2>3. worker' \in [Tasks -> Worker]
      BY <1>32, <1>worker, WorkerType, Places DEF Fail
    <2> QED BY <1>32, <2>1, <2>2, <2>3
      DEF TypeOK, dbVars, worldVars, tickVars, procVars, editVars, Fail
  <1>33. ASSUME NEW t \in Tasks, manual_intervention(t) PROVE TypeOK'
    <2>1. row' \in [Tasks -> Row]
      BY <1>33, <1>row, ReleasedType, Statuses, Codes DEF manual_intervention
    <2>2. worker' \in [Tasks -> Worker]
      BY <1>33, <1>worker, WorkerType, Places DEF manual_intervention
    <2> QED BY <1>33, <2>1, <2>2
      DEF TypeOK, dbVars, worldVars, tickVars, procVars, editVars, manual_intervention
  <1>34. ASSUME NEW t \in Tasks, mark_cancelled(t) PROVE TypeOK'
    <2>1. row' \in [Tasks -> Row]
      BY <1>34, <1>row, ReleasedType, Statuses DEF mark_cancelled, Row
    <2>2. worker' \in [Tasks -> Worker]
      BY <1>34, <1>worker, WorkerType, Places DEF mark_cancelled
    <2> QED BY <1>34, <2>1, <2>2
      DEF TypeOK, dbVars, worldVars, tickVars, procVars, editVars, mark_cancelled
  <1>35. ASSUME NEW t \in Tasks, Interrupt(t) PROVE TypeOK'
    <2>1. row' \in [Tasks -> Row]
      BY <1>35, <1>row, ReleasedType, Statuses, Codes DEF Interrupt, Row
    <2>2. agent' \in [Tasks -> AgentRuns]
      BY <1>35, <1>agent DEF Interrupt, AgentRuns
    <2>3. worker' \in [Tasks -> Worker]
      BY <1>35, <1>worker, WorkerType, Places DEF Interrupt
    <2>4. git' \in [Tasks -> Workspace]
      BY <1>35, <1>git, <1>forge, PublishedType DEF Interrupt, worldVars
    <2>5. forge' \in [Tasks -> Fork]
      <3>1. forge[t] \in Fork
        BY <1>forge
      <3>2. Pushed(t) \in Fork
        BY <3>1, PublishedType
      <3>3. WithPull(Pushed(t)) \in Fork /\ WithPull(forge[t]) \in Fork
        BY <3>1, <3>2, PublishedType
      <3> QED BY <1>35, <1>forge, <3>2, <3>3 DEF Interrupt, worldVars
    <2> QED BY <1>35, <2>1, <2>2, <2>3, <2>4, <2>5
      DEF TypeOK, dbVars, worldVars, tickVars, procVars, editVars, Interrupt
  <1>36. ASSUME Stop \/ StopDone PROVE TypeOK'
    <2>1. probe' \in [Tasks -> PullStates]
      BY <1>36, <1>probe DEF Stop, StopDone, PullStates
    <2>2. edit' \in Edits
      BY <1>36, <1>edit DEF Stop, StopDone, Edits, NoEdit, editVars
    <2> QED BY <1>36, <2>1, <2>2
      DEF TypeOK, dbVars, worldVars, tickVars, procVars, editVars, Stop, StopDone
  <1>37. ASSUME Crash PROVE TypeOK'
    <2>1. worker' \in [Tasks -> Worker]
      BY <1>37, <1>worker, IdleWorkerType DEF Crash
    <2>2. probe' \in [Tasks -> PullStates]
      BY <1>37, <1>probe DEF Crash, PullStates
    <2>3. edit' \in Edits
      BY <1>37, <1>edit DEF Crash, Edits, NoEdit
    <2> QED BY <1>37, <2>1, <2>2, <2>3
      DEF TypeOK, dbVars, worldVars, tickVars, procVars, editVars, Crash
  <1>38. ASSUME Start PROVE TypeOK'
    <2>1. row' \in [Tasks -> Row]
      BY <1>38, <1>row, RecoverType DEF Start
    <2>2. agent' \in [Tasks -> AgentRuns]
      BY <1>38, <1>agent, RecoverType DEF Start
    <2> QED BY <1>38, <2>1, <2>2
      DEF TypeOK, dbVars, worldVars, tickVars, procVars, editVars, Start
  <1>39. ASSUME UNCHANGED vars PROVE TypeOK'
    BY <1>39 DEF TypeOK, dbVars, worldVars, tickVars, procVars, editVars, vars
  <1> QED
    BY <1>0, <1>1, <1>2, <1>3, <1>4, <1>5, <1>6, <1>7, <1>8, <1>9, <1>10,
       <1>11, <1>12, <1>13, <1>14, <1>15, <1>16, <1>17, <1>18, <1>19,
       <1>20, <1>21, <1>22, <1>23, <1>24, <1>25, <1>26, <1>27, <1>28,
       <1>29, <1>30, <1>31, <1>32, <1>33, <1>34, <1>35, <1>36, <1>37,
       <1>38, <1>39, Places
    DEF Next, Command, PullRequest, WorkerStep, Tick, RUNNING_TASK_STATES

\* Every variable keeps its type in every execution.
THEOREM TypeCorrect == Spec => []TypeOK
  BY InitType, NextType, PTL DEF Spec

-----------------------------------------------------------------------------
(***************************************************************************)
(* Claims: who may write a task row.  The inductive invariant ClaimInv     *)
(* joins the two run properties ClaimIffExecuting and OneHolder with what  *)
(* they rest on: a live worker has a token, and a worker that still holds  *)
(* its claim stands where the status of its task says.                     *)
(***************************************************************************)
\* A worker has a token as soon as it exists.
HasToken(t) == worker[t].pc # "idle" => worker[t].token # NoClaim

\* The statuses a worker with a valid claim can meet at the places from which
\* the CAS table of _set_status would let it jump over the review.
PlaceMatchesStatus(t) ==
    worker[t].pc # "idle" /\ Holds(t) =>
        /\ worker[t].pc = "revise" =>
              row[t].status \in {"developer_revising", "cancelling"}
        /\ worker[t].pc = "review" /\ (\E r \in Reviewers : worker[t].rev[r] = "running") =>
              row[t].status \in {"reviewing", "cancelling"}
        /\ worker[t].pc = "seal" =>
              row[t].status \in {"reviewing", "developer_revising", "cancelling"}
        /\ worker[t].pc \in {"start", "prepare", "to_develop", "develop"} =>
              \A r \in Reviewers : worker[t].rev[r] = "todo"

ClaimInv ==
    /\ TypeOK
    /\ ClaimIffExecuting
    /\ OneHolder
    /\ \A t \in Tasks : HasToken(t) /\ PlaceMatchesStatus(t)

-----------------------------------------------------------------------------
(***************************************************************************)
(* What one step may do to the row and to the worker of a task.            *)
(***************************************************************************)
\* The step is one of TaskLifecycle.
LifeStep(x) == [Lifecycle(x)!Next]_(Lifecycle(x)!vars)

\* A claim is given to a fresh worker, or is kept or withdrawn.
HolderStep(x) ==
    \/ /\ row'[x].claim \in {row[x].claim, NoClaim}
       /\ worker'[x].pc # "idle" => /\ worker[x].pc # "idle"
                                    /\ worker'[x].token = worker[x].token
    \/ /\ row'[x].claim = worker'[x].token
       /\ row'[x].claim # NoClaim

\* A worker without its claim does not write.
LostStep(x) ==
    /\ worker[x].pc # "idle"
    /\ worker[x].token # row[x].claim
    /\ worker'[x] # worker[x]
    => row'[x] = row[x]

ClaimStep(x) == LifeStep(x) /\ HolderStep(x) /\ LostStep(x) /\ PlaceMatchesStatus(x)'

\* A task whose row and worker a step leaves alone.
LEMMA Untouched ==
    ASSUME ClaimInv, NEW x \in Tasks, row'[x] = row[x], worker'[x] = worker[x]
    PROVE  ClaimStep(x)
  BY DEF ClaimStep, LifeStep, HolderStep, LostStep, ClaimInv, PlaceMatchesStatus,
         Holds, Lifecycle!vars

\* The fields of a row after an execution has ended.
LEMMA ReleasedFields ==
    ASSUME NEW r \in Row, NEW s, NEW c
    PROVE  Released(r, s, c).status = s /\ Released(r, s, c).claim = NoClaim
  BY DEF Released, Row

\* The steps of TaskLifecycle, as rules on the fields of the row.
LEMMA LifeRules ==
    ASSUME NEW x \in Tasks
    PROVE  /\ row'[x].status = row[x].status /\ row'[x].claim = row[x].claim
              => LifeStep(x)
           /\ row[x].claim # NoClaim /\ row'[x].claim = row[x].claim
              /\ <<row[x].status, row'[x].status>> \in Lifecycle(x)!Forward
              => LifeStep(x)
           /\ row[x].status = "queued" /\ row'[x].status = "cancelled"
              /\ row'[x].claim = row[x].claim
              => LifeStep(x)
           /\ row[x].status \in RUNNING_TASK_STATES /\ row'[x].status = "cancelling"
              /\ row'[x].claim = row[x].claim
              => LifeStep(x)
           /\ row[x].claim # NoClaim /\ row'[x].claim = NoClaim
              /\ row[x].status = "cancelling" /\ row'[x].status = "cancelled"
              => LifeStep(x)
           /\ row[x].claim # NoClaim /\ row'[x].claim = NoClaim
              /\ row[x].status = "publishing"
              /\ row'[x].status \in {"awaiting_human_review", "queued"}
              => LifeStep(x)
           /\ row[x].claim # NoClaim /\ row'[x].claim = NoClaim
              /\ row[x].status \in RUNNING_TASK_STATES
              /\ row'[x].status \in {"failed", "manual_intervention"}
              => LifeStep(x)
           /\ row[x].claim = NoClaim /\ row'[x].claim = NoClaim
              /\ row[x].status = "awaiting_human_review"
              /\ row'[x].status \in {"completed", "closed", "queued"}
              => LifeStep(x)
           /\ row[x].claim = NoClaim /\ row'[x].claim = NoClaim
              /\ row[x].status \in {"failed", "manual_intervention"}
              /\ row'[x].status = "queued"
              => LifeStep(x)
           /\ row[x].claim = NoClaim /\ row'[x].claim = NoClaim
              /\ row[x].status \in CLOSABLE_TASK_STATUSES
              /\ row'[x].status = "dismissed"
              => LifeStep(x)
  <1> USE DEF LifeStep, Lifecycle!vars, Lifecycle!Next, NoClaim, Lifecycle!NoClaim
  <1>1. row[x].claim # NoClaim /\ row'[x].claim = row[x].claim
           /\ <<row[x].status, row'[x].status>> \in Lifecycle(x)!Forward => LifeStep(x)
    BY DEF Lifecycle!Advance
  <1>2. /\ row[x].status = "queued" /\ row'[x].status = "cancelled"
           /\ row'[x].claim = row[x].claim => LifeStep(x)
        /\ row[x].status \in RUNNING_TASK_STATES /\ row'[x].status = "cancelling"
           /\ row'[x].claim = row[x].claim => LifeStep(x)
    BY
    DEF Lifecycle!RequestCancel, RUNNING_TASK_STATES, Lifecycle!RUNNING_TASK_STATES
  <1>3. /\ row[x].claim # NoClaim /\ row'[x].claim = NoClaim
           /\ row[x].status = "cancelling" /\ row'[x].status = "cancelled" => LifeStep(x)
        /\ row[x].claim # NoClaim /\ row'[x].claim = NoClaim
           /\ row[x].status = "publishing"
           /\ row'[x].status \in {"awaiting_human_review", "queued"} => LifeStep(x)
        /\ row[x].claim # NoClaim /\ row'[x].claim = NoClaim
           /\ row[x].status \in RUNNING_TASK_STATES
           /\ row'[x].status \in {"failed", "manual_intervention"} => LifeStep(x)
    BY DEF Lifecycle!Release, RUNNING_TASK_STATES, Lifecycle!RUNNING_TASK_STATES
  <1>4. /\ row[x].claim = NoClaim /\ row'[x].claim = NoClaim
           /\ row[x].status = "awaiting_human_review"
           /\ row'[x].status \in {"completed", "closed", "queued"} => LifeStep(x)
        /\ row[x].claim = NoClaim /\ row'[x].claim = NoClaim
           /\ row[x].status \in {"failed", "manual_intervention"}
           /\ row'[x].status = "queued" => LifeStep(x)
        /\ row[x].claim = NoClaim /\ row'[x].claim = NoClaim
           /\ row[x].status \in CLOSABLE_TASK_STATUSES
           /\ row'[x].status = "dismissed" => LifeStep(x)
    BY DEF Lifecycle!Decide, CLOSABLE_TASK_STATUSES, Lifecycle!CLOSABLE_TASK_STATUSES
  <1> QED BY <1>1, <1>2, <1>3, <1>4

\* A worker that only moves, and a worker that moves and writes under its claim.
LEMMA MoveRule ==
    ASSUME ClaimInv, NEW x \in Tasks, worker[x].pc # "idle",
           row'[x] = row[x] \/ Holds(x),
           LifeStep(x), row'[x].claim \in {row[x].claim, NoClaim},
           worker'[x].pc = "idle" \/ worker'[x].token = worker[x].token,
           PlaceMatchesStatus(x)'
    PROVE  ClaimStep(x)
  BY DEF ClaimStep, HolderStep, LostStep, Holds

\* A row that changes while its worker stands still.
LEMMA RowRule ==
    ASSUME ClaimInv, NEW x \in Tasks, worker'[x] = worker[x],
           LifeStep(x), row'[x].claim \in {row[x].claim, NoClaim},
           PlaceMatchesStatus(x)'
    PROVE  ClaimStep(x)
  BY DEF ClaimStep, HolderStep, LostStep

\* What ClaimInv says of one task.
LEMMA ClaimFacts ==
    ASSUME ClaimInv, NEW t \in Tasks
    PROVE  /\ row \in [Tasks -> Row] /\ worker \in [Tasks -> Worker]
           /\ row[t] \in Row /\ worker[t] \in Worker
           /\ row[t].claim # NoClaim <=> row[t].status \in CLAIMED_STATES
           /\ worker[t].pc # "idle" /\ row[t].claim # NoClaim => Holds(t)
           /\ worker[t].pc # "idle" => worker[t].token # NoClaim
           /\ worker[t].pc # "idle" /\ Holds(t) =>
                 row[t].claim # NoClaim /\ row[t].status \in CLAIMED_STATES
           /\ PlaceMatchesStatus(t)
  BY DEF ClaimInv, TypeOK, ClaimIffExecuting, OneHolder, HasToken, Holds

\* Where Go and Leave take a worker.
LEMMA GoFields ==
    ASSUME ClaimInv, NEW t \in Tasks, NEW p
    PROVE  /\ Go(t, p)[t].pc = p
           /\ Go(t, p)[t].token = worker[t].token
           /\ Go(t, p)[t].rev = worker[t].rev
           /\ Leave(t)[t].pc = "idle"
           /\ \A y \in Tasks : y # t =>
                 Go(t, p)[y] = worker[y] /\ Leave(t)[y] = worker[y]
  BY ClaimFacts DEF Go, Leave, IdleWorker, Worker

\* A cancel request keeps the claim, and the worker but for its cancel event.
LEMMA CancelStep ==
    ASSUME ClaimInv, NEW x \in Tasks, NEW S \in SUBSET Tasks,
           \A t \in S : Cancellable(t),
           row' = [t \in Tasks |-> IF t \in S
                                   THEN [row[t] EXCEPT !.status = CancelTarget(row[t])]
                                   ELSE row[t]],
           worker' = Signalled(S)
    PROVE  ClaimStep(x)
  <1> USE ClaimFacts
  <1>1. CASE x \notin S
    <2>1. row'[x] = row[x] /\ worker'[x] = worker[x]
      BY <1>1 DEF Signalled
    <2> QED BY <2>1, Untouched
  <1>2. CASE x \in S
    <2>1. /\ row'[x].status = CancelTarget(row[x])
          /\ row'[x].claim = row[x].claim
      BY <1>2 DEF Row
    <2>2. /\ worker'[x].pc = worker[x].pc
          /\ worker'[x].token = worker[x].token
          /\ worker'[x].rev = worker[x].rev
      BY <1>2 DEF Signalled, Worker
    <2>3. LifeStep(x)
      BY <1>2, <2>1, LifeRules DEF CancelTarget, Cancellable, Running
    <2>4. PlaceMatchesStatus(x)'
      <3>1. worker[x].pc # "idle" /\ Holds(x) => row'[x].status = "cancelling"
        BY <1>2, <2>1 DEF CancelTarget, CLAIMED_STATES, RUNNING_TASK_STATES
      <3> QED BY <2>1, <2>2, <3>1 DEF PlaceMatchesStatus, Holds
    <2>5. CASE row[x].status = "queued"
      <3>1. worker'[x] = worker[x]
        BY <2>5 DEF Signalled, Running, RUNNING_TASK_STATES
      <3> QED BY <2>1, <2>3, <2>4, <3>1, RowRule
    <2>6. CASE Running(x)
      <3>1. row[x].claim # NoClaim
        BY <2>6 DEF Running, CLAIMED_STATES
      <3>2. worker[x].pc # "idle" => Holds(x)
        BY <3>1
      <3> QED BY <2>1, <2>2, <2>3, <2>4, <3>2
          DEF ClaimStep, HolderStep, LostStep, Holds
    <2> QED BY <1>2, <2>5, <2>6 DEF Cancellable
  <1> QED BY <1>1, <1>2

\* Recovery (_recover_expired) touches no worker.
LEMMA RecoverStep ==
    ASSUME ClaimInv, recover_expired, worker' = worker, NEW x \in Tasks
    PROVE  ClaimStep(x)
  <1> USE ClaimFacts
  <1>1. CASE ~Recoverable(x)
    BY <1>1, Untouched DEF recover_expired
  <1>2. CASE Recoverable(x)
    <2>1. row'[x] = Recovered(row[x])
      BY <1>2 DEF recover_expired
    <2>2. row[x].status \in CLAIMED_STATES /\ row[x].claim # NoClaim
      BY <1>2 DEF Recoverable, Running, CLAIMED_STATES
    <2>3. /\ row'[x].claim = NoClaim
          /\ row[x].status = "cancelling" => row'[x].status = "cancelled"
          /\ row[x].status # "cancelling" =>
                \/ row[x].status = "publishing" /\ row'[x].status = "queued"
                \/ row'[x].status = "manual_intervention"
      BY <2>1, ReleasedFields DEF Recovered
    <2>4. LifeStep(x)
      BY <2>2, <2>3, LifeRules DEF CLAIMED_STATES
    <2>5. PlaceMatchesStatus(x)'
      BY <2>3 DEF PlaceMatchesStatus, Holds
    <2> QED BY <2>3, <2>4, <2>5, RowRule
  <1> QED BY <1>1, <1>2

\* The creation of a task, as a step of TaskLifecycle.
LEMMA CreateRule ==
    ASSUME NEW x \in Tasks, row[x].status = Absent, row'[x].status = "queued",
           row'[x].claim = row[x].claim
    PROVE  LifeStep(x)
  BY DEF LifeStep, Lifecycle!Next, Lifecycle!Create, Absent, Lifecycle!Absent

\* Every step of the system is a ClaimStep of every task.
LEMMA NextIsClaimStep ==
    ASSUME ClaimInv, [Next]_vars, NEW x \in Tasks
    PROVE  ClaimStep(x)
  <1> USE ClaimFacts
  <1>1. ASSUME NEW i \in Issues, Triage(i) PROVE ClaimStep(x)
    BY <1>1, Untouched DEF Triage, ReadIgnore, ignore, ReadRestore, restore, dbVars
  <1>2. ASSUME NEW t \in Tasks, NEW s, ForgeDecides(t, s) \/ PullProbe(t)
         PROVE  ClaimStep(x)
    BY <1>2, Untouched DEF ForgeDecides, PullProbe, dbVars
  <1>3. ASSUME Stop \/ StopDone \/ UNCHANGED vars PROVE ClaimStep(x)
    BY <1>3, Untouched DEF Stop, StopDone, vars, dbVars
  <1>4. ASSUME Crash PROVE ClaimStep(x)
    <2>1. row' = row /\ worker'[x] = IdleWorker
      BY <1>4 DEF Crash, dbVars
    <2>2. LifeStep(x)
      BY <2>1, LifeRules
    <2> QED BY <2>1, <2>2 DEF ClaimStep, HolderStep, LostStep, PlaceMatchesStatus, IdleWorker
  <1>5. ASSUME Start \/ \E gateOpen \in BOOLEAN : TickBegin(gateOpen)
         PROVE  ClaimStep(x)
    BY <1>5, RecoverStep DEF Start, TickBegin
  <1>6. ASSUME NEW t \in Tasks, request_cancel(t) PROVE ClaimStep(x)
    <2>1. row' = [s \in Tasks |-> IF s \in {t}
                                  THEN [row[s] EXCEPT !.status = CancelTarget(row[s])]
                                  ELSE row[s]]
      BY <1>6 DEF request_cancel
    <2> QED BY <1>6, <2>1, CancelStep DEF request_cancel
  <1>7. ASSUME NEW u \in Users, toggle_user(u) PROVE ClaimStep(x)
    <2> DEFINE hit == {t \in Tasks : active[u] /\ Owner[t] = u /\ Cancellable(t)}
    <2>1. /\ row' = [t \in Tasks |-> IF t \in hit
                                     THEN [row[t] EXCEPT !.status = CancelTarget(row[t])]
                                     ELSE row[t]]
          /\ worker' = Signalled(hit)
      BY <1>7 DEF toggle_user
    <2>2. \A t \in hit : Cancellable(t)
      OBVIOUS
    <2> HIDE DEF hit
    <2>3. hit \in SUBSET Tasks
      BY DEF hit
    <2> QED BY <2>1, <2>2, <2>3, CancelStep
  <1>8. ASSUME NEW t \in Tasks, ReadDispatch(t) \/ dispatch_issue(t) PROVE ClaimStep(x)
    <2>0. CASE UNCHANGED <<row, worker>>
      BY <2>0, Untouched
    <2>1. CASE /\ row[t].status = Absent /\ worker' = worker
               /\ row' = [row EXCEPT ![t].status = "queued"]
      <3>1. \A y \in Tasks : y # t => row'[y] = row[y]
        BY <2>1
      <3>2. row'[t].status = "queued" /\ row'[t].claim = row[t].claim
        BY <2>1 DEF Row
      <3>3. row[t].claim = NoClaim
        BY <2>1 DEF CLAIMED_STATES, RUNNING_TASK_STATES, CLOSABLE_TASK_STATUSES, Absent
      <3>4. LifeStep(t)
        BY <2>1, <3>2, <3>3, LifeRules, CreateRule
      <3>5. PlaceMatchesStatus(t)'
        BY <2>1, <3>2, <3>3 DEF PlaceMatchesStatus, Holds
      <3> QED BY <2>1, <3>1, <3>2, <3>4, <3>5, RowRule, Untouched
    <2> QED BY <1>8, <2>0, <2>1 DEF ReadDispatch, dispatch_issue, dbVars
  <1>9. ASSUME NEW t \in Tasks, close(t) PROVE ClaimStep(x)
    <2>1. worker' = worker /\ \A y \in Tasks : y # t => row'[y] = row[y]
      BY <1>9 DEF close
    <2>2. /\ row[t].status \in CLOSABLE_TASK_STATUSES /\ row'[t].status = "dismissed"
          /\ row'[t].claim = row[t].claim
      BY <1>9 DEF close, Row
    <2>3. row[t].claim = NoClaim
      BY <2>2 DEF CLAIMED_STATES, RUNNING_TASK_STATES, CLOSABLE_TASK_STATUSES, Absent
    <2>4. LifeStep(t)
      BY <2>2, <2>3, LifeRules, CreateRule
    <2>5. PlaceMatchesStatus(t)'
      BY <2>1, <2>2, <2>3 DEF PlaceMatchesStatus, Holds
    <2> QED BY <2>1, <2>2, <2>4, <2>5, RowRule, Untouched
  <1>10. ASSUME NEW t \in Tasks, queue_existing_publish(t) PROVE ClaimStep(x)
    <2>1. worker' = worker /\ \A y \in Tasks : y # t => row'[y] = row[y]
      BY <1>10 DEF queue_existing_publish
    <2>2. /\ row[t].status \in {"failed", "manual_intervention"}
          /\ row'[t].status = "queued" /\ row'[t].claim = row[t].claim
      BY <1>10 DEF queue_existing_publish, Row
    <2>3. row[t].claim = NoClaim
      BY <2>2 DEF CLAIMED_STATES, RUNNING_TASK_STATES, CLOSABLE_TASK_STATUSES, Absent
    <2>4. LifeStep(t)
      BY <2>2, <2>3, LifeRules, CreateRule
    <2>5. PlaceMatchesStatus(t)'
      BY <2>1, <2>2, <2>3 DEF PlaceMatchesStatus, Holds
    <2> QED BY <2>1, <2>2, <2>4, <2>5, RowRule, Untouched
  <1>11. ASSUME NEW t \in Tasks, NEW ids, queue_feedback_revision(t, ids)
         PROVE  ClaimStep(x)
    <2>1. worker' = worker /\ \A y \in Tasks : y # t => row'[y] = row[y]
      BY <1>11 DEF queue_feedback_revision
    <2>2. /\ row[t].status = "awaiting_human_review"
          /\ row'[t].status = "queued" /\ row'[t].claim = row[t].claim
      BY <1>11 DEF queue_feedback_revision, Row
    <2>3. row[t].claim = NoClaim
      BY <2>2 DEF CLAIMED_STATES, RUNNING_TASK_STATES, CLOSABLE_TASK_STATUSES, Absent
    <2>4. LifeStep(t)
      BY <2>2, <2>3, LifeRules, CreateRule
    <2>5. PlaceMatchesStatus(t)'
      BY <2>1, <2>2, <2>3 DEF PlaceMatchesStatus, Holds
    <2> QED BY <2>1, <2>2, <2>4, <2>5, RowRule, Untouched
  <1>12. ASSUME NEW t \in Tasks, pr_status_tick(t) \/ \E new : sync_feedback(t, new)
         PROVE  ClaimStep(x)
    <2>1. worker' = worker /\ \A y \in Tasks : y # t => row'[y] = row[y]
      BY <1>12 DEF pr_status_tick, sync_feedback
    <2>2. \/ row'[t] = row[t]
          \/ /\ row[t].status = "awaiting_human_review"
             /\ row'[t].status \in {"completed", "closed", "awaiting_human_review"}
             /\ row'[t].claim = row[t].claim
      BY <1>12 DEF pr_status_tick, sync_feedback, ProbeResult, Row
    <2>3. CASE row'[t] # row[t]
      <3>1. row[t].claim = NoClaim
        BY <2>2, <2>3 DEF CLAIMED_STATES, RUNNING_TASK_STATES
      <3>2. LifeStep(t)
        BY <2>2, <2>3, <3>1, LifeRules
      <3>3. PlaceMatchesStatus(t)'
        BY <2>1, <2>2, <2>3, <3>1 DEF PlaceMatchesStatus, Holds
      <3> QED BY <2>1, <2>2, <2>3, <3>2, <3>3, RowRule, Untouched
    <2> QED BY <2>1, <2>3, Untouched
  <1>13. ASSUME NEW t \in Tasks, LeaseExpires(t) PROVE ClaimStep(x)
    <2>1. /\ worker' = worker
          /\ row'[x].status = row[x].status /\ row'[x].claim = row[x].claim
      BY <1>13 DEF LeaseExpires, Row
    <2>2. LifeStep(x) /\ PlaceMatchesStatus(x)'
      BY <2>1, LifeRules DEF PlaceMatchesStatus, Holds
    <2> QED BY <2>1, <2>2, RowRule
  <1>14. ASSUME NEW t \in Tasks, TickClaim(t) PROVE ClaimStep(x)
    <2>1. x # t => row'[x] = row[x] /\ worker'[x] = worker[x]
      BY <1>14 DEF TickClaim
    <2>2. \/ row' = row /\ worker' = worker
          \/ /\ row[t].status = "queued" /\ worker[t].pc = "idle"
             /\ row'[t].status = "preparing" /\ row'[t].claim = nclaims + 1
             /\ worker'[t].token = nclaims + 1 /\ worker'[t].pc = "start"
             /\ \A r \in Reviewers : worker'[t].rev[r] = "todo"
      <3>1. CASE /\ row[t].status = "queued" /\ worker[t].pc = "idle"
                 /\ row' = [row EXCEPT ![t].status = "preparing",
                                       ![t].claim = nclaims + 1, ![t].lease = TRUE]
                 /\ worker' = [worker EXCEPT ![t] = [IdleWorker EXCEPT
                                  !.pc = "start", !.token = nclaims + 1]]
        <4>1. row'[t].status = "preparing" /\ row'[t].claim = nclaims + 1
          BY <3>1 DEF Row
        <4>2. /\ worker'[t].token = nclaims + 1 /\ worker'[t].pc = "start"
              /\ \A r \in Reviewers : worker'[t].rev[r] = "todo"
          BY <3>1 DEF IdleWorker
        <4> QED BY <3>1, <4>1, <4>2
      <3> QED BY <1>14, <3>1 DEF TickClaim, claim_queued_task
    <2>3. CASE ~(row' = row /\ worker' = worker)
      <3>a. row[t].claim = NoClaim
        BY <2>2, <2>3 DEF CLAIMED_STATES, RUNNING_TASK_STATES
      <3>b. row'[t].claim > NoClaim
        <4>1. nclaims \in Nat
          BY DEF ClaimInv, TypeOK
        <4> QED BY <2>2, <2>3, <4>1 DEF NoClaim
      <3>1. row[t].claim = NoClaim /\ row'[t].claim > NoClaim
        BY <3>a, <3>b
      <3>2. LifeStep(t)
        BY <2>2, <2>3, <3>1 DEF LifeStep, Lifecycle!Next, Lifecycle!Claim, NoClaim
      <3>3. HolderStep(t) /\ LostStep(t)
        BY <2>2, <2>3, <3>1 DEF HolderStep, LostStep, NoClaim
      <3>4. PlaceMatchesStatus(t)'
        BY <2>2, <2>3 DEF PlaceMatchesStatus
      <3> QED BY <2>1, <3>2, <3>3, <3>4, Untouched DEF ClaimStep
    <2> QED BY <2>3, Untouched
  <1>15. ASSUME NEW t \in Tasks, HeartbeatLost(t) PROVE ClaimStep(x)
    <2>1. row' = row /\ (x # t => worker'[x] = worker[x])
      BY <1>15 DEF HeartbeatLost, dbVars
    <2>2. /\ worker[t].pc # "idle" /\ worker'[t].pc = worker[t].pc
          /\ worker'[t].token = worker[t].token /\ worker'[t].rev = worker[t].rev
      BY <1>15 DEF HeartbeatLost, Worker
    <2>3. LifeStep(t) /\ PlaceMatchesStatus(t)'
      BY <2>1, <2>2, LifeRules, ZenonT(40) DEF PlaceMatchesStatus, Holds
    <2> QED BY <2>1, <2>2, <2>3, MoveRule, Untouched
  <1>16. ASSUME NEW t \in Tasks, Begin(t) PROVE ClaimStep(x)
    <2>1. row' = row
      BY <1>16 DEF Begin, dbVars
    <2>2. x # t => worker'[x] = worker[x]
      BY <1>16 DEF Begin, Go, Leave
    <2>3. worker[t].pc # "idle"
      BY <1>16 DEF Begin, At
    <2>4. worker'[t].pc = "idle" \/ worker'[t].token = worker[t].token
      BY <1>16 DEF Begin, SelectedFeedback, Go, Leave, IdleWorker, Worker
    <2>5. PlaceMatchesStatus(t)'
      <3>1. /\ worker[t].pc = "start"
            /\ worker'[t].pc = "idle" \/ worker'[t].rev = worker[t].rev
            /\ worker'[t].pc \in {"idle", "check", "fail", "prepare"}
        BY <1>16 DEF Begin, At, Go, Leave, IdleWorker, Worker
      <3> QED BY <2>1, <2>4, <3>1 DEF PlaceMatchesStatus, Holds
    <2>6. LifeStep(t)
      BY <2>1, LifeRules
    <2> QED BY <2>1, <2>2, <2>3, <2>4, <2>5, <2>6, MoveRule, Untouched
  <1>17. ASSUME NEW t \in Tasks, Check(t) PROVE ClaimStep(x)
    <2>1. row' = row
      BY <1>17 DEF Check, dbVars
    <2>2. x # t => worker'[x] = worker[x]
      BY <1>17 DEF Check, Go, Leave
    <2>3. worker[t].pc # "idle"
      BY <1>17 DEF Check, At
    <2>4. worker'[t].pc = "idle" \/ worker'[t].token = worker[t].token
      BY <1>17 DEF Check, Go, Leave, IdleWorker, Worker
    <2>5. PlaceMatchesStatus(t)'
      BY <1>17, <2>1
      DEF PlaceMatchesStatus, Holds, Check, Go, Leave, IdleWorker, At, Worker
    <2>6. LifeStep(t)
      BY <2>1, LifeRules
    <2> QED BY <2>1, <2>2, <2>3, <2>4, <2>5, <2>6, MoveRule, Untouched
  <1>18. ASSUME NEW t \in Tasks, Seal(t) PROVE ClaimStep(x)
    <2>1. row' = row
      BY <1>18 DEF Seal, dbVars
    <2>2. x # t => worker'[x] = worker[x]
      BY <1>18 DEF Seal, Go, Leave
    <2>3. worker[t].pc # "idle"
      BY <1>18 DEF Seal, At
    <2>4. worker'[t].pc = "idle" \/ worker'[t].token = worker[t].token
      BY <1>18 DEF Seal, Go, Leave, IdleWorker, Worker
    <2>5. PlaceMatchesStatus(t)'
      BY <1>18, <2>1
      DEF PlaceMatchesStatus, Holds, Seal, Go, Leave, IdleWorker, At, Worker
    <2>6. LifeStep(t)
      BY <2>1, LifeRules
    <2> QED BY <2>1, <2>2, <2>3, <2>4, <2>5, <2>6, MoveRule, Untouched
  <1>19. ASSUME NEW t \in Tasks, Commit(t) PROVE ClaimStep(x)
    <2>1. row' = row
      BY <1>19 DEF Commit, dbVars
    <2>2. x # t => worker'[x] = worker[x]
      BY <1>19 DEF Commit, Go, Leave
    <2>3. worker[t].pc # "idle"
      BY <1>19 DEF Commit, At
    <2>4. worker'[t].pc = "idle" \/ worker'[t].token = worker[t].token
      BY <1>19 DEF Commit, Go, Leave, IdleWorker, Worker
    <2>5. PlaceMatchesStatus(t)'
      BY <1>19, <2>1
      DEF PlaceMatchesStatus, Holds, Commit, Go, Leave, IdleWorker, At, Worker
    <2>6. LifeStep(t)
      BY <2>1, LifeRules
    <2> QED BY <2>1, <2>2, <2>3, <2>4, <2>5, <2>6, MoveRule, Untouched
  <1>20. ASSUME NEW t \in Tasks, ForgePush(t) PROVE ClaimStep(x)
    <2>1. row' = row
      BY <1>20 DEF ForgePush, dbVars
    <2>2. x # t => worker'[x] = worker[x]
      BY <1>20 DEF ForgePush, Go, Leave
    <2>3. worker[t].pc # "idle"
      BY <1>20 DEF ForgePush, At
    <2>4. worker'[t].pc = "idle" \/ worker'[t].token = worker[t].token
      BY <1>20 DEF ForgePush, Go, Leave, IdleWorker, Worker
    <2>5. PlaceMatchesStatus(t)'
      BY <1>20, <2>1
      DEF PlaceMatchesStatus, Holds, ForgePush, Go, Leave, IdleWorker, At, Worker
    <2>6. LifeStep(t)
      BY <2>1, LifeRules
    <2> QED BY <2>1, <2>2, <2>3, <2>4, <2>5, <2>6, MoveRule, Untouched
  <1>21. ASSUME NEW t \in Tasks, ForgePull(t) PROVE ClaimStep(x)
    <2>1. row' = row
      BY <1>21 DEF ForgePull, dbVars
    <2>2. x # t => worker'[x] = worker[x]
      BY <1>21 DEF ForgePull, Go, Leave
    <2>3. worker[t].pc # "idle"
      BY <1>21 DEF ForgePull, At
    <2>4. worker'[t].pc = "idle" \/ worker'[t].token = worker[t].token
      BY <1>21 DEF ForgePull, Go, Leave, IdleWorker, Worker
    <2>5. PlaceMatchesStatus(t)'
      BY <1>21, <2>1
      DEF PlaceMatchesStatus, Holds, ForgePull, Go, Leave, IdleWorker, At, Worker
    <2>6. LifeStep(t)
      BY <2>1, LifeRules
    <2> QED BY <2>1, <2>2, <2>3, <2>4, <2>5, <2>6, MoveRule, Untouched
  <1>22. ASSUME NEW t \in Tasks, Notify(t) PROVE ClaimStep(x)
    <2>1. row' = row
      BY <1>22 DEF Notify, dbVars
    <2>2. x # t => worker'[x] = worker[x]
      BY <1>22 DEF Notify, Go, Leave
    <2>3. worker[t].pc # "idle"
      BY <1>22 DEF Notify, At
    <2>4. worker'[t].pc = "idle" \/ worker'[t].token = worker[t].token
      BY <1>22 DEF Notify, Go, Leave, IdleWorker, Worker
    <2>5. PlaceMatchesStatus(t)'
      BY <1>22, <2>1
      DEF PlaceMatchesStatus, Holds, Notify, Go, Leave, IdleWorker, At, Worker
    <2>6. LifeStep(t)
      BY <2>1, LifeRules
    <2> QED BY <2>1, <2>2, <2>3, <2>4, <2>5, <2>6, MoveRule, Untouched
  <1>23. ASSUME NEW t \in Tasks, StageEnd(t, "develop", "review") \/ StageEnd(t, "revise", "seal")
         PROVE  ClaimStep(x)
    <2>1. row' = row /\ (x # t => worker'[x] = worker[x])
      BY <1>23 DEF StageEnd, Go
    <2>2. /\ worker[t].pc \in {"develop", "revise"}
          /\ worker'[t].token = worker[t].token /\ worker'[t].rev = worker[t].rev
          /\ worker'[t].pc = "review" => worker[t].pc = "develop"
          /\ worker'[t].pc = "seal" => worker[t].pc = "revise"
          /\ worker'[t].pc \in {"review", "seal", "fail", "manual", "cancelled"}
      <3>1. CASE StageEnd(t, "develop", "review")
        <4>1. PICK p \in {"review", "fail", "manual", "cancelled"} : worker' = Go(t, p)
          BY <3>1 DEF StageEnd
        <4> QED BY <3>1, <4>1, GoFields DEF StageEnd, At
      <3>2. CASE StageEnd(t, "revise", "seal")
        <4>1. PICK p \in {"seal", "fail", "manual", "cancelled"} : worker' = Go(t, p)
          BY <3>2 DEF StageEnd
        <4> QED BY <3>2, <4>1, GoFields DEF StageEnd, At
      <3> QED BY <1>23, <3>1, <3>2
    <2>3. LifeStep(t)
      BY <2>1, LifeRules
    <2>4. PlaceMatchesStatus(t)'
      BY <2>1, <2>2 DEF PlaceMatchesStatus, Holds
    <2> QED BY <2>1, <2>2, <2>3, <2>4, MoveRule, Untouched
  <1>24. ASSUME NEW t \in Tasks, NEW r \in Reviewers, ReviewEnd(t, r)
         PROVE  ClaimStep(x)
    <2>1. row' = row /\ (x # t => worker'[x] = worker[x])
      BY <1>24 DEF ReviewEnd, Go
    <2>2. /\ worker[t].pc = "review" /\ worker[t].rev[r] = "running"
          /\ worker'[t].token = worker[t].token
          /\ worker'[t].pc \in {"review", "to_revise", "seal", "fail"}
      BY <1>24 DEF ReviewEnd, Go, At, Worker
    <2>3. LifeStep(t)
      BY <2>1, LifeRules
    <2>4. PlaceMatchesStatus(t)'
      BY <2>1, <2>2 DEF PlaceMatchesStatus, Holds
    <2> QED BY <2>1, <2>2, <2>3, <2>4, MoveRule, Untouched
  <1>25. ASSUME NEW t \in Tasks, Prepare(t) PROVE ClaimStep(x)
    <2>1. x # t => row'[x] = row[x] /\ worker'[x] = worker[x]
      BY <1>25 DEF Prepare, set_prepared, Go, Leave
    <2>2. /\ worker[t].pc # "idle"
          /\ worker'[t].pc = "idle" \/ worker'[t].token = worker[t].token
      BY <1>25, GoFields DEF Prepare, set_prepared, At
    <2>3. \/ row' = row
          \/ /\ Holds(t)
             /\ row'[t].status = row[t].status /\ row'[t].claim = row[t].claim
      BY <1>25, ReleasedFields DEF Prepare, set_prepared, Row
    <2>4. LifeStep(t)
      BY <1>25, <2>2, <2>3, LifeRules DEF NoClaim
    <2>5. PlaceMatchesStatus(t)'
      BY <1>25, <2>2, <2>3, SMTT(30)
      DEF PlaceMatchesStatus, Holds, Prepare, set_prepared, At, Go, Leave, IdleWorker, Worker
    <2> QED BY <2>1, <2>2, <2>3, <2>4, <2>5, MoveRule, Untouched
  <1>26. ASSUME NEW t \in Tasks, StageBegin(t, "to_develop", "developer_working", "develop")
         PROVE  ClaimStep(x)
    <2>1. x # t => row'[x] = row[x] /\ worker'[x] = worker[x]
      BY <1>26 DEF StageBegin, begin_agent_run, SetStatusError, Go, Leave
    <2>2. /\ worker[t].pc # "idle"
          /\ worker'[t].pc = "idle" \/ worker'[t].token = worker[t].token
      BY <1>26, GoFields DEF StageBegin, begin_agent_run, SetStatusError, At
    <2>3. \/ row' = row
          \/ /\ Holds(t)
             /\ row[t].status \in STATUS_EXPECTED("developer_working")
             /\ row'[t].status = "developer_working" /\ row'[t].claim = row[t].claim
      BY <1>26, ReleasedFields DEF StageBegin, begin_agent_run, Row
    <2>4. LifeStep(t)
      BY <1>26, <2>2, <2>3, LifeRules DEF STATUS_EXPECTED, Lifecycle!Forward
    <2>5. PlaceMatchesStatus(t)'
      <3>1. \/ worker'[t].pc \in {"idle", "cancelled", "fail"}
            \/ /\ Holds(t) /\ worker[t].pc = "to_develop"
               /\ worker'[t].pc = "develop" /\ worker'[t].rev = worker[t].rev
        <4>1. \/ worker' \in {Leave(t), Go(t, "cancelled"), Go(t, "fail")}
              \/ Holds(t) /\ worker[t].pc = "to_develop" /\ worker' = Go(t, "develop")
          BY <1>26 DEF StageBegin, SetStatusError, At
        <4> QED BY <4>1, GoFields
      <3>2. PlaceMatchesStatus(t)
        BY DEF ClaimInv
      <3> QED BY <3>1, <3>2 DEF PlaceMatchesStatus
    <2> QED BY <2>1, <2>2, <2>3, <2>4, <2>5, MoveRule, Untouched
  <1>27. ASSUME NEW t \in Tasks, StageBegin(t, "to_revise", "developer_revising", "revise")
         PROVE  ClaimStep(x)
    <2>1. x # t => row'[x] = row[x] /\ worker'[x] = worker[x]
      BY <1>27 DEF StageBegin, begin_agent_run, SetStatusError, Go, Leave
    <2>2. /\ worker[t].pc # "idle"
          /\ worker'[t].pc = "idle" \/ worker'[t].token = worker[t].token
      BY <1>27, GoFields DEF StageBegin, begin_agent_run, SetStatusError, At
    <2>3. \/ row' = row
          \/ /\ Holds(t)
             /\ row[t].status \in STATUS_EXPECTED("developer_revising")
             /\ row'[t].status = "developer_revising" /\ row'[t].claim = row[t].claim
      BY <1>27, ReleasedFields DEF StageBegin, begin_agent_run, Row
    <2>4. LifeStep(t)
      BY <1>27, <2>2, <2>3, LifeRules DEF STATUS_EXPECTED, Lifecycle!Forward
    <2>5. PlaceMatchesStatus(t)'
      <3>1. \/ row' = row /\ worker'[t].pc \in {"idle", "cancelled", "fail"}
            \/ row'[t].status = "developer_revising" /\ worker'[t].pc = "revise"
        <4>1. \/ row' = row /\ worker' = SetStatusError(t)
              \/ row'[t].status = "developer_revising" /\ worker' = Go(t, "revise")
          BY <1>27 DEF StageBegin, begin_agent_run, Row
        <4>2. SetStatusError(t) \in {Leave(t), Go(t, "cancelled"), Go(t, "fail")}
          BY DEF SetStatusError
        <4>3. /\ Leave(t)[t].pc = "idle" /\ Go(t, "cancelled")[t].pc = "cancelled"
              /\ Go(t, "fail")[t].pc = "fail" /\ Go(t, "revise")[t].pc = "revise"
          BY GoFields
        <4> QED BY <4>1, <4>2, <4>3
      <3> QED BY <2>2, <2>3, <3>1 DEF PlaceMatchesStatus, Holds
    <2> QED BY <2>1, <2>2, <2>3, <2>4, <2>5, MoveRule, Untouched
  <1>28. ASSUME NEW t \in Tasks, NEW r \in Reviewers, ReviewBegin(t, r)
         PROVE  ClaimStep(x)
    <2>1. x # t => row'[x] = row[x] /\ worker'[x] = worker[x]
      BY <1>28 DEF ReviewBegin, begin_agent_run, Go, Leave
    <2>2. /\ worker[t].pc # "idle"
          /\ worker'[t].pc = "idle" \/ worker'[t].token = worker[t].token
      <3>1. worker' = Go(t, "fail") \/ worker' = [worker EXCEPT ![t].rev[r] = "running"]
        BY <1>28 DEF ReviewBegin, begin_agent_run
      <3>2. worker[t].pc # "idle"
        BY <1>28 DEF ReviewBegin, begin_agent_run, At
      <3> QED BY <3>1, <3>2, GoFields DEF Worker
    <2>3. \/ row' = row
          \/ /\ Holds(t)
             /\ row[t].status \in STATUS_EXPECTED("reviewing")
             /\ row'[t].status = "reviewing" /\ row'[t].claim = row[t].claim
      BY <1>28, ReleasedFields DEF ReviewBegin, begin_agent_run, Row
    <2>4. LifeStep(t)
      BY <1>28, <2>2, <2>3, LifeRules DEF STATUS_EXPECTED, Lifecycle!Forward
    <2>5. PlaceMatchesStatus(t)'
      <3>1. \/ row' = row /\ worker'[t].pc = "fail"
            \/ row'[t].status = "reviewing" /\ worker'[t].pc = "review"
        <4>1. \/ row' = row /\ worker' = Go(t, "fail")
              \/ /\ row'[t].status = "reviewing"
                 /\ worker' = [worker EXCEPT ![t].rev[r] = "running"]
          BY <1>28 DEF ReviewBegin, begin_agent_run, Row
        <4>2. worker[t].pc = "review"
          BY <1>28 DEF ReviewBegin, begin_agent_run, At
        <4> QED BY <4>1, <4>2, GoFields DEF Worker
      <3> QED BY <2>2, <2>3, <3>1 DEF PlaceMatchesStatus, Holds
    <2> QED BY <2>1, <2>2, <2>3, <2>4, <2>5, MoveRule, Untouched
  <1>29. ASSUME NEW t \in Tasks, SealBegin(t) PROVE ClaimStep(x)
    <2>1. x # t => row'[x] = row[x] /\ worker'[x] = worker[x]
      BY <1>29 DEF SealBegin, SetStatusError, Go, Leave
    <2>2. /\ worker[t].pc # "idle"
          /\ worker'[t].pc = "idle" \/ worker'[t].token = worker[t].token
      BY <1>29, GoFields DEF SealBegin, SetStatusError, At
    <2>3. \/ row' = row
          \/ /\ Holds(t)
             /\ worker[t].pc = "seal" /\ row[t].status \in STATUS_EXPECTED("sealing")
             /\ row'[t].status = "sealing" /\ row'[t].claim = row[t].claim
      BY <1>29 DEF SealBegin, At, Row
    <2>4. LifeStep(t)
      BY <1>29, <2>2, <2>3, LifeRules
      DEF STATUS_EXPECTED, PlaceMatchesStatus, Lifecycle!Forward
    <2>5. PlaceMatchesStatus(t)'
      BY <1>29, <2>2, <2>3
      DEF PlaceMatchesStatus, Holds, SealBegin, SetStatusError, At, Go, Leave,
          IdleWorker, Worker
    <2> QED BY <2>1, <2>2, <2>3, <2>4, <2>5, MoveRule, Untouched
  <1>30. ASSUME NEW t \in Tasks, set_commit(t) PROVE ClaimStep(x)
    <2>1. x # t => row'[x] = row[x] /\ worker'[x] = worker[x]
      BY <1>30 DEF set_commit, Go, Leave
    <2>2. /\ worker[t].pc # "idle"
          /\ worker'[t].pc = "idle" \/ worker'[t].token = worker[t].token
      <3>1. worker' \in {Go(t, "publish"), Leave(t)}
        BY <1>30 DEF set_commit
      <3>2. worker[t].pc # "idle"
        BY <1>30 DEF set_commit, At
      <3> QED BY <3>1, <3>2, GoFields
    <2>3. \/ row' = row
          \/ /\ Holds(t)
             /\ row'[t].status = row[t].status /\ row'[t].claim = row[t].claim
      BY <1>30, ReleasedFields DEF set_commit, Row
    <2>4. LifeStep(t)
      BY <1>30, <2>2, <2>3, LifeRules DEF NoClaim
    <2>5. PlaceMatchesStatus(t)'
      BY <1>30, <2>2, <2>3
      DEF PlaceMatchesStatus, Holds, set_commit, At, Go, Leave, IdleWorker, Worker
    <2> QED BY <2>1, <2>2, <2>3, <2>4, <2>5, MoveRule, Untouched
  <1>31. ASSUME NEW t \in Tasks, begin_publication(t) PROVE ClaimStep(x)
    <2>1. x # t => row'[x] = row[x] /\ worker'[x] = worker[x]
      BY <1>31 DEF begin_publication, Go, Leave
    <2>2. /\ worker[t].pc # "idle"
          /\ worker'[t].pc = "idle" \/ worker'[t].token = worker[t].token
      BY <1>31, GoFields DEF begin_publication, At
    <2>3. \/ row' = row
          \/ /\ Holds(t)
             /\ row[t].status \in STATUS_EXPECTED("publishing")
             /\ row'[t].status = "publishing" /\ row'[t].claim = row[t].claim
      BY <1>31, ReleasedFields DEF begin_publication, Row
    <2>4. LifeStep(t)
      BY <1>31, <2>2, <2>3, LifeRules DEF STATUS_EXPECTED, Lifecycle!Forward
    <2>5. PlaceMatchesStatus(t)'
      BY <1>31, <2>2, <2>3
      DEF PlaceMatchesStatus, Holds, begin_publication, At, Go, Leave, IdleWorker,
          Worker
    <2> QED BY <2>1, <2>2, <2>3, <2>4, <2>5, MoveRule, Untouched
  <1>32. ASSUME NEW t \in Tasks, awaiting_review(t) PROVE ClaimStep(x)
    <2>1. x # t => row'[x] = row[x] /\ worker'[x] = worker[x]
      BY <1>32 DEF awaiting_review, Go, Leave
    <2>2. /\ worker[t].pc # "idle"
          /\ worker'[t].pc = "idle" \/ worker'[t].token = worker[t].token
      <3>1. worker' \in {Go(t, "notify"), Leave(t)}
        BY <1>32 DEF awaiting_review
      <3>2. worker[t].pc # "idle"
        BY <1>32 DEF awaiting_review, At
      <3> QED BY <3>1, <3>2, GoFields
    <2>3. \/ row' = row
          \/ /\ Holds(t)
             /\ row'[t].claim = NoClaim
             /\ \/ row[t].status = "publishing" /\ row'[t].status = "awaiting_human_review"
                \/ row[t].status = "cancelling" /\ row'[t].status = "cancelled"
      <3>1. CASE row' # row
        <4>1. PICK s : /\ row' = [row EXCEPT ![t] =
                             [Released(row[t], s, "none") EXCEPT !.pr = TRUE]]
                       /\ s = IF row[t].status = "cancelling" THEN "cancelled"
                             ELSE "awaiting_human_review"
                       /\ Holds(t) /\ row[t].status \in {"publishing", "cancelling"}
          BY <1>32, <3>1 DEF awaiting_review
        <4>2. row'[t].claim = NoClaim /\ row'[t].status = s
          BY <4>1 DEF Released, Row
        <4> QED BY <4>1, <4>2
      <3> QED BY <3>1
    <2>4. LifeStep(t)
      BY <1>32, <2>2, <2>3, LifeRules DEF NoClaim
    <2>5. PlaceMatchesStatus(t)'
      BY <1>32, <2>2, <2>3
      DEF PlaceMatchesStatus, Holds, awaiting_review, At, Go, Leave, IdleWorker,
          Worker
    <2> QED BY <2>1, <2>2, <2>3, <2>4, <2>5, MoveRule, Untouched
  <1>33. ASSUME NEW t \in Tasks, Fail(t) PROVE ClaimStep(x)
    <2>1. x # t => row'[x] = row[x] /\ worker'[x] = worker[x]
      BY <1>33 DEF Fail, Go, Leave
    <2>2. /\ worker[t].pc # "idle"
          /\ worker'[t].pc = "idle" \/ worker'[t].token = worker[t].token
      BY <1>33, GoFields DEF Fail, At
    <2>3. \/ row' = row
          \/ /\ Holds(t)
             /\ row'[t].claim = NoClaim
             /\ row[t].status = "cancelling" => row'[t].status = "cancelled"
             /\ row[t].status # "cancelling" => row'[t].status = "failed"
      BY <1>33, ReleasedFields DEF Fail, Row
    <2>4. LifeStep(t)
      BY <1>33, <2>2, <2>3, LifeRules DEF CLAIMED_STATES
    <2>5. PlaceMatchesStatus(t)'
      BY <1>33, <2>2, <2>3
      DEF PlaceMatchesStatus, Holds, Fail, At, Go, Leave, IdleWorker, Worker
    <2> QED BY <2>1, <2>2, <2>3, <2>4, <2>5, MoveRule, Untouched
  <1>34. ASSUME NEW t \in Tasks, manual_intervention(t) PROVE ClaimStep(x)
    <2>1. x # t => row'[x] = row[x] /\ worker'[x] = worker[x]
      BY <1>34 DEF manual_intervention, Go, Leave
    <2>2. /\ worker[t].pc # "idle"
          /\ worker'[t].pc = "idle" \/ worker'[t].token = worker[t].token
      BY <1>34, GoFields DEF manual_intervention, At
    <2>3. \/ row' = row
          \/ /\ Holds(t)
             /\ row'[t].claim = NoClaim
             /\ row[t].status = "cancelling" => row'[t].status = "cancelled"
             /\ row[t].status # "cancelling" => row'[t].status = "manual_intervention"
      BY <1>34, ReleasedFields DEF manual_intervention, Row
    <2>4. LifeStep(t)
      BY <1>34, <2>2, <2>3, LifeRules DEF CLAIMED_STATES
    <2>5. PlaceMatchesStatus(t)'
      BY <1>34, <2>2, <2>3
      DEF PlaceMatchesStatus, Holds, manual_intervention, At, Go, Leave, IdleWorker,
          Worker
    <2> QED BY <2>1, <2>2, <2>3, <2>4, <2>5, MoveRule, Untouched
  <1>35. ASSUME NEW t \in Tasks, mark_cancelled(t) PROVE ClaimStep(x)
    <2>1. x # t => row'[x] = row[x] /\ worker'[x] = worker[x]
      BY <1>35 DEF mark_cancelled, Go, Leave
    <2>2. /\ worker[t].pc # "idle"
          /\ worker'[t].pc = "idle" \/ worker'[t].token = worker[t].token
      BY <1>35, GoFields DEF mark_cancelled, At
    <2>3. \/ row' = row
          \/ /\ Holds(t)
             /\ row'[t].claim = NoClaim
             /\ row[t].status = "cancelling" /\ row'[t].status = "cancelled"
      BY <1>35, ReleasedFields DEF mark_cancelled, Row
    <2>4. LifeStep(t)
      BY <1>35, <2>2, <2>3, LifeRules DEF CLAIMED_STATES
    <2>5. PlaceMatchesStatus(t)'
      BY <1>35, <2>2, <2>3
      DEF PlaceMatchesStatus, Holds, mark_cancelled, At, Go, Leave, IdleWorker,
          Worker
    <2> QED BY <2>1, <2>2, <2>3, <2>4, <2>5, MoveRule, Untouched
  <1>36. ASSUME NEW t \in Tasks, Interrupt(t) PROVE ClaimStep(x)
    <2>1. x # t => row'[x] = row[x] /\ worker'[x] = worker[x]
      BY <1>36 DEF Interrupt, Go, Leave
    <2>2. /\ worker[t].pc # "idle"
          /\ worker'[t].pc = "idle" \/ worker'[t].token = worker[t].token
      <3>1. worker' = Leave(t)
        BY <1>36 DEF Interrupt
      <3>2. worker[t].pc # "idle"
        BY <1>36 DEF Interrupt, AwaitPcs
      <3> QED BY <3>1, <3>2, GoFields
    <2>3. \/ row' = row
          \/ /\ Holds(t)
             /\ row'[t].claim = NoClaim
             /\ row[t].status = "cancelling" => row'[t].status = "cancelled"
             /\ row[t].status # "cancelling" => row'[t].status = "manual_intervention"
      BY <1>36, ReleasedFields DEF Interrupt, Row
    <2>4. LifeStep(t)
      BY <1>36, <2>2, <2>3, LifeRules DEF CLAIMED_STATES
    <2>5. PlaceMatchesStatus(t)'
      BY <1>36, <2>2, <2>3
      DEF PlaceMatchesStatus, Holds, Interrupt, At, Go, Leave, IdleWorker, Worker
    <2> QED BY <2>1, <2>2, <2>3, <2>4, <2>5, MoveRule, Untouched
  <1> QED
    BY <1>1, <1>2, <1>3, <1>4, <1>5, <1>6, <1>7, <1>8, <1>9, <1>10,
       <1>11, <1>12, <1>13, <1>14, <1>15, <1>16, <1>17, <1>18, <1>19,
       <1>20, <1>21, <1>22, <1>23, <1>24, <1>25, <1>26, <1>27, <1>28,
       <1>29, <1>30, <1>31, <1>32, <1>33, <1>34, <1>35, <1>36
    DEF Next, Command, PullRequest, WorkerStep, Tick

-----------------------------------------------------------------------------
(***************************************************************************)
(* The invariant and the theorems.                                         *)
(***************************************************************************)
LEMMA ClaimInit == Init => ClaimInv
  <1> SUFFICES ASSUME Init PROVE ClaimInv
    OBVIOUS
  <1>1. TypeOK
    BY InitType
  <1>2. \A t \in Tasks : /\ row[t].claim = NoClaim
                         /\ row[t].status = Absent
                         /\ worker[t].pc = "idle"
    BY DEF Init, IdleWorker
  <1> QED BY <1>1, <1>2
    DEF ClaimInv, ClaimIffExecuting, OneHolder, HasToken, PlaceMatchesStatus,
        CLAIMED_STATES, RUNNING_TASK_STATES, Absent

\* Every step keeps the inductive invariant.
LEMMA ClaimNext == ClaimInv /\ [Next]_vars => ClaimInv'
  <1> SUFFICES ASSUME ClaimInv, [Next]_vars PROVE ClaimInv'
    OBVIOUS
  <1>1. TypeOK'
    BY NextType DEF ClaimInv
  <1>2. \A x \in Tasks : ClaimStep(x)
    BY NextIsClaimStep
  <1>3. ASSUME NEW x \in Tasks
        PROVE  (row[x].claim # NoClaim <=> row[x].status \in CLAIMED_STATES)'
    <2>1. LifeStep(x) /\ (row[x].claim # NoClaim <=> row[x].status \in CLAIMED_STATES)
      BY <1>2, ClaimFacts DEF ClaimStep
    <2>2. row[x].claim \in Nat /\ row'[x].claim \in Nat
      BY <1>1 DEF ClaimInv, TypeOK, Row
    <2>3. CASE UNCHANGED <<row[x].status, row[x].claim>>
      BY <2>1, <2>3
    <2>4. CASE Lifecycle(x)!Create \/ Lifecycle(x)!Claim
      BY <2>1, <2>2, <2>4
      DEF Lifecycle!Create, Lifecycle!Claim, NoClaim, Lifecycle!Absent,
          CLAIMED_STATES, RUNNING_TASK_STATES
    <2>5. CASE Lifecycle(x)!Advance \/ Lifecycle(x)!RequestCancel
      BY <2>1, <2>5
      DEF Lifecycle!Advance, Lifecycle!RequestCancel, Lifecycle!Forward, NoClaim,
          Lifecycle!NoClaim, CLAIMED_STATES, RUNNING_TASK_STATES,
          Lifecycle!RUNNING_TASK_STATES
    <2>6. CASE Lifecycle(x)!Release \/ Lifecycle(x)!Decide
      BY <2>1, <2>6
      DEF Lifecycle!Release, Lifecycle!Decide, NoClaim, Lifecycle!NoClaim,
          CLAIMED_STATES, RUNNING_TASK_STATES
    <2> QED BY <2>1, <2>3, <2>4, <2>5, <2>6 DEF LifeStep, Lifecycle!vars, Lifecycle!Next
  <1>4. ASSUME NEW x \in Tasks
        PROVE  /\ HasToken(x)'
               /\ (worker[x].pc # "idle" /\ row[x].claim # NoClaim =>
                       row[x].claim = worker[x].token)'
    <2>1. HolderStep(x)
      BY <1>2 DEF ClaimStep
    <2> QED BY <2>1, ClaimFacts DEF HolderStep, HasToken, Holds
  <1>5. \A x \in Tasks : PlaceMatchesStatus(x)'
    BY <1>2 DEF ClaimStep
  <1> QED BY <1>1, <1>3, <1>4, <1>5 DEF ClaimInv, ClaimIffExecuting, OneHolder

\* The inductive invariant holds in every behaviour.
LEMMA ClaimInvariant == Spec => []ClaimInv
  BY ClaimInit, ClaimNext, PTL DEF Spec

\* A row carries a claim token exactly while it is being executed, whatever
\* orchestrator, scheduler, console, crash and restart do to it.
THEOREM ClaimsEndWithExecution == Spec => []ClaimIffExecuting
  <1>1. ClaimInv => ClaimIffExecuting
    BY DEF ClaimInv
  <1> QED BY <1>1, ClaimInvariant, PTL

\* The claim of a task with a live worker is that worker's claim: `_running`
\* keeps the scheduler from starting a second run beside a first that lives.
THEOREM ClaimHasOneHolder == Spec => []OneHolder
  <1>1. ClaimInv => OneHolder
    BY DEF ClaimInv
  <1> QED BY <1>1, ClaimInvariant, PTL

\* No write of a worker that has lost its claim reaches the task row.
THEOREM LostWorkersAreHarmless == Spec => LostWorkerNeverWrites
  <1>1. ClaimInv /\ [Next]_vars =>
            [\A t \in Tasks :
               worker[t].pc # "idle" /\ worker[t].token # row[t].claim
                   /\ worker'[t] # worker[t] => row'[t] = row[t]]_vars
    BY NextIsClaimStep DEF ClaimStep, LostStep
  <1> QED BY <1>1, ClaimInvariant, PTL DEF Spec, LostWorkerNeverWrites

\* The detailed specification implements TaskLifecycle for every task.
THEOREM WorkflowImplementsLifecycle == Spec => ImplementsLifecycle
  <1>1. Init => \A t \in Tasks : Lifecycle(t)!Init
    BY DEF Init, Lifecycle!Init, Lifecycle!Absent, Absent, Lifecycle!NoClaim, NoClaim
  <1>2. ClaimInv /\ [Next]_vars =>
            [\A t \in Tasks : [Lifecycle(t)!Next]_(Lifecycle(t)!vars)]_vars
    BY NextIsClaimStep DEF ClaimStep, LifeStep
  <1> QED BY <1>1, <1>2, ClaimInvariant, PTL DEF Spec, ImplementsLifecycle

-----------------------------------------------------------------------------
(***************************************************************************)
(* What the task table says of agent runs, commits and pull requests, and  *)
(* how many tasks it lets run, for every set of tasks and any number of    *)
(* claims and crashes.                                                     *)
(*                                                                         *)
(* The inductive invariant, one task at a time: r is its row, w its        *)
(* worker, a its agent runs, g its workspace, k its fork, b its comments   *)
(* and p the answer of the forge on its way to the poller.                 *)
(***************************************************************************)
\* Agent runs are open under a claim only, and a live worker is where it
\* started them.
RunsBelong(r, w, a) ==
    a.running # {} =>
        /\ r.claim # NoClaim
        /\ w.pc # "idle" =>
              \/ w.pc \in {"develop", "revise"} /\ a.running \subseteq {"developer"}
              \/ w.pc = "review"
                 /\ a.running \subseteq {q \in Reviewers : w.rev[q] = "running"}

\* The developer's report is on record before anything is committed.
ReportKept(r, w, a) ==
    /\ w.pc \in {"develop", "revise"} /\ r.claim = w.token => "developer" \in a.running
    /\ w.pc \in {"review", "seal", "sealing", "committing", "set_commit"}
          /\ r.claim = w.token => a.report
    /\ r.commit # 0 => a.report
    /\ r.code = "publish_existing" => r.prepared /\ r.commit # 0

\* From the commit to the row a human reads: at every place of the worker, what
\* it has put where, whether or not it still holds the claim.
CommitTraced(r, w, g, k) ==
    /\ w.pc = "check" /\ w.mode # "feedback" => r.commit # 0
    /\ w.pc = "set_commit" => g.head # 0
    /\ w.pc \in {"publish", "push"} => r.commit # 0 /\ g.head = r.commit
    /\ w.pc \in {"pull", "record"} => r.commit # 0 /\ k.branch = r.commit
    /\ w.pc = "record" => k.pull # "none"
    /\ w.pc \notin {"idle", "notify"} =>
          r.status \notin {"awaiting_human_review", "completed"}
    /\ r.status \in {"awaiting_human_review", "completed"} =>
          r.pr /\ k.pull # "none" /\ r.commit # 0 /\ k.branch = r.commit

\* The pull request is opened once, and an answer that says merged stays true.
PullTraced(r, k, p) ==
    /\ k.pull = "none" => k.opened = 0
    /\ k.pull # "none" => k.opened = 1
    /\ p = "merged" => k.pull = "merged"
    /\ r.status = "completed" => k.pull = "merged"

\* From the comments a worker answers to the branch that answers them.
AnswersTraced(w, g, k, b) ==
    /\ k.answers \subseteq g.answers
    /\ w.mode # "feedback" \/ w.pc = "start" => w.fb = {}
    /\ w.pc \in {"set_commit", "publish", "push"} => w.fb \subseteq g.answers
    /\ w.pc \in {"pull", "record", "notify"} => w.fb \subseteq k.answers
    /\ \A f \in Feedback : b[f] = "processed" => f \in k.answers

Traced(r, w, a, g, k, b, p) ==
    /\ RunsBelong(r, w, a) /\ ReportKept(r, w, a)
    /\ CommitTraced(r, w, g, k) /\ PullTraced(r, k, p) /\ AnswersTraced(w, g, k, b)

TaskTraced(t) ==
    Traced(row[t], worker[t], agent[t], git[t], forge[t], fb[t], probe[t])

TraceInv == ClaimInv /\ \A t \in Tasks : TaskTraced(t)

\* An issue that can be dispatched, or ignored and restored, has no task that is
\* alive, unless a handler that had read the issue before wrote over it.
IssueInv ==
    /\ OneTaskPerIssue
    /\ \A t \in Tasks : triage[IssueOf[t]] # "dispatched" /\ IssueOf[t] \notin overrun
                           => ~Alive(t)

\* The limits bound the tasks that run, in total and for every user.
QuotaInv ==
    /\ Cardinality(Occupied) <= GlobalLimit
    /\ \A u \in Users : Cardinality(OwnedBy(Occupied, u)) <= PerUserLimit

-----------------------------------------------------------------------------
(***************************************************************************)
(* What keeps one task traced.                                             *)
(***************************************************************************)
\* What only a human decides after it was published.
Shown == {"awaiting_human_review", "completed"}

\* The places at which a worker has nothing of its own under way.
Quiet == {"prepare", "to_develop", "to_revise", "fail", "manual", "cancelled"}

\* w2 is w at the place x.
MovedTo(w, w2, x) ==
    /\ w2.pc = x /\ w2.token = w.token /\ w2.rev = w.rev
    /\ w2.mode = w.mode /\ w2.fb = w.fb

\* r2 is r with the status s.
WithStatus(r, r2, s) ==
    /\ r2.status = s /\ r2.claim = r.claim /\ r2.commit = r.commit
    /\ r2.code = r.code /\ r2.prepared = r.prepared /\ r2.pr = r.pr

\* A worker may leave at any time.
LEMMA Rests ==
    ASSUME NEW r, NEW w, NEW a, NEW g, NEW k, NEW b, NEW p,
           Traced(r, w, a, g, k, b, p)
    PROVE  Traced(r, IdleWorker, a, g, k, b, p)
  BY DEF Traced, RunsBelong, ReportKept, CommitTraced, PullTraced, AnswersTraced, IdleWorker

\* A worker without open agent runs may give up, or begin anew.
LEMMA Pauses ==
    ASSUME NEW r, NEW w, NEW w2, NEW a, NEW g, NEW k, NEW b, NEW p, NEW x \in Quiet,
           Traced(r, w, a, g, k, b, p), a.running = {},
           w.pc \notin {"idle", "notify"}, MovedTo(w, w2, x)
    PROVE  Traced(r, w2, a, g, k, b, p)
  BY DEF Traced, RunsBelong, ReportKept, CommitTraced, PullTraced, AnswersTraced, MovedTo, Quiet

\* A worker that is not inside an agent has no open run.
LEMMA NoRuns ==
    ASSUME NEW r, NEW w, NEW a, NEW g, NEW k, NEW b, NEW p,
           Traced(r, w, a, g, k, b, p),
           w.pc \notin {"idle", "develop", "revise", "review"}
    PROVE  a.running = {}
  BY DEF Traced, RunsBelong

\* A status that is not shown to a human may be written under the claim or
\* without one.
LEMMA Renamed ==
    ASSUME NEW r, NEW r2, NEW w, NEW a, NEW g, NEW k, NEW b, NEW p, NEW s,
           Traced(r, w, a, g, k, b, p), s \notin Shown, WithStatus(r, r2, s)
    PROVE  Traced(r2, w, a, g, k, b, p)
  BY DEF Traced, RunsBelong, ReportKept, CommitTraced, PullTraced, AnswersTraced,
         WithStatus, Shown

\* The end of an execution, with no agent run left open.
LEMMA Releases ==
    ASSUME NEW r \in Row, NEW w, NEW a, NEW a2, NEW g, NEW k, NEW b, NEW p,
           NEW s, NEW c,
           Traced(r, w, a, g, k, b, p),
           w.pc # "idle" => w.token # NoClaim,
           a2.running = {}, a2.report = a.report,
           s \notin Shown,
           c = "publish_existing" => r.prepared /\ r.commit # 0
    PROVE  Traced(Released(r, s, c), w, a2, g, k, b, p)
  <1> DEFINE r2 == Released(r, s, c)
  <1>1. /\ r2.status = s /\ r2.claim = NoClaim /\ r2.code = c
        /\ r2.commit = r.commit /\ r2.prepared = r.prepared
    BY DEF Released, Row
  <1> HIDE DEF r2
  <1>2. Traced(r2, w, a2, g, k, b, p)
    BY <1>1 DEF Traced, RunsBelong, ReportKept, CommitTraced, PullTraced, AnswersTraced, Shown
  <1> QED BY <1>2 DEF r2

\* A worker whose cancel event is set stands where it stood.
LEMMA Stays ==
    ASSUME NEW r, NEW w, NEW w2, NEW a, NEW g, NEW k, NEW b, NEW p,
           Traced(r, w, a, g, k, b, p), MovedTo(w, w2, w.pc)
    PROVE  Traced(r, w2, a, g, k, b, p)
  BY DEF Traced, RunsBelong, ReportKept, CommitTraced, PullTraced, AnswersTraced, MovedTo

\* What TraceInv says of one task.
LEMMA TraceFacts ==
    ASSUME TraceInv, NEW t \in Tasks
    PROVE  /\ row \in [Tasks -> Row] /\ worker \in [Tasks -> Worker]
           /\ agent \in [Tasks -> AgentRuns] /\ git \in [Tasks -> Workspace]
           /\ forge \in [Tasks -> Fork] /\ probe \in [Tasks -> PullStates]
           /\ fb \in [Tasks -> [Feedback -> FeedbackStates]]
           /\ row[t] \in Row /\ worker[t] \in Worker /\ agent[t] \in AgentRuns
           /\ git[t] \in Workspace /\ forge[t] \in Fork
           /\ fb[t] \in [Feedback -> FeedbackStates]
           /\ worker[t].pc # "idle" => worker[t].token # NoClaim
           /\ row[t].claim # NoClaim <=> row[t].status \in CLAIMED_STATES
           /\ worker[t].pc # "idle" /\ row[t].claim # NoClaim => Holds(t)
           /\ ClaimInv /\ TaskTraced(t)
           /\ Traced(row[t], worker[t], agent[t], git[t], forge[t], fb[t], probe[t])
  BY ClaimFacts DEF TraceInv, ClaimInv, TypeOK, TaskTraced

\* A step leaves every task but t alone, and keeps t traced.
SameTask(y) ==
    /\ row'[y] = row[y] /\ worker'[y] = worker[y] /\ agent'[y] = agent[y]
    /\ git'[y] = git[y] /\ forge'[y] = forge[y] /\ fb'[y] = fb[y]
    /\ probe'[y] = probe[y]

TracedBy(t) == /\ \A y \in Tasks : y # t => SameTask(y)
               /\ TaskTraced(t)'

LEMMA TracedAlone ==
    ASSUME TraceInv, NEW y \in Tasks, SameTask(y)
    PROVE  TaskTraced(y)'
  BY TraceFacts DEF SameTask, TaskTraced

\* Where Go and Leave take a worker.
LEMMA GoMoves ==
    ASSUME TraceInv, NEW t \in Tasks, NEW x
    PROVE  /\ MovedTo(worker[t], Go(t, x)[t], x)
           /\ Leave(t)[t] = IdleWorker
           /\ \A y \in Tasks : y # t =>
                 Go(t, x)[y] = worker[y] /\ Leave(t)[y] = worker[y]
  BY TraceFacts DEF Go, Leave, MovedTo, Worker

\* A worker that only gives up, or leaves, changes nothing that is traced.
LEMMA GiveUp ==
    ASSUME TraceInv, NEW t \in Tasks, NEW x \in Quiet,
           UNCHANGED <<row, agent, git, forge, fb, probe>>,
           \/ worker' = Leave(t)
           \/ worker' = Go(t, x)
              /\ worker[t].pc \notin {"idle", "notify", "develop", "revise", "review"}
    PROVE  TracedBy(t)
  <1>1. \A y \in Tasks : y # t => SameTask(y)
    BY GoMoves DEF SameTask
  <1>2. CASE worker' = Leave(t)
    <2>1. worker'[t] = IdleWorker
      BY <1>2, GoMoves
    <2> QED BY <1>1, <2>1, TraceFacts, Rests DEF TracedBy, TaskTraced
  <1>3. CASE /\ worker' = Go(t, x)
             /\ worker[t].pc \notin {"idle", "notify", "develop", "revise", "review"}
    <2>1. MovedTo(worker[t], worker'[t], x)
      BY <1>3, GoMoves
    <2>2. agent[t].running = {}
      BY <1>3, TraceFacts, NoRuns
    <2>3. Traced(row[t], worker'[t], agent[t], git[t], forge[t], fb[t], probe[t])
      BY <1>3, <2>1, <2>2, TraceFacts, Pauses
    <2> QED BY <1>1, <2>3 DEF TracedBy, TaskTraced
  <1> QED BY <1>2, <1>3

-----------------------------------------------------------------------------
(***************************************************************************)
(* The steps of the console, the poller and the scheduler.                 *)
(***************************************************************************)
\* A row that gets a status nobody is shown, by a step that does no more.
LEMMA StatusOnly ==
    ASSUME TraceInv, NEW t \in Tasks, NEW s, s \notin Shown,
           row' = [row EXCEPT ![t].status = s],
           UNCHANGED <<worker, agent, git, forge, fb, probe>>
    PROVE  TracedBy(t)
  <1>1. WithStatus(row[t], row'[t], s) /\ \A y \in Tasks : y # t => SameTask(y)
    BY TraceFacts DEF WithStatus, Row, SameTask
  <1>2. Traced(row'[t], worker[t], agent[t], git[t], forge[t], fb[t], probe[t])
    BY <1>1, TraceFacts, Renamed
  <1> QED BY <1>1, <1>2 DEF TracedBy, TaskTraced

\* A cancel request, of one task or of all tasks of a user.
LEMMA CancelTraces ==
    ASSUME TraceInv, NEW y \in Tasks, NEW S \in SUBSET Tasks,
           row' = [t \in Tasks |-> IF t \in S
                                   THEN [row[t] EXCEPT !.status = CancelTarget(row[t])]
                                   ELSE row[t]],
           worker' = Signalled(S),
           UNCHANGED <<agent, git, forge, fb, probe>>
    PROVE  TaskTraced(y)'
  <1>1. CASE y \notin S
    BY <1>1, TracedAlone DEF SameTask, Signalled
  <1>2. CASE y \in S
    <2>1. WithStatus(row[y], row'[y], CancelTarget(row[y]))
      BY <1>2, TraceFacts DEF WithStatus, Row
    <2>2. CancelTarget(row[y]) \notin Shown
      BY DEF CancelTarget, Shown
    <2>3. MovedTo(worker[y], worker'[y], worker[y].pc)
      BY <1>2, TraceFacts DEF MovedTo, Signalled, Worker
    <2>4. Traced(row'[y], worker[y], agent[y], git[y], forge[y], fb[y], probe[y])
      BY <2>1, <2>2, TraceFacts, Renamed
    <2>5. Traced(row'[y], worker'[y], agent[y], git[y], forge[y], fb[y], probe[y])
      BY <2>3, <2>4, Stays
    <2> QED BY <2>5 DEF TaskTraced
  <1> QED BY <1>1, <1>2

\* Recovery closes the runs of what it takes away.
LEMMA RecoverTraces ==
    ASSUME TraceInv, recover_expired, UNCHANGED <<worker, git, forge, fb, probe>>,
           NEW y \in Tasks
    PROVE  TaskTraced(y)'
  <1>1. CASE ~Recoverable(y)
    BY <1>1, TracedAlone DEF SameTask, recover_expired
  <1>2. CASE Recoverable(y)
    <2>1. /\ row'[y] = Recovered(row[y])
          /\ agent'[y].running = {} /\ agent'[y].report = agent[y].report
      BY <1>2, TraceFacts DEF recover_expired, AgentRuns
    <2>2. PICK s, c : /\ Recovered(row[y]) = Released(row[y], s, c) /\ s \notin Shown
                      /\ c = "publish_existing" => row[y].prepared /\ row[y].commit # 0
      <3>1. row[y].code = "publish_existing" => row[y].prepared /\ row[y].commit # 0
        BY TraceFacts DEF Traced, ReportKept
      <3> QED BY <3>1 DEF Recovered, Shown
    <2>3. Traced(Released(row[y], s, c), worker[y], agent'[y], git[y], forge[y], fb[y], probe[y])
      BY <2>1, <2>2, TraceFacts, Releases
    <2> QED BY <2>1, <2>2, <2>3 DEF TaskTraced
  <1> QED BY <1>1, <1>2

\* The commands on a task.
LEMMA CommandTraces ==
    ASSUME TraceInv, NEW t \in Tasks, Command(t), NEW y \in Tasks
    PROVE  TaskTraced(y)'
  <1>0. TracedBy(t) => TaskTraced(y)'
    BY TracedAlone DEF TracedBy
  <1>1. CASE ReadDispatch(t) \/ dispatch_issue(t)
    <2>1. CASE UNCHANGED row
      BY <1>1, <2>1, TracedAlone DEF ReadDispatch, dispatch_issue, SameTask, dbVars, worldVars
    <2>2. CASE row' = [row EXCEPT ![t].status = "queued"]
      <3>1. "queued" \notin Shown
        BY DEF Shown
      <3> QED BY <1>0, <1>1, <2>2, <3>1, StatusOnly
          DEF ReadDispatch, dispatch_issue, dbVars, worldVars
    <2> QED BY <1>1, <2>1, <2>2 DEF ReadDispatch, dispatch_issue, dbVars
  <1>2. CASE close(t)
    <2>1. "dismissed" \notin Shown
      BY DEF Shown
    <2> QED BY <1>0, <1>2, <2>1, StatusOnly DEF close, worldVars
  <1>3. CASE request_cancel(t)
    <2>1. row' = [s \in Tasks |-> IF s \in {t}
                                  THEN [row[s] EXCEPT !.status = CancelTarget(row[s])]
                                  ELSE row[s]]
      BY <1>3, TraceFacts DEF request_cancel
    <2> QED BY <1>3, <2>1, CancelTraces DEF request_cancel, worldVars
  <1>4. CASE queue_existing_publish(t)
    <2>1. /\ row'[t].status = "queued" /\ row'[t].code = "publish_existing"
          /\ row'[t].claim = row[t].claim /\ row'[t].commit = row[t].commit
          /\ row'[t].prepared = row[t].prepared
          /\ row[t].prepared /\ row[t].commit # 0
          /\ \A z \in Tasks : z # t => SameTask(z)
          /\ UNCHANGED <<worker, agent, git, forge, fb, probe>>
      BY <1>4, TraceFacts DEF queue_existing_publish, Row, SameTask, worldVars
    <2>2. TaskTraced(t)'
      BY <2>1, TraceFacts DEF TaskTraced, Traced, RunsBelong, ReportKept, CommitTraced,
         PullTraced, AnswersTraced
    <2> QED BY <1>0, <2>1, <2>2 DEF TracedBy
  <1>5. ASSUME NEW ids \in SUBSET Feedback, queue_feedback_revision(t, ids)
        PROVE  TaskTraced(y)'
    <2>1. /\ row'[t].status = "queued" /\ row'[t].code = "pr_feedback_revision"
          /\ row'[t].claim = row[t].claim /\ row'[t].commit = row[t].commit
          /\ row'[t].prepared = row[t].prepared
          /\ \A z \in Tasks : z # t => SameTask(z)
          /\ UNCHANGED <<worker, agent, git, forge, probe>>
      BY <1>5, TraceFacts DEF queue_feedback_revision, Row, SameTask, worldVars
    <2>2. \A f \in Feedback : fb'[t][f] = "processed" => fb[t][f] = "processed"
      BY <1>5, TraceFacts DEF queue_feedback_revision
    <2>3. TaskTraced(t)'
      BY <2>1, <2>2, TraceFacts DEF TaskTraced, Traced, RunsBelong, ReportKept, CommitTraced,
         PullTraced, AnswersTraced
    <2> QED BY <1>0, <2>1, <2>3 DEF TracedBy
  <1> QED BY <1>1, <1>2, <1>3, <1>4, <1>5 DEF Command

\* The pull request changes hands on the forge, and its state is read.
LEMMA PullTraces ==
    ASSUME TraceInv, NEW t \in Tasks, PullRequest(t), NEW y \in Tasks
    PROVE  TaskTraced(y)'
  <1>0. TracedBy(t) => TaskTraced(y)'
    BY TracedAlone DEF TracedBy
  <1>1. ASSUME NEW s \in {"merged", "closed"}, ForgeDecides(t, s)
        PROVE  TaskTraced(y)'
    <2>1. /\ forge[t].pull = "open" /\ forge'[t].pull = s
          /\ forge'[t].branch = forge[t].branch /\ forge'[t].answers = forge[t].answers
          /\ forge'[t].opened = forge[t].opened
          /\ \A z \in Tasks : z # t => SameTask(z)
          /\ UNCHANGED <<row, worker, agent, git, fb, probe>>
      BY <1>1, TraceFacts DEF ForgeDecides, Fork, SameTask, dbVars
    <2>2. TaskTraced(t)'
      BY <2>1, TraceFacts DEF TaskTraced, Traced, RunsBelong, ReportKept, CommitTraced,
         PullTraced, AnswersTraced
    <2> QED BY <1>0, <2>1, <2>2 DEF TracedBy
  <1>2. CASE PullProbe(t)
    <2>1. /\ probe'[t] = forge[t].pull
          /\ \A z \in Tasks : z # t => SameTask(z)
          /\ UNCHANGED <<row, worker, agent, git, forge, fb>>
      BY <1>2, TraceFacts DEF PullProbe, SameTask, dbVars, worldVars
    <2>2. TaskTraced(t)'
      BY <2>1, TraceFacts DEF TaskTraced, Traced, PullTraced
    <2> QED BY <1>0, <2>1, <2>2 DEF TracedBy
  <1>3. ASSUME row' = row \/ /\ row[t].status = "awaiting_human_review"
                             /\ row' = [row EXCEPT ![t].status = ProbeResult(t)],
               probe' = [probe EXCEPT ![t] = "none"],
               \A z \in Tasks : z # t => fb'[z] = fb[z],
               \A f \in Feedback : fb'[t][f] = "processed" => fb[t][f] = "processed",
               UNCHANGED <<worker, agent, git, forge>>
        PROVE  TaskTraced(y)'
    <2>1. \A z \in Tasks : z # t => SameTask(z)
      BY <1>3, TraceFacts DEF SameTask
    <2>2. probe'[t] = "none"
      BY <1>3, TraceFacts
    <2>3. CASE row' = row
      <3>1. TaskTraced(t)'
        BY <1>3, <2>2, <2>3, TraceFacts DEF TaskTraced, Traced, RunsBelong, ReportKept,
           CommitTraced, PullTraced, AnswersTraced
      <3> QED BY <1>0, <2>1, <3>1 DEF TracedBy
    <2>4. CASE /\ row[t].status = "awaiting_human_review"
               /\ row' = [row EXCEPT ![t].status = ProbeResult(t)]
      <3>1. WithStatus(row[t], row'[t], ProbeResult(t))
        BY <2>4, TraceFacts DEF WithStatus, Row
      <3>2. ProbeResult(t) = "completed" => probe[t] = "merged"
        BY DEF ProbeResult
      <3> DEFINE s == ProbeResult(t)
      <3> HIDE DEF s
      <3>3. TaskTraced(t)'
        BY <1>3, <2>2, <2>4, <3>1, <3>2, TraceFacts DEF TaskTraced, Traced, RunsBelong,
           ReportKept, CommitTraced, PullTraced, AnswersTraced, WithStatus
      <3> QED BY <1>0, <2>1, <3>3 DEF TracedBy
    <2> QED BY <1>3, <2>3, <2>4
  <1>4. CASE pr_status_tick(t)
    BY <1>3, <1>4 DEF pr_status_tick, worldVars
  <1>5. ASSUME NEW new \in SUBSET Feedback, sync_feedback(t, new)
        PROVE  TaskTraced(y)'
    <2>1. \A f \in Feedback : fb'[t][f] = "processed" => fb[t][f] = "processed"
      BY <1>5, TraceFacts DEF sync_feedback, upsert_pr_feedback
    <2>2. \A z \in Tasks : z # t => fb'[z] = fb[z]
      BY <1>5, TraceFacts DEF sync_feedback
    <2> QED BY <1>3, <1>5, <2>1, <2>2 DEF sync_feedback, worldVars
  <1> QED BY <1>1, <1>2, <1>4, <1>5 DEF PullRequest

\* The lease runs out, and the heartbeat notices.
LEMMA LeaseTraces ==
    ASSUME TraceInv, NEW t \in Tasks, LeaseExpires(t) \/ HeartbeatLost(t), NEW y \in Tasks
    PROVE  TaskTraced(y)'
  <1>0. TracedBy(t) => TaskTraced(y)'
    BY TracedAlone DEF TracedBy
  <1>1. CASE LeaseExpires(t)
    <2>1. /\ row'[t].status = row[t].status /\ row'[t].code = row[t].code
          /\ row'[t].claim = row[t].claim /\ row'[t].commit = row[t].commit
          /\ row'[t].prepared = row[t].prepared /\ row'[t].pr = row[t].pr
          /\ \A z \in Tasks : z # t => SameTask(z)
          /\ UNCHANGED <<worker, agent, git, forge, fb, probe>>
      BY <1>1, TraceFacts DEF LeaseExpires, Row, SameTask, worldVars
    <2>2. TaskTraced(t)'
      BY <2>1, TraceFacts DEF TaskTraced, Traced, RunsBelong, ReportKept, CommitTraced,
         PullTraced, AnswersTraced
    <2> QED BY <1>0, <2>1, <2>2 DEF TracedBy
  <1>2. CASE HeartbeatLost(t)
    <2>1. /\ MovedTo(worker[t], worker'[t], worker[t].pc)
          /\ \A z \in Tasks : z # t => SameTask(z)
          /\ UNCHANGED <<row, agent, git, forge, fb, probe>>
      BY <1>2, TraceFacts DEF HeartbeatLost, Worker, MovedTo, SameTask, dbVars, worldVars
    <2>2. TaskTraced(t)'
      BY <2>1, TraceFacts, Stays DEF TaskTraced
    <2> QED BY <1>0, <2>1, <2>2 DEF TracedBy
  <1> QED BY <1>1, <1>2

\* A claim is given to a task at rest.
LEMMA ClaimTraces ==
    ASSUME TraceInv, NEW t \in Tasks, TickClaim(t), NEW y \in Tasks
    PROVE  TaskTraced(y)'
  <1>0. TracedBy(t) => TaskTraced(y)'
    BY TracedAlone DEF TracedBy
  <1>1. UNCHANGED <<agent, git, forge, fb, probe>>
    BY DEF TickClaim, worldVars
  <1>2. CASE UNCHANGED <<row, worker>>
    BY <1>1, <1>2, TracedAlone DEF SameTask
  <1>3. CASE ~UNCHANGED <<row, worker>>
    <2>1. /\ row[t].status = "queued" /\ worker[t].pc = "idle"
          /\ row' = [row EXCEPT ![t].status = "preparing", ![t].claim = nclaims + 1,
                                ![t].lease = TRUE]
          /\ worker' = [worker EXCEPT ![t] = [IdleWorker EXCEPT !.pc = "start",
                                                !.token = nclaims + 1]]
      BY <1>3 DEF TickClaim, claim_queued_task
    <2>2. row[t].claim = NoClaim
      BY <2>1, TraceFacts DEF CLAIMED_STATES, RUNNING_TASK_STATES
    <2>3. agent[t].running = {}
      BY <2>2, TraceFacts DEF Traced, RunsBelong
    <2>4. /\ row'[t].status = "preparing" /\ row'[t].code = row[t].code
          /\ row'[t].commit = row[t].commit /\ row'[t].prepared = row[t].prepared
      BY <2>1, TraceFacts DEF Row
    <2>5. worker'[t].pc = "start" /\ worker'[t].mode = "fresh" /\ worker'[t].fb = {}
      BY <2>1, TraceFacts DEF IdleWorker
    <2>6. \A z \in Tasks : z # t => SameTask(z)
      BY <1>1, <2>1, TraceFacts DEF SameTask
    <2>7. TaskTraced(t)'
      BY <1>1, <2>3, <2>4, <2>5, TraceFacts DEF TaskTraced, Traced, RunsBelong, ReportKept,
         CommitTraced, PullTraced, AnswersTraced
    <2> QED BY <1>0, <2>6, <2>7 DEF TracedBy
  <1> QED BY <1>2, <1>3

-----------------------------------------------------------------------------
(***************************************************************************)
(* The steps of a worker.                                                  *)
(***************************************************************************)
\* run picks a pipeline; the checks of an existing workspace; git.seal.
LEMMA BeginTraces ==
    ASSUME TraceInv, NEW t \in Tasks, Begin(t)
    PROVE  TracedBy(t)
  <1>0. /\ worker[t].pc = "start" /\ UNCHANGED <<row, agent, git, forge, fb, probe>>
        /\ "fail" \in Quiet /\ "prepare" \in Quiet
    BY DEF Begin, At, dbVars, worldVars, Quiet
  <1>1. agent[t].running = {}
    BY <1>0, TraceFacts, NoRuns
  <1>2. CASE worker' = Leave(t) \/ worker' = Go(t, "prepare")
    BY <1>0, <1>2, GiveUp
  <1>3. CASE /\ row[t].code = "pr_feedback_revision"
             /\ worker' = [worker EXCEPT ![t].mode = "feedback",
                                    ![t].fb = SelectedFeedback(t),
                                    ![t].pc = IF row[t].prepared /\ row[t].pr
                                                 /\ SelectedFeedback(t) # {}
                                              THEN "check" ELSE "fail"]
    <2>1. /\ worker'[t].mode = "feedback" /\ worker'[t].pc \in {"check", "fail"}
          /\ \A z \in Tasks : z # t => SameTask(z)
      BY <1>0, <1>3, TraceFacts DEF Worker, SameTask
    <2>2. TaskTraced(t)'
      BY <1>0, <1>1, <2>1, TraceFacts DEF TaskTraced, Traced, RunsBelong, ReportKept,
         CommitTraced, PullTraced, AnswersTraced
    <2> QED BY <2>1, <2>2 DEF TracedBy
  <1>4. CASE /\ row[t].code = "publish_existing"
             /\ worker' = [worker EXCEPT ![t].mode = "existing",
                                    ![t].pc = IF row[t].prepared
                                              THEN "check" ELSE "fail"]
    <2>1. /\ worker'[t].mode = "existing" /\ worker'[t].pc \in {"check", "fail"}
          /\ worker'[t].fb = worker[t].fb
          /\ \A z \in Tasks : z # t => SameTask(z)
      BY <1>0, <1>4, TraceFacts DEF Worker, SameTask
    <2>2. row[t].commit # 0
      BY <1>4, TraceFacts DEF Traced, ReportKept
    <2>3. worker[t].fb = {}
      BY <1>0, TraceFacts DEF Traced, AnswersTraced
    <2>4. TaskTraced(t)'
      BY <1>0, <1>1, <2>1, <2>2, <2>3, TraceFacts DEF TaskTraced, Traced, RunsBelong, ReportKept,
         CommitTraced, PullTraced, AnswersTraced
    <2> QED BY <2>1, <2>4 DEF TracedBy
  <1> QED BY <1>2, <1>3, <1>4 DEF Begin

\* What _set_status does when its CAS changed nothing.
LEMMA SetStatusErrorTraces ==
    ASSUME TraceInv, NEW t \in Tasks, worker' = SetStatusError(t),
           worker[t].pc \notin {"idle", "notify", "develop", "revise", "review"},
           UNCHANGED <<row, agent, git, forge, fb, probe>>
    PROVE  TracedBy(t)
  <1>1. "fail" \in Quiet /\ "cancelled" \in Quiet
    BY DEF Quiet
  <1> QED BY <1>1, GiveUp DEF SetStatusError

LEMMA CheckTraces ==
    ASSUME TraceInv, NEW t \in Tasks, Check(t)
    PROVE  TracedBy(t)
  <1>0. /\ worker[t].pc = "check" /\ UNCHANGED <<row, agent, git, forge, fb, probe>>
        /\ {"to_revise", "manual", "fail"} \subseteq Quiet
    BY DEF Check, At, dbVars, worldVars, Quiet
  <1>1. CASE worker' = Go(t, "to_revise") \/ worker' = Go(t, "manual") \/ worker' = Go(t, "fail")
    BY <1>0, <1>1, GiveUp
  <1>2. CASE worker[t].mode # "feedback" /\ CleanCommit(t) /\ worker' = Go(t, "publish")
    <2>1. /\ MovedTo(worker[t], worker'[t], "publish")
          /\ \A z \in Tasks : z # t => SameTask(z)
      BY <1>0, <1>2, GoMoves DEF SameTask
    <2>2. agent[t].running = {}
      BY <1>0, TraceFacts, NoRuns
    <2>3. TaskTraced(t)'
      BY <1>0, <1>2, <2>1, <2>2, TraceFacts DEF TaskTraced, Traced, RunsBelong, ReportKept,
         CommitTraced, PullTraced, AnswersTraced, MovedTo, CleanCommit
    <2> QED BY <2>1, <2>3 DEF TracedBy
  <1> QED BY <1>1, <1>2 DEF Check

LEMMA PrepareTraces ==
    ASSUME TraceInv, NEW t \in Tasks, Prepare(t)
    PROVE  TracedBy(t)
  <1>0. /\ worker[t].pc = "prepare" /\ UNCHANGED <<agent, git, forge, fb, probe>>
        /\ {"to_develop", "fail"} \subseteq Quiet
    BY DEF Prepare, At, worldVars, Quiet
  <1>1. CASE /\ row' = row
             /\ worker' = Leave(t) \/ worker' = Go(t, "fail")
    BY <1>0, <1>1, GiveUp
  <1>2. CASE /\ row' = [row EXCEPT ![t].prepared = TRUE]
             /\ worker' = Go(t, "to_develop")
    <2>1. /\ MovedTo(worker[t], worker'[t], "to_develop")
          /\ \A z \in Tasks : z # t => SameTask(z)
      BY <1>0, <1>2, GoMoves, TraceFacts DEF SameTask
    <2>2. /\ row'[t].status = row[t].status /\ row'[t].code = row[t].code
          /\ row'[t].claim = row[t].claim /\ row'[t].commit = row[t].commit
          /\ row'[t].prepared /\ row'[t].pr = row[t].pr
      BY <1>2, TraceFacts DEF Row
    <2>3. agent[t].running = {}
      BY <1>0, TraceFacts, NoRuns
    <2>4. TaskTraced(t)'
      BY <1>0, <2>1, <2>2, <2>3, TraceFacts DEF TaskTraced, Traced, RunsBelong, ReportKept,
         CommitTraced, PullTraced, AnswersTraced, MovedTo
    <2> QED BY <2>1, <2>4 DEF TracedBy
  <1> QED BY <1>1, <1>2 DEF Prepare, set_prepared

LEMMA StageBeginTraces ==
    ASSUME TraceInv, NEW t \in Tasks, NEW from \in {"to_develop", "to_revise"},
           NEW s, s \notin Shown, NEW to \in {"develop", "revise"},
           StageBegin(t, from, s, to)
    PROVE  TracedBy(t)
  <1>0. worker[t].pc = from /\ UNCHANGED <<git, forge, fb, probe>>
    BY DEF StageBegin, At, worldVars
  <1>1. CASE worker' = SetStatusError(t) /\ UNCHANGED <<row, agent>>
    BY <1>0, <1>1, SetStatusErrorTraces
  <1>2. CASE /\ Holds(t) /\ row' = [row EXCEPT ![t].status = s]
             /\ begin_agent_run(t, "developer") /\ worker' = Go(t, to)
    <2>1. /\ MovedTo(worker[t], worker'[t], to)
          /\ WithStatus(row[t], row'[t], s)
          /\ \A z \in Tasks : z # t => SameTask(z)
      BY <1>0, <1>2, GoMoves, TraceFacts DEF SameTask, WithStatus, Row, begin_agent_run
    <2>2. agent[t].running = {}
      BY <1>0, TraceFacts, NoRuns
    <2>3. agent'[t].running = {"developer"} /\ agent'[t].report = agent[t].report
      BY <1>2, <2>2, TraceFacts DEF begin_agent_run, AgentRuns
    <2>4. row[t].claim # NoClaim
      BY <1>0, <1>2, TraceFacts DEF Holds
    <2>5. TaskTraced(t)'
      BY <1>0, <2>1, <2>3, <2>4, TraceFacts DEF TaskTraced, Traced, RunsBelong, ReportKept,
         CommitTraced, PullTraced, AnswersTraced, MovedTo, WithStatus, Shown
    <2> QED BY <2>1, <2>5 DEF TracedBy
  <1> QED BY <1>1, <1>2 DEF StageBegin

LEMMA StageEndTraces ==
    ASSUME TraceInv, NEW t \in Tasks, NEW from \in {"develop", "revise"},
           NEW to \in {"review", "seal"}, StageEnd(t, from, to)
    PROVE  TracedBy(t)
  <1>0. worker[t].pc = from /\ UNCHANGED <<row, forge, fb, probe>>
    BY DEF StageEnd, At
  <1>1. /\ git'[t].head = git[t].head /\ git'[t].answers = git[t].answers
        /\ \A z \in Tasks : z # t => git'[z] = git[z]
    BY TraceFacts DEF StageEnd, Workspace
  <1>2. PICK ok \in BOOLEAN, x \in {to, "fail", "manual", "cancelled"} :
           FinishDeveloper(t, ok) /\ worker' = Go(t, x) /\ (x = to => ok)
    BY DEF StageEnd
  <1>3. /\ MovedTo(worker[t], worker'[t], x)
        /\ \A z \in Tasks : z # t => SameTask(z)
    BY <1>0, <1>1, <1>2, GoMoves, TraceFacts DEF SameTask, FinishDeveloper
  <1>4. /\ agent[t].running \subseteq {"developer"}
        /\ row[t].claim = worker[t].token => "developer" \in agent[t].running
    BY <1>0, TraceFacts DEF Traced, RunsBelong, ReportKept
  <1>5. agent'[t] = IF "developer" \in agent[t].running
                    THEN [running |-> agent[t].running \ {"developer"},
                          report  |-> agent[t].report \/ ok]
                    ELSE agent[t]
    BY <1>2, TraceFacts DEF FinishDeveloper
  <1>6. /\ agent'[t].running = {}
        /\ agent[t].report => agent'[t].report
        /\ ok /\ row[t].claim = worker[t].token => agent'[t].report
    <2>1. agent'[t].running = {}
      BY <1>4, <1>5
    <2>2. CASE "developer" \in agent[t].running
      <3> DEFINE kept == agent[t].report \/ ok
                 left == agent[t].running \ {"developer"}
      <3>1. agent'[t] = [running |-> left, report |-> kept]
        BY <1>5, <2>2
      <3> HIDE DEF kept, left
      <3>2. agent'[t].report = kept
        BY <3>1
      <3>3. kept = (agent[t].report \/ ok)
        BY Zenon DEF kept
      <3> QED BY <2>1, <3>2, <3>3, Zenon
    <2>3. CASE "developer" \notin agent[t].running
      BY <1>4, <1>5, <2>1, <2>3
    <2> QED BY <2>2, <2>3
  <1>7. TaskTraced(t)'
    BY <1>0, <1>1, <1>2, <1>3, <1>6, TraceFacts DEF TaskTraced, Traced, RunsBelong, ReportKept,
       CommitTraced, PullTraced, AnswersTraced, MovedTo
  <1> QED BY <1>3, <1>7 DEF TracedBy

\* git commit makes a new HEAD that answers what the worker was given.
LEMMA CommittedFields ==
    ASSUME TraceInv, NEW t \in Tasks
    PROVE  /\ Committed(t).head # 0
           /\ Committed(t).answers = git[t].answers \cup worker[t].fb
  <1>1. git[t].head + 1 \in Nat \ {0}
    BY TraceFacts DEF Workspace
  <1> DEFINE h == git[t].head + 1
             all == git[t].answers \cup worker[t].fb
  <1>2. Committed(t) = [git[t] EXCEPT !.head = h, !.dirty = FALSE, !.answers = all]
    BY DEF Committed
  <1> HIDE DEF h, all
  <1>3. Committed(t).head = h /\ Committed(t).answers = all
    BY <1>2, TraceFacts DEF Workspace
  <1> QED BY <1>1, <1>3 DEF h, all

LEMMA ReviewBeginTraces ==
    ASSUME TraceInv, NEW t \in Tasks, NEW r \in Reviewers, ReviewBegin(t, r)
    PROVE  TracedBy(t)
  <1>0. worker[t].pc = "review" /\ UNCHANGED <<git, forge, fb, probe>>
    BY DEF ReviewBegin, At, worldVars
  <1>1. agent[t].running \subseteq {q \in Reviewers : worker[t].rev[q] = "running"}
    BY <1>0, TraceFacts DEF Traced, RunsBelong
  <1>2. CASE /\ agent' = [agent EXCEPT ![t].running = @ \ Reviewers]
             /\ worker' = Go(t, "fail") /\ row' = row
    <2>1. /\ MovedTo(worker[t], worker'[t], "fail")
          /\ \A z \in Tasks : z # t => SameTask(z)
      BY <1>0, <1>2, GoMoves, TraceFacts DEF SameTask
    <2>2. agent'[t].running = {} /\ agent'[t].report = agent[t].report
      BY <1>1, <1>2, TraceFacts DEF AgentRuns
    <2>3. TaskTraced(t)'
      BY <1>0, <1>2, <2>1, <2>2, TraceFacts DEF TaskTraced, Traced, RunsBelong, ReportKept,
         CommitTraced, PullTraced, AnswersTraced, MovedTo
    <2> QED BY <2>1, <2>3 DEF TracedBy
  <1>3. CASE /\ Holds(t) /\ row' = [row EXCEPT ![t].status = "reviewing"]
             /\ begin_agent_run(t, r)
             /\ worker' = [worker EXCEPT ![t].rev[r] = "running"]
    <2>1. /\ WithStatus(row[t], row'[t], "reviewing")
          /\ \A z \in Tasks : z # t => SameTask(z)
      BY <1>0, <1>3, TraceFacts DEF SameTask, WithStatus, Row, begin_agent_run
    <2>2. /\ worker'[t].pc = "review" /\ worker'[t].token = worker[t].token
          /\ worker'[t].mode = worker[t].mode /\ worker'[t].fb = worker[t].fb
          /\ worker'[t].rev = [worker[t].rev EXCEPT ![r] = "running"]
          /\ worker[t].rev \in [Reviewers -> {"todo", "running", "done"}]
      BY <1>0, <1>3, TraceFacts DEF Worker
    <2>3. /\ agent'[t].running = agent[t].running \cup {r}
          /\ agent'[t].report = agent[t].report
      BY <1>3, TraceFacts DEF begin_agent_run, AgentRuns
    <2>4. agent'[t].running \subseteq {q \in Reviewers : worker'[t].rev[q] = "running"}
      BY <1>1, <2>2, <2>3
    <2>5. row[t].claim # NoClaim
      BY <1>0, <1>3, TraceFacts DEF Holds
    <2>6. TaskTraced(t)'
      BY <1>0, <2>1, <2>2, <2>3, <2>4, <2>5, TraceFacts DEF TaskTraced, Traced, RunsBelong,
         ReportKept, CommitTraced, PullTraced, AnswersTraced, WithStatus
    <2> QED BY <2>1, <2>6 DEF TracedBy
  <1> QED BY <1>2, <1>3 DEF ReviewBegin

LEMMA ReviewEndTraces ==
    ASSUME TraceInv, NEW t \in Tasks, NEW r \in Reviewers, ReviewEnd(t, r)
    PROVE  TracedBy(t)
  <1>0. worker[t].pc = "review" /\ UNCHANGED <<row, git, forge, fb, probe>>
    BY DEF ReviewEnd, At, worldVars
  <1>1. agent[t].running \subseteq {q \in Reviewers : worker[t].rev[q] = "running"}
    BY <1>0, TraceFacts DEF Traced, RunsBelong
  <1>2. CASE /\ agent' = [agent EXCEPT ![t].running = @ \ Reviewers]
             /\ worker' = Go(t, "fail")
    <2>1. /\ MovedTo(worker[t], worker'[t], "fail")
          /\ \A z \in Tasks : z # t => SameTask(z)
      BY <1>0, <1>2, GoMoves, TraceFacts DEF SameTask
    <2>2. agent'[t].running = {} /\ agent'[t].report = agent[t].report
      BY <1>1, <1>2, TraceFacts DEF AgentRuns
    <2>3. TaskTraced(t)'
      BY <1>0, <1>2, <2>1, <2>2, TraceFacts DEF TaskTraced, Traced, RunsBelong, ReportKept,
         CommitTraced, PullTraced, AnswersTraced, MovedTo
    <2> QED BY <2>1, <2>3 DEF TracedBy
  <1>3. ASSUME NEW x \in {"review", "to_revise", "seal"},
               agent' = [agent EXCEPT ![t].running = @ \ {r}],
               worker' = [worker EXCEPT ![t].rev[r] = "done", ![t].pc = x],
               x # "review" => \A q \in Reviewers \ {r} : worker[t].rev[q] = "done"
        PROVE  TracedBy(t)
    <2>1. \A z \in Tasks : z # t => SameTask(z)
      BY <1>0, <1>3, TraceFacts DEF SameTask
    <2>2. /\ worker'[t].pc = x /\ worker'[t].token = worker[t].token
          /\ worker'[t].mode = worker[t].mode /\ worker'[t].fb = worker[t].fb
          /\ worker'[t].rev = [worker[t].rev EXCEPT ![r] = "done"]
          /\ worker[t].rev \in [Reviewers -> {"todo", "running", "done"}]
      BY <1>0, <1>3, TraceFacts DEF Worker
    <2>3. /\ agent'[t].running = agent[t].running \ {r}
          /\ agent'[t].report = agent[t].report
      BY <1>3, TraceFacts DEF AgentRuns
    <2>4. agent'[t].running \subseteq {q \in Reviewers : worker'[t].rev[q] = "running"}
      BY <1>1, <2>2, <2>3
    <2>5. x # "review" => agent'[t].running = {}
      BY <1>1, <1>3, <2>3
    <2>6. TaskTraced(t)'
      BY <1>0, <1>3, <2>2, <2>3, <2>4, <2>5, TraceFacts DEF TaskTraced, Traced, RunsBelong,
         ReportKept, CommitTraced, PullTraced, AnswersTraced
    <2> QED BY <2>1, <2>6 DEF TracedBy
  <1>4. CASE /\ agent' = [agent EXCEPT ![t].running = @ \ {r}]
             /\ LET last == \A q \in Reviewers \ {r} : worker[t].rev[q] = "done" IN
                \E findings \in BOOLEAN :
                   worker' = [worker EXCEPT
                             ![t].rev[r] = "done",
                             ![t].pc = IF ~last THEN "review"
                                       ELSE IF findings THEN "to_revise" ELSE "seal"]
    <2> DEFINE last == \A q \in Reviewers \ {r} : worker[t].rev[q] = "done"
    <2>1. PICK findings \in BOOLEAN :
                   worker' = [worker EXCEPT
                             ![t].rev[r] = "done",
                             ![t].pc = IF ~last THEN "review"
                                       ELSE IF findings THEN "to_revise" ELSE "seal"]
      BY <1>4
    <2> DEFINE x == IF ~last THEN "review" ELSE IF findings THEN "to_revise" ELSE "seal"
    <2>2. x \in {"review", "to_revise", "seal"} /\ (x # "review" => last)
      OBVIOUS
    <2>3. worker' = [worker EXCEPT ![t].rev[r] = "done", ![t].pc = x]
      BY <2>1
    <2> HIDE DEF x
    <2> QED BY <1>3, <1>4, <2>2, <2>3
  <1> QED BY <1>2, <1>4 DEF ReviewEnd

\* finalize up to the commit.
LEMMA SealTraces ==
    ASSUME TraceInv, NEW t \in Tasks, SealBegin(t) \/ Seal(t) \/ Commit(t)
    PROVE  TracedBy(t)
  <1>0. UNCHANGED <<agent, forge, fb, probe>> /\ "fail" \in Quiet
    BY DEF SealBegin, Seal, Commit, dbVars, worldVars, Quiet
  <1>1. CASE SealBegin(t)
    <2>0. worker[t].pc = "seal" /\ git' = git
      BY <1>1 DEF SealBegin, At, worldVars
    <2>1. CASE (worker' = Go(t, "fail") \/ worker' = SetStatusError(t)) /\ row' = row
      BY <1>0, <2>0, <2>1, GiveUp, SetStatusErrorTraces
    <2>2. CASE row' = [row EXCEPT ![t].status = "sealing"] /\ worker' = Go(t, "sealing")
      <3>1. /\ MovedTo(worker[t], worker'[t], "sealing")
            /\ WithStatus(row[t], row'[t], "sealing")
            /\ \A z \in Tasks : z # t => SameTask(z)
        BY <1>0, <2>0, <2>2, GoMoves, TraceFacts DEF SameTask, WithStatus, Row
      <3>2. agent[t].running = {}
        BY <2>0, TraceFacts, NoRuns
      <3>3. TaskTraced(t)'
        BY <1>0, <2>0, <3>1, <3>2, TraceFacts DEF TaskTraced, Traced, RunsBelong, ReportKept,
           CommitTraced, PullTraced, AnswersTraced, MovedTo, WithStatus
      <3> QED BY <3>1, <3>3 DEF TracedBy
    <2> QED BY <1>1, <2>1, <2>2 DEF SealBegin
  <1>2. CASE Seal(t)
    <2>0. worker[t].pc = "sealing" /\ UNCHANGED <<row, git>>
      BY <1>2 DEF Seal, At, worldVars, dbVars
    <2>1. CASE worker' = Go(t, "fail") \/ worker' = Leave(t)
      BY <1>0, <2>0, <2>1, GiveUp
    <2>2. CASE worker' = Go(t, "committing")
      <3>1. /\ MovedTo(worker[t], worker'[t], "committing")
            /\ \A z \in Tasks : z # t => SameTask(z)
        BY <1>0, <2>0, <2>2, GoMoves, TraceFacts DEF SameTask
      <3>2. agent[t].running = {}
        BY <2>0, TraceFacts, NoRuns
      <3>3. TaskTraced(t)'
        BY <1>0, <2>0, <3>1, <3>2, TraceFacts DEF TaskTraced, Traced, RunsBelong, ReportKept,
           CommitTraced, PullTraced, AnswersTraced, MovedTo
      <3> QED BY <3>1, <3>3 DEF TracedBy
    <2> QED BY <1>2, <2>1, <2>2 DEF Seal
  <1>3. CASE Commit(t)
    <2>0. worker[t].pc = "committing" /\ row' = row
      BY <1>3 DEF Commit, At, dbVars
    <2>1. CASE worker' = Go(t, "fail") /\ git' = git
      BY <1>0, <2>0, <2>1, GiveUp
    <2>2. ASSUME NEW x \in {"set_commit", "fail"}, git' = [git EXCEPT ![t] = Committed(t)],
                 worker' = Go(t, x)
          PROVE  TracedBy(t)
      <3>1. /\ MovedTo(worker[t], worker'[t], x)
            /\ \A z \in Tasks : z # t => SameTask(z)
            /\ git'[t] = Committed(t)
        BY <1>0, <2>0, <2>2, GoMoves, TraceFacts DEF SameTask
      <3>2. agent[t].running = {}
        BY <2>0, TraceFacts, NoRuns
      <3>3. /\ git'[t].head # 0
            /\ git'[t].answers = git[t].answers \cup worker[t].fb
        BY <3>1, CommittedFields, TraceFacts
      <3>4. TaskTraced(t)'
        BY <1>0, <2>0, <2>2, <3>1, <3>2, <3>3, TraceFacts DEF TaskTraced, Traced, RunsBelong,
           ReportKept, CommitTraced, PullTraced, AnswersTraced, MovedTo
      <3> QED BY <3>1, <3>4 DEF TracedBy
    <2> QED BY <1>3, <2>1, <2>2 DEF Commit
  <1> QED BY <1>1, <1>2, <1>3

\* What a push and the lookup of a pull request leave on the forge.
LEMMA ForkFields ==
    ASSUME TraceInv, NEW t \in Tasks, NEW k \in Fork,
           k.pull = "none" => k.opened = 0, k.pull # "none" => k.opened = 1
    PROVE  /\ Pushed(t) \in Fork
           /\ Pushed(t).branch = git[t].head /\ Pushed(t).answers = git[t].answers
           /\ Pushed(t).pull = forge[t].pull /\ Pushed(t).opened = forge[t].opened
           /\ WithPull(k).pull # "none" /\ WithPull(k).opened = 1
           /\ WithPull(k).branch = k.branch /\ WithPull(k).answers = k.answers
           /\ k.pull # "none" => WithPull(k).pull = k.pull
  <1>1. /\ Pushed(t) \in Fork
        /\ Pushed(t).branch = git[t].head /\ Pushed(t).answers = git[t].answers
        /\ Pushed(t).pull = forge[t].pull /\ Pushed(t).opened = forge[t].opened
    BY TraceFacts DEF Pushed, Fork, Workspace
  <1>2. CASE k.pull # "none"
    BY <1>1, <1>2 DEF WithPull
  <1>3. CASE k.pull = "none"
    <2>1. k.opened + 1 = 1
      BY <1>3
    <2>2. WithPull(k) = [k EXCEPT !.pull = "open", !.opened = 1]
      BY <1>3, <2>1 DEF WithPull
    <2> QED BY <1>1, <1>3, <2>2 DEF Fork
  <1> QED BY <1>2, <1>3

\* The fork of a task changes as a push and a pull request change it, while
\* its row is not shown to a human.
LEMMA ForkTraces ==
    ASSUME NEW r, NEW w, NEW a, NEW g, NEW k, NEW k2, NEW b, NEW p,
           Traced(r, w, a, g, k, b, p), w.pc = "idle", r.status \notin Shown,
           k.answers \subseteq k2.answers, k2.answers \subseteq g.answers,
           k2.pull = "none" => k2.opened = 0, k2.pull # "none" => k2.opened = 1,
           k.pull # "none" => k2.pull = k.pull
    PROVE  Traced(r, w, a, g, k2, b, p)
  BY DEF Traced, RunsBelong, ReportKept, CommitTraced, PullTraced, AnswersTraced, Shown

\* The commit is recorded, and the publication begins.
LEMMA RecordTraces ==
    ASSUME TraceInv, NEW t \in Tasks, set_commit(t) \/ begin_publication(t)
    PROVE  TracedBy(t)
  <1>0. UNCHANGED <<agent, git, forge, fb, probe>> /\ "fail" \in Quiet
    BY DEF set_commit, begin_publication, worldVars, Quiet
  <1>1. CASE set_commit(t)
    <2>0. worker[t].pc = "set_commit"
      BY <1>1 DEF set_commit, At
    <2>1. CASE worker' = Leave(t) /\ row' = row
      BY <1>0, <2>1, GiveUp
    <2>2. CASE /\ Holds(t) /\ row[t].status = "sealing"
               /\ row' = [row EXCEPT ![t].commit = git[t].head]
               /\ worker' = Go(t, "publish")
      <3>1. /\ MovedTo(worker[t], worker'[t], "publish")
            /\ \A z \in Tasks : z # t => SameTask(z)
        BY <1>0, <2>0, <2>2, GoMoves, TraceFacts DEF SameTask
      <3>2. /\ row'[t].status = row[t].status /\ row'[t].code = row[t].code
            /\ row'[t].claim = row[t].claim /\ row'[t].commit = git[t].head
            /\ row'[t].prepared = row[t].prepared /\ row'[t].pr = row[t].pr
        BY <2>2, TraceFacts DEF Row
      <3>3. agent[t].running = {} /\ agent[t].report /\ git[t].head # 0
        <4>1. agent[t].running = {}
          BY <2>0, TraceFacts, NoRuns
        <4>2. agent[t].report /\ git[t].head # 0
          BY <2>0, <2>2, TraceFacts DEF Traced, ReportKept, CommitTraced, Holds
        <4> QED BY <4>1, <4>2
      <3>4. TaskTraced(t)'
        BY <1>0, <2>0, <2>2, <3>1, <3>2, <3>3, TraceFacts DEF TaskTraced, Traced, RunsBelong,
           ReportKept, CommitTraced, PullTraced, AnswersTraced, MovedTo
      <3> QED BY <3>1, <3>4 DEF TracedBy
    <2> QED BY <1>1, <2>1, <2>2 DEF set_commit
  <1>2. CASE begin_publication(t)
    <2>0. worker[t].pc = "publish"
      BY <1>2 DEF begin_publication, At
    <2>1. CASE (worker' = Leave(t) \/ worker' = Go(t, "fail")) /\ row' = row
      BY <1>0, <2>0, <2>1, GiveUp
    <2>2. CASE row' = [row EXCEPT ![t].status = "publishing"] /\ worker' = Go(t, "push")
      <3>1. /\ MovedTo(worker[t], worker'[t], "push")
            /\ WithStatus(row[t], row'[t], "publishing")
            /\ \A z \in Tasks : z # t => SameTask(z)
        BY <1>0, <2>0, <2>2, GoMoves, TraceFacts DEF SameTask, WithStatus, Row
      <3>2. agent[t].running = {}
        BY <2>0, TraceFacts, NoRuns
      <3>3. TaskTraced(t)'
        BY <1>0, <2>0, <3>1, <3>2, TraceFacts DEF TaskTraced, Traced, RunsBelong, ReportKept,
           CommitTraced, PullTraced, AnswersTraced, MovedTo, WithStatus
      <3> QED BY <3>1, <3>3 DEF TracedBy
    <2> QED BY <1>2, <2>1, <2>2 DEF begin_publication
  <1> QED BY <1>1, <1>2

\* forge.publish.
LEMMA PublishTraces ==
    ASSUME TraceInv, NEW t \in Tasks, ForgePush(t) \/ ForgePull(t)
    PROVE  TracedBy(t)
  <1>0. /\ UNCHANGED <<row, agent, git, fb, probe>> /\ "fail" \in Quiet
        /\ worker[t].pc \in {"push", "pull"}
    BY DEF ForgePush, ForgePull, dbVars, Quiet, At
  <1>1. agent[t].running = {}
    BY <1>0, TraceFacts, NoRuns
  <1>2. /\ forge[t].pull = "none" => forge[t].opened = 0
        /\ forge[t].pull # "none" => forge[t].opened = 1
        /\ forge[t].answers \subseteq git[t].answers
    BY TraceFacts DEF Traced, PullTraced, AnswersTraced
  <1>3. CASE worker' = Go(t, "fail") /\ forge' = forge
    BY <1>0, <1>3, GiveUp
  <1>4. CASE /\ worker[t].pc = "push" /\ forge' = [forge EXCEPT ![t] = Pushed(t)]
             /\ worker' = Go(t, "pull")
    <2>1. /\ MovedTo(worker[t], worker'[t], "pull")
          /\ \A z \in Tasks : z # t => SameTask(z)
          /\ forge'[t] = Pushed(t)
      BY <1>0, <1>4, GoMoves, TraceFacts DEF SameTask
    <2>2. /\ forge'[t].branch = git[t].head /\ forge'[t].answers = git[t].answers
          /\ forge'[t].pull = forge[t].pull /\ forge'[t].opened = forge[t].opened
      BY <1>2, <2>1, ForkFields, TraceFacts
    <2>3. TaskTraced(t)'
      BY <1>0, <1>1, <1>2, <1>4, <2>1, <2>2, TraceFacts DEF TaskTraced, Traced, RunsBelong,
         ReportKept, CommitTraced, PullTraced, AnswersTraced, MovedTo
    <2> QED BY <2>1, <2>3 DEF TracedBy
  <1>5. ASSUME worker[t].pc = "pull", NEW x \in {"record", "fail"},
               forge' = [forge EXCEPT ![t] = WithPull(@)], worker' = Go(t, x)
        PROVE  TracedBy(t)
    <2>1. /\ MovedTo(worker[t], worker'[t], x)
          /\ \A z \in Tasks : z # t => SameTask(z)
          /\ forge'[t] = WithPull(forge[t])
      BY <1>0, <1>5, GoMoves, TraceFacts DEF SameTask
    <2>2. /\ forge'[t].branch = forge[t].branch /\ forge'[t].answers = forge[t].answers
          /\ forge'[t].pull # "none" /\ forge'[t].opened = 1
          /\ forge[t].pull # "none" => forge'[t].pull = forge[t].pull
      BY <1>2, <2>1, ForkFields, TraceFacts
    <2>3. TaskTraced(t)'
      BY <1>0, <1>1, <1>2, <1>5, <2>1, <2>2, TraceFacts DEF TaskTraced, Traced, RunsBelong,
         ReportKept, CommitTraced, PullTraced, AnswersTraced, MovedTo
    <2> QED BY <2>1, <2>3 DEF TracedBy
  <1> QED BY <1>3, <1>4, <1>5 DEF ForgePush, ForgePull, At

\* _awaiting_review shows the pull request to a human.
LEMMA AwaitingTraces ==
    ASSUME TraceInv, NEW t \in Tasks, awaiting_review(t)
    PROVE  TracedBy(t)
  <1>0. worker[t].pc = "record" /\ UNCHANGED <<agent, git, forge, fb, probe>> /\ "fail" \in Quiet
    BY DEF awaiting_review, At, worldVars, Quiet
  <1>1. CASE worker' = Leave(t) /\ row' = row
    BY <1>0, <1>1, GiveUp
  <1>2. CASE /\ row' = [row EXCEPT ![t] =
                 [Released(@, IF @.status = "cancelling" THEN "cancelled"
                              ELSE "awaiting_human_review", "none")
                     EXCEPT !.pr = TRUE]]
             /\ worker' = Go(t, "notify")
    <2>1. /\ MovedTo(worker[t], worker'[t], "notify")
          /\ \A z \in Tasks : z # t => SameTask(z)
      BY <1>0, <1>2, GoMoves, TraceFacts DEF SameTask
    <2> DEFINE s == IF row[t].status = "cancelling" THEN "cancelled" ELSE "awaiting_human_review"
    <2>2. row'[t] = [Released(row[t], s, "none") EXCEPT !.pr = TRUE]
      BY <1>2, TraceFacts
    <2>3. s \in {"cancelled", "awaiting_human_review"}
      OBVIOUS
    <2> HIDE DEF s
    <2>4. /\ row'[t].status = s /\ row'[t].code = "none" /\ row'[t].claim = NoClaim
          /\ row'[t].commit = row[t].commit /\ row'[t].prepared = row[t].prepared
          /\ row'[t].pr
      BY <2>2, TraceFacts DEF Released, Row
    <2>5. agent[t].running = {}
      BY <1>0, TraceFacts, NoRuns
    <2>6. TaskTraced(t)'
      BY <1>0, <2>1, <2>3, <2>4, <2>5, TraceFacts DEF TaskTraced, Traced, RunsBelong,
         ReportKept, CommitTraced, PullTraced, AnswersTraced, MovedTo
    <2> QED BY <2>1, <2>6 DEF TracedBy
  <1> QED BY <1>1, <1>2 DEF awaiting_review

LEMMA NotifyTraces ==
    ASSUME TraceInv, NEW t \in Tasks, Notify(t)
    PROVE  TracedBy(t)
  <1>1. /\ worker[t].pc = "notify" /\ UNCHANGED <<row, agent, git, forge, probe>>
        /\ worker'[t] = IdleWorker /\ fb'[t] = mark_feedback_processed(t)
        /\ \A z \in Tasks : z # t => SameTask(z)
    BY GoMoves, TraceFacts DEF Notify, At, worldVars, SameTask
  <1>2. \A f \in Feedback : fb'[t][f] = "processed" => f \in forge[t].answers
    BY <1>1, TraceFacts DEF mark_feedback_processed, Traced, AnswersTraced
  <1>3. Traced(row[t], IdleWorker, agent[t], git[t], forge[t], fb[t], probe[t])
    BY TraceFacts, Rests
  <1>4. TaskTraced(t)'
    BY <1>1, <1>2, <1>3 DEF TaskTraced, Traced, AnswersTraced
  <1> QED BY <1>1, <1>4 DEF TracedBy

\* A worker that ends its execution otherwise.
LEMMA EndTraces ==
    ASSUME TraceInv, NEW t \in Tasks, Fail(t) \/ manual_intervention(t) \/ mark_cancelled(t)
    PROVE  TracedBy(t)
  <1>0. /\ worker[t].pc \in {"fail", "manual", "cancelled"} /\ worker' = Leave(t)
        /\ UNCHANGED <<agent, git, forge, fb, probe>> /\ "fail" \in Quiet
    BY DEF Fail, manual_intervention, mark_cancelled, At, worldVars, Quiet
  <1>1. CASE row' = row
    BY <1>0, <1>1, GiveUp
  <1>2. ASSUME NEW s \in {"cancelled", "failed", "manual_intervention"},
               NEW c, c \in {row[t].code, "error", "developer_report_invalid"},
               row' = [row EXCEPT ![t] = Released(@, s, c)]
        PROVE  TracedBy(t)
    <2>1. /\ worker'[t] = IdleWorker /\ row'[t] = Released(row[t], s, c)
          /\ \A z \in Tasks : z # t => SameTask(z)
      BY <1>0, <1>2, GoMoves, TraceFacts DEF SameTask
    <2>2. agent[t].running = {}
      BY <1>0, TraceFacts, NoRuns
    <2>3. c = "publish_existing" => row[t].prepared /\ row[t].commit # 0
      BY <1>2, TraceFacts DEF Traced, ReportKept
    <2>4. s \notin Shown
      BY <1>2 DEF Shown
    <2>5. Traced(row'[t], worker[t], agent[t], git[t], forge[t], fb[t], probe[t])
      BY <2>1, <2>2, <2>3, <2>4, TraceFacts, Releases
    <2>6. TaskTraced(t)'
      BY <1>0, <2>1, <2>5, Rests DEF TaskTraced
    <2> QED BY <2>1, <2>6 DEF TracedBy
  <1> QED BY <1>0, <1>1, <1>2 DEF Fail, manual_intervention, mark_cancelled

\* Shutdown cancels a worker at its await; what a thread still does to the
\* workspace or the fork of its task, it does to a row nobody is shown.
LEMMA InterruptTraces ==
    ASSUME TraceInv, NEW t \in Tasks, Interrupt(t)
    PROVE  TracedBy(t)
  <1>0. /\ worker[t].pc \notin {"idle", "notify"} /\ worker' = Leave(t)
        /\ UNCHANGED <<fb, probe>>
    BY DEF Interrupt, AwaitPcs
  <1>1. /\ worker'[t] = IdleWorker
        /\ \A z \in Tasks : z # t => SameTask(z)
    <2>1. \A z \in Tasks : z # t => row'[z] = row[z] /\ agent'[z] = agent[z]
      BY TraceFacts DEF Interrupt
    <2>2. \A z \in Tasks : z # t => git'[z] = git[z] /\ forge'[z] = forge[z]
      BY TraceFacts DEF Interrupt, worldVars
    <2> QED BY <1>0, <2>1, <2>2, GoMoves DEF SameTask
  <1>2. agent'[t].running = {} /\ agent'[t].report = agent[t].report
    <2>1. CASE worker[t].pc \in {"develop", "review", "revise"}
      BY <2>1, TraceFacts DEF Interrupt, AgentRuns
    <2>2. CASE worker[t].pc \notin {"develop", "review", "revise"}
      <3>1. agent[t].running = {}
        BY <1>0, <2>2, TraceFacts, NoRuns
      <3> QED BY <2>2, <3>1, TraceFacts DEF Interrupt, AgentRuns
    <2> QED BY <2>1, <2>2
  <1>3. row[t].status \notin Shown
    BY <1>0, TraceFacts DEF Traced, CommitTraced, Shown
  <1>4. Traced(row[t], IdleWorker, agent'[t], git[t], forge[t], fb[t], probe[t])
    <2>1. Traced(row[t], IdleWorker, agent[t], git[t], forge[t], fb[t], probe[t])
      BY TraceFacts, Rests
    <2> QED BY <1>2, <2>1 DEF Traced, RunsBelong, ReportKept, IdleWorker
  <1>5. /\ Traced(row'[t], IdleWorker, agent'[t], git[t], forge[t], fb[t], probe[t])
        /\ row'[t].status \notin Shown
    <2>1. CASE row' = row
      BY <1>3, <1>4, <2>1
    <2>2. ASSUME NEW s \in {"cancelled", "manual_intervention"},
                 NEW c, c \in {row[t].code, "worker_interrupted"},
                 row' = [row EXCEPT ![t] = Released(@, s, c)]
          PROVE  /\ Traced(row'[t], IdleWorker, agent'[t], git[t], forge[t], fb[t], probe[t])
                 /\ row'[t].status \notin Shown
      <3>1. row'[t] = Released(row[t], s, c)
        BY <2>2, TraceFacts
      <3>2. c = "publish_existing" => row[t].prepared /\ row[t].commit # 0
        BY <2>2, TraceFacts DEF Traced, ReportKept
      <3>3. s \notin Shown /\ row'[t].status = s
        BY <2>2, <3>1, ReleasedFields, TraceFacts DEF Shown
      <3>4. IdleWorker.pc = "idle"
        BY DEF IdleWorker
      <3>5. Traced(Released(row[t], s, c), IdleWorker, agent'[t], git[t], forge[t], fb[t],
                   probe[t])
        BY <1>2, <1>4, <3>2, <3>3, <3>4, TraceFacts, Releases
      <3> QED BY <3>1, <3>3, <3>5
    <2> QED BY <2>1, <2>2 DEF Interrupt
  <1>6. /\ forge[t].pull = "none" => forge[t].opened = 0
        /\ forge[t].pull # "none" => forge[t].opened = 1
        /\ forge[t].answers \subseteq git[t].answers
    BY TraceFacts DEF Traced, PullTraced, AnswersTraced
  <1>7. Traced(row'[t], IdleWorker, agent'[t], git'[t], forge'[t], fb[t], probe[t])
    <2>1. CASE UNCHANGED worldVars
      BY <1>5, <2>1 DEF worldVars
    <2>2. CASE git' = [git EXCEPT ![t] = Committed(t)] /\ forge' = forge
      <3>1. git[t].answers \subseteq git'[t].answers
        BY <2>2, CommittedFields, TraceFacts
      <3> QED BY <1>5, <2>2, <3>1 DEF Traced, AnswersTraced, CommitTraced, IdleWorker
    <2>3. ASSUME NEW k \in {Pushed(t), WithPull(Pushed(t)), WithPull(forge[t])},
                 forge' = [forge EXCEPT ![t] = k], git' = git
          PROVE  Traced(row'[t], IdleWorker, agent'[t], git'[t], forge'[t], fb[t], probe[t])
      <3>1. forge'[t] = k
        BY <2>3, TraceFacts
      <3>2. /\ Pushed(t) \in Fork /\ Pushed(t).answers = git[t].answers
            /\ Pushed(t).pull = forge[t].pull /\ Pushed(t).opened = forge[t].opened
            /\ WithPull(forge[t]).pull # "none" /\ WithPull(forge[t]).opened = 1
            /\ WithPull(forge[t]).answers = forge[t].answers
            /\ forge[t].pull # "none" => WithPull(forge[t]).pull = forge[t].pull
        BY <1>6, ForkFields, TraceFacts
      <3>3. /\ WithPull(Pushed(t)).pull # "none" /\ WithPull(Pushed(t)).opened = 1
            /\ WithPull(Pushed(t)).answers = git[t].answers
            /\ forge[t].pull # "none" => WithPull(Pushed(t)).pull = forge[t].pull
        BY <1>6, <3>2, ForkFields
      <3>4. /\ forge[t].answers \subseteq k.answers /\ k.answers \subseteq git[t].answers
            /\ k.pull = "none" => k.opened = 0
            /\ k.pull # "none" => k.opened = 1
            /\ forge[t].pull # "none" => k.pull = forge[t].pull
        BY <1>6, <2>3, <3>2, <3>3
      <3>5. IdleWorker.pc = "idle"
        BY DEF IdleWorker
      <3>6. Traced(row'[t], IdleWorker, agent'[t], git[t], k, fb[t], probe[t])
        BY <1>5, <3>4, <3>5, ForkTraces
      <3> QED BY <2>3, <3>1, <3>6
    <2>4. CASE \E f \in {Pushed(t), WithPull(Pushed(t))} :
                  forge' = [forge EXCEPT ![t] = f] /\ git' = git
      BY <2>3, <2>4
    <2>5. CASE forge' = [forge EXCEPT ![t] = WithPull(@)] /\ git' = git
      BY <2>3, <2>5
    <2> QED BY <2>1, <2>2, <2>4, <2>5 DEF Interrupt
  <1>8. TaskTraced(t)'
    BY <1>0, <1>1, <1>7 DEF TaskTraced
  <1> QED BY <1>1, <1>8 DEF TracedBy

\* Every step keeps every task traced.
LEMMA NextTraces ==
    ASSUME TraceInv, [Next]_vars, NEW y \in Tasks
    PROVE  TaskTraced(y)'
  <1>1. ASSUME NEW t \in Tasks, WorkerStep(t) PROVE TaskTraced(y)'
    <2>1. {"developer_working", "developer_revising"} \cap Shown = {}
      BY DEF Shown
    <2>2. TracedBy(t)
      <3>1. StageBegin(t, "to_develop", "developer_working", "develop") => TracedBy(t)
        BY <2>1, StageBeginTraces
      <3>2. StageBegin(t, "to_revise", "developer_revising", "revise") => TracedBy(t)
        BY <2>1, StageBeginTraces
      <3>3. StageEnd(t, "develop", "review") \/ StageEnd(t, "revise", "seal") => TracedBy(t)
        BY StageEndTraces
      <3> QED BY <1>1, <3>1, <3>2, <3>3, BeginTraces, PrepareTraces, CheckTraces,
             ReviewBeginTraces, ReviewEndTraces, SealTraces, RecordTraces, PublishTraces,
             AwaitingTraces, NotifyTraces, EndTraces, InterruptTraces
          DEF WorkerStep
    <2> QED BY <2>2, TracedAlone DEF TracedBy
  <1>2. ASSUME NEW u \in Users, toggle_user(u) PROVE TaskTraced(y)'
    <2> DEFINE hit == {t \in Tasks : active[u] /\ Owner[t] = u /\ Cancellable(t)}
    <2>1. /\ row' = [t \in Tasks |-> IF t \in hit
                                     THEN [row[t] EXCEPT !.status = CancelTarget(row[t])]
                                     ELSE row[t]]
          /\ worker' = Signalled(hit)
          /\ UNCHANGED <<agent, git, forge, fb, probe>>
      BY <1>2 DEF toggle_user, worldVars
    <2>2. hit \in SUBSET Tasks
      OBVIOUS
    <2> HIDE DEF hit
    <2> QED BY <2>1, <2>2, CancelTraces
  <1>3. CASE Crash
    <2>1. /\ worker'[y] = IdleWorker /\ probe'[y] = "none"
          /\ UNCHANGED <<row, agent, git, forge, fb>>
      BY <1>3 DEF Crash, dbVars, worldVars
    <2>2. Traced(row[y], IdleWorker, agent[y], git[y], forge[y], fb[y], probe[y])
      BY TraceFacts, Rests
    <2> QED BY <2>1, <2>2 DEF TaskTraced, Traced, PullTraced
  <1>4. CASE Stop
    <2>1. probe'[y] = "none" /\ UNCHANGED <<row, worker, agent, git, forge, fb>>
      BY <1>4 DEF Stop, dbVars, worldVars
    <2> QED BY <2>1, TraceFacts DEF TaskTraced, Traced, PullTraced
  <1>5. CASE StopDone \/ UNCHANGED vars
    BY <1>5, TracedAlone DEF StopDone, SameTask, vars, dbVars, worldVars
  <1>6. ASSUME NEW i \in Issues, Triage(i) PROVE TaskTraced(y)'
    BY <1>6, TracedAlone
    DEF Triage, ReadIgnore, ignore, ReadRestore, restore, SameTask, dbVars, worldVars
  <1>7. CASE Tick \/ Start
    BY <1>7, RecoverTraces DEF Tick, TickBegin, Start, worldVars
  <1> QED BY <1>1, <1>2, <1>3, <1>4, <1>5, <1>6, <1>7, CommandTraces, PullTraces, ClaimTraces,
         LeaseTraces
      DEF Next

LEMMA TraceInit == Init => TraceInv
  <1> SUFFICES ASSUME Init PROVE TraceInv
    OBVIOUS
  <1>1. ClaimInv
    BY ClaimInit
  <1>2. ASSUME NEW t \in Tasks PROVE TaskTraced(t)
    <2>1. /\ row[t].status = Absent /\ row[t].code = "none" /\ row[t].commit = 0
          /\ worker[t] = IdleWorker /\ agent[t].running = {} /\ probe[t] = "none"
          /\ forge[t].pull = "none" /\ forge[t].opened = 0 /\ forge[t].answers = {}
          /\ \A f \in Feedback : fb[t][f] = "absent"
      BY DEF Init
    <2> QED BY <2>1 DEF TaskTraced, Traced, RunsBelong, ReportKept, CommitTraced, PullTraced,
           AnswersTraced, IdleWorker, Absent
  <1> QED BY <1>1, <1>2 DEF TraceInv

LEMMA TraceInvariant == Spec => []TraceInv
  <1>1. TraceInv /\ [Next]_vars => TraceInv'
    BY ClaimNext, NextTraces DEF TraceInv
  <1> QED BY <1>1, TraceInit, PTL DEF Spec

-----------------------------------------------------------------------------
\* Crash, shutdown, cancellation and recovery leave no agent run open without
\* a claim, for any number of tasks and claims.
THEOREM RunsAreClosed == Spec => []NoOrphanRun
  <1>1. TraceInv => NoOrphanRun
    BY TraceFacts DEF NoOrphanRun, Traced, RunsBelong
  <1> QED BY <1>1, TraceInvariant, PTL

\* What the task table says of a pull request is true of the forge: the branch
\* holds the recorded commit, one pull request was opened, a requeued
\* publication is complete, a processed comment is answered on the branch, and
\* a completed task is merged.
THEOREM PublicationsAreSound == Spec => []PublicationIsSound
  <1>1. TraceInv => PublicationIsSound
    <2> SUFFICES ASSUME TraceInv PROVE PublicationIsSound
      OBVIOUS
    <2>1. AwaitingReviewIsPublished
      BY TraceFacts DEF AwaitingReviewIsPublished, Traced, CommitTraced
    <2>2. OnePullRequest
      BY TraceFacts DEF OnePullRequest, Traced, PullTraced
    <2>3. ExistingPublishIsComplete
      BY TraceFacts DEF ExistingPublishIsComplete, Traced, ReportKept
    <2>4. ProcessedIsPublished
      BY TraceFacts DEF ProcessedIsPublished, Traced, AnswersTraced
    <2>5. CompletedIsMerged
      BY TraceFacts DEF CompletedIsMerged, Traced, PullTraced
    <2> QED BY <2>1, <2>2, <2>3, <2>4, <2>5 DEF PublicationIsSound
  <1> QED BY <1>1, TraceInvariant, PTL

-----------------------------------------------------------------------------
(***************************************************************************)
(* How many tasks run, and how many tasks an issue has.                    *)
(***************************************************************************)
\* A claim is given by the scheduler only, a commit is recorded while sealing
\* only, only publish-wip queues a task after it ended, and a task with a commit,
\* and a row is created by a dispatch only.
Dispatched(x) == dispatch_issue(x) /\ IndexAllows(x)

RowStep(x) ==
    /\ row'[x].claim \in {row[x].claim, NoClaim} \/ TickClaim(x)
    /\ row'[x].commit = row[x].commit \/ row[x].status = "sealing"
    /\ row[x].status \in {"failed", "manual_intervention"} /\ row'[x].status = "queued"
          => row[x].commit # 0 /\ queue_existing_publish(x)
    /\ row[x].status = Absent => row'[x].status = Absent \/ Dispatched(x)

\* A step that writes only the status of the row, to one that is not queued.
LEMMA StatusRow ==
    ASSUME ClaimInv, NEW x \in Tasks, NEW s, s # "queued",
           row[x].status # Absent, row'[x] = [row[x] EXCEPT !.status = s]
    PROVE  RowStep(x)
  <1>1. row'[x].status = s /\ row'[x].claim = row[x].claim /\ row'[x].commit = row[x].commit
    BY ClaimFacts DEF Row
  <1> QED BY <1>1 DEF RowStep

\* The end of an execution.
LEMMA ReleaseRow ==
    ASSUME ClaimInv, NEW x \in Tasks, NEW s, NEW c, row[x].status \in CLAIMED_STATES,
           row'[x] = Released(row[x], s, c)
    PROVE  RowStep(x)
  <1>1. row'[x].claim = NoClaim /\ row'[x].commit = row[x].commit
    BY ClaimFacts DEF Row, Released
  <1>2. row[x].status \notin {Absent, "failed", "manual_intervention"}
    BY DEF CLAIMED_STATES, RUNNING_TASK_STATES, Absent
  <1> QED BY <1>1, <1>2 DEF RowStep

LEMMA RecoverRow ==
    ASSUME ClaimInv, recover_expired, NEW x \in Tasks
    PROVE  RowStep(x)
  <1>1. CASE ~Recoverable(x)
    BY <1>1 DEF recover_expired, RowStep
  <1>2. CASE Recoverable(x)
    <2>1. row[x].status \in CLAIMED_STATES
      BY <1>2 DEF Recoverable, Running, CLAIMED_STATES
    <2>2. row'[x] = Recovered(row[x])
      BY <1>2 DEF recover_expired
    <2> QED BY <2>1, <2>2, ReleaseRow DEF Recovered
  <1> QED BY <1>1, <1>2

LEMMA CancelRow ==
    ASSUME ClaimInv, NEW x \in Tasks, Cancellable(x),
           row'[x] = [row[x] EXCEPT !.status = CancelTarget(row[x])]
    PROVE  RowStep(x)
  <1>1. row[x].status # Absent /\ CancelTarget(row[x]) # "queued"
    BY DEF Cancellable, Running, RUNNING_TASK_STATES, Absent, CancelTarget
  <1> QED BY <1>1, StatusRow

LEMMA WorkerRow ==
    ASSUME ClaimInv, NEW t \in Tasks, WorkerStep(t)
    PROVE  RowStep(t)
  <1>0. row'[t] = row[t] => RowStep(t)
    BY DEF RowStep
  <1>1. ASSUME worker[t].pc # "idle", Holds(t) PROVE row[t].status \in CLAIMED_STATES
    BY <1>1, ClaimFacts
  <1>2. ASSUME worker[t].pc # "idle", Holds(t), NEW s \in RUNNING_TASK_STATES,
               row' = [row EXCEPT ![t].status = s]
        PROVE  RowStep(t)
    <2>1. row[t].status # Absent /\ s # "queued"
      BY <1>1, <1>2 DEF CLAIMED_STATES, RUNNING_TASK_STATES, Absent
    <2>2. row'[t] = [row[t] EXCEPT !.status = s]
      BY <1>2, ClaimFacts
    <2> QED BY <2>1, <2>2, StatusRow
  <1>3. ASSUME worker[t].pc # "idle", Holds(t), NEW s, NEW c,
               row' = [row EXCEPT ![t] = Released(@, s, c)]
        PROVE  RowStep(t)
    <2>1. row'[t] = Released(row[t], s, c)
      BY <1>3, ClaimFacts
    <2> QED BY <1>1, <1>3, <2>1, ReleaseRow
  <1>4. CASE \/ Begin(t) \/ Check(t) \/ StageEnd(t, "develop", "review")
             \/ StageEnd(t, "revise", "seal") \/ (\E r \in Reviewers : ReviewEnd(t, r))
             \/ Seal(t) \/ Commit(t) \/ ForgePush(t) \/ ForgePull(t) \/ Notify(t)
    BY <1>0, <1>4 DEF Begin, Check, StageEnd, ReviewEnd, Seal, Commit, ForgePush, ForgePull,
       Notify, dbVars
  <1>5. CASE Prepare(t)
    <2>1. CASE row' = row
      BY <1>0, <2>1
    <2>2. CASE row[t].status = "preparing" /\ row' = [row EXCEPT ![t].prepared = TRUE]
      <3>1. row'[t].claim = row[t].claim /\ row'[t].commit = row[t].commit
        BY <2>2, ClaimFacts DEF Row
      <3> QED BY <2>2, <3>1 DEF RowStep, Absent
    <2> QED BY <1>5, <2>1, <2>2 DEF Prepare, set_prepared
  <1>6. ASSUME NEW from \in {"to_develop", "to_revise"},
               NEW s \in {"developer_working", "developer_revising"}, NEW to,
               StageBegin(t, from, s, to)
        PROVE  RowStep(t)
    <2>1. s \in RUNNING_TASK_STATES /\ worker[t].pc # "idle"
      BY <1>6 DEF RUNNING_TASK_STATES, StageBegin, At
    <2> QED BY <1>0, <1>2, <1>6, <2>1 DEF StageBegin
  <1>7. ASSUME NEW r \in Reviewers, ReviewBegin(t, r) PROVE RowStep(t)
    <2>1. "reviewing" \in RUNNING_TASK_STATES /\ worker[t].pc # "idle"
      BY <1>7 DEF RUNNING_TASK_STATES, ReviewBegin, At
    <2> QED BY <1>0, <1>2, <1>7, <2>1 DEF ReviewBegin
  <1>8. CASE SealBegin(t) \/ begin_publication(t)
    <2>1. {"sealing", "publishing"} \subseteq RUNNING_TASK_STATES /\ worker[t].pc # "idle"
      BY <1>8 DEF RUNNING_TASK_STATES, SealBegin, begin_publication, At
    <2> QED BY <1>0, <1>2, <1>8, <2>1 DEF SealBegin, begin_publication
  <1>9. CASE set_commit(t)
    <2>1. CASE row' = row
      BY <1>0, <2>1
    <2>2. CASE row[t].status = "sealing" /\ row' = [row EXCEPT ![t].commit = git[t].head]
      <3>1. row'[t].claim = row[t].claim /\ row'[t].status = row[t].status
        BY <2>2, ClaimFacts DEF Row
      <3> QED BY <2>2, <3>1 DEF RowStep, Absent
    <2> QED BY <1>9, <2>1, <2>2 DEF set_commit
  <1>10. CASE awaiting_review(t)
    <2>0. worker[t].pc # "idle"
      BY <1>10 DEF awaiting_review, At
    <2>1. CASE row' = row
      BY <1>0, <2>1
    <2>2. CASE /\ Holds(t)
               /\ row' = [row EXCEPT ![t] =
                    [Released(@, IF @.status = "cancelling" THEN "cancelled"
                                 ELSE "awaiting_human_review", "none")
                        EXCEPT !.pr = TRUE]]
      <3>1. row'[t].claim = NoClaim /\ row'[t].commit = row[t].commit
        BY <2>2, ClaimFacts DEF Row, Released
      <3>2. row[t].status \notin {Absent, "failed", "manual_intervention"}
        BY <1>1, <2>0, <2>2 DEF CLAIMED_STATES, RUNNING_TASK_STATES, Absent
      <3> QED BY <3>1, <3>2 DEF RowStep
    <2> QED BY <1>10, <2>1, <2>2 DEF awaiting_review
  <1>11. CASE Fail(t) \/ manual_intervention(t) \/ mark_cancelled(t) \/ Interrupt(t)
    <2>1. worker[t].pc # "idle"
      BY <1>11 DEF Fail, manual_intervention, mark_cancelled, Interrupt, At, AwaitPcs
    <2> QED BY <1>0, <1>3, <1>11, <2>1 DEF Fail, manual_intervention, mark_cancelled, Interrupt
  <1> QED BY <1>4, <1>5, <1>6, <1>7, <1>8, <1>9, <1>10, <1>11 DEF WorkerStep

LEMMA WorkerElsewhere ==
    ASSUME ClaimInv, NEW t \in Tasks, WorkerStep(t), NEW x \in Tasks, x # t
    PROVE  row'[x] = row[x]
  BY ClaimFacts DEF WorkerStep, Begin, Check, StageEnd, ReviewEnd, Seal, Commit, ForgePush,
     ForgePull, Notify, dbVars, Prepare, set_prepared, StageBegin, ReviewBegin, SealBegin,
     begin_publication, set_commit, awaiting_review, Fail, manual_intervention, mark_cancelled,
     Interrupt

LEMMA NextRow ==
    ASSUME ClaimInv, [Next]_vars, NEW x \in Tasks
    PROVE  RowStep(x)
  <1>0. row'[x] = row[x] => RowStep(x)
    BY DEF RowStep
  <1>1. ASSUME NEW t \in Tasks, WorkerStep(t) PROVE RowStep(x)
    BY <1>0, <1>1, WorkerRow, WorkerElsewhere
  <1>2. ASSUME NEW t \in Tasks, Command(t) PROVE RowStep(x)
    <2>0. CASE ReadDispatch(t)
      BY <1>0, <2>0 DEF ReadDispatch, dbVars
    <2>1. CASE dispatch_issue(t)
      <3>1. CASE x # t \/ ~IndexAllows(t)
        BY <1>0, <2>1, <3>1, ClaimFacts DEF dispatch_issue
      <3>2. CASE x = t /\ IndexAllows(t)
        <4>1. /\ row[t].status = Absent /\ row'[t].claim = row[t].claim
              /\ row'[t].commit = row[t].commit
          BY <2>1, <3>2, ClaimFacts DEF dispatch_issue, Row
        <4> QED BY <2>1, <3>2, <4>1 DEF RowStep, Dispatched, Absent
      <3> QED BY <3>1, <3>2
    <2>2. CASE request_cancel(t)
      <3>1. CASE x # t
        BY <1>0, <2>2, <3>1, ClaimFacts DEF request_cancel
      <3>2. CASE x = t
        BY <2>2, <3>2, CancelRow, ClaimFacts DEF request_cancel
      <3> QED BY <3>1, <3>2
    <2>3. CASE close(t)
      <3>1. CASE x # t
        BY <1>0, <2>3, <3>1, ClaimFacts DEF close
      <3>2. CASE x = t
        <4>1. row[t].status # Absent /\ row'[t] = [row[t] EXCEPT !.status = "dismissed"]
          BY <2>3, ClaimFacts DEF close, CLOSABLE_TASK_STATUSES, Absent
        <4> QED BY <3>2, <4>1, StatusRow
      <3> QED BY <3>1, <3>2
    <2>4. CASE queue_existing_publish(t)
      <3>1. CASE x # t
        BY <1>0, <2>4, <3>1, ClaimFacts DEF queue_existing_publish
      <3>2. CASE x = t
        <4>1. /\ row[t].status # Absent /\ row'[t].claim = row[t].claim
              /\ row'[t].commit = row[t].commit /\ row[t].commit # 0
          BY <2>4, ClaimFacts DEF queue_existing_publish, Row, Absent
        <4> QED BY <2>4, <3>2, <4>1 DEF RowStep
      <3> QED BY <3>1, <3>2
    <2>5. ASSUME NEW ids \in SUBSET Feedback, queue_feedback_revision(t, ids)
          PROVE  RowStep(x)
      <3>1. CASE x # t
        BY <1>0, <2>5, <3>1, ClaimFacts DEF queue_feedback_revision
      <3>2. CASE x = t
        <4>1. /\ row[t].status = "awaiting_human_review" /\ row'[t].claim = row[t].claim
              /\ row'[t].commit = row[t].commit
          BY <2>5, ClaimFacts DEF queue_feedback_revision, Row
        <4> QED BY <3>2, <4>1 DEF RowStep, Absent
      <3> QED BY <3>1, <3>2
    <2> QED BY <1>2, <2>0, <2>1, <2>2, <2>3, <2>4, <2>5 DEF Command
  <1>3. ASSUME NEW t \in Tasks, PullRequest(t) PROVE RowStep(x)
    <2>1. CASE row' = row
      BY <1>0, <2>1
    <2>2. CASE /\ row[t].status = "awaiting_human_review"
               /\ row' = [row EXCEPT ![t].status = ProbeResult(t)]
      <3>1. CASE x # t
        BY <1>0, <2>2, <3>1, ClaimFacts
      <3>2. CASE x = t
        <4>1. row[t].status # Absent /\ ProbeResult(t) # "queued"
          BY <2>2 DEF Absent, ProbeResult
        <4>2. row'[t] = [row[t] EXCEPT !.status = ProbeResult(t)]
          BY <2>2, ClaimFacts
        <4> QED BY <3>2, <4>1, <4>2, StatusRow
      <3> QED BY <3>1, <3>2
    <2> QED BY <1>3, <2>1, <2>2
        DEF PullRequest, ForgeDecides, PullProbe, pr_status_tick, sync_feedback, dbVars
  <1>4. ASSUME NEW t \in Tasks, LeaseExpires(t) \/ HeartbeatLost(t) PROVE RowStep(x)
    <2>1. /\ row'[x].status = row[x].status /\ row'[x].claim = row[x].claim
          /\ row'[x].commit = row[x].commit
      BY <1>4, ClaimFacts DEF LeaseExpires, HeartbeatLost, dbVars, Row
    <2> QED BY <2>1 DEF RowStep
  <1>5. ASSUME NEW t \in Tasks, TickClaim(t) PROVE RowStep(x)
    <2>1. CASE row' = row
      BY <1>0, <2>1
    <2>2. CASE /\ row[t].status = "queued"
               /\ row' = [row EXCEPT ![t].status = "preparing", ![t].claim = nclaims + 1,
                                     ![t].lease = TRUE]
      <3>1. CASE x # t
        BY <1>0, <2>2, <3>1, ClaimFacts
      <3>2. CASE x = t
        <4>1. row'[t].commit = row[t].commit
          BY <2>2, ClaimFacts DEF Row
        <4> QED BY <1>5, <2>2, <3>2, <4>1 DEF RowStep, Absent
      <3> QED BY <3>1, <3>2
    <2> QED BY <1>5, <2>1, <2>2 DEF TickClaim, claim_queued_task
  <1>6. ASSUME NEW i \in Issues, Triage(i) PROVE RowStep(x)
    BY <1>0, <1>6 DEF Triage, ReadIgnore, ignore, ReadRestore, restore, dbVars
  <1>7. ASSUME NEW u \in Users, toggle_user(u) PROVE RowStep(x)
    <2>1. \/ row'[x] = row[x]
          \/ Cancellable(x) /\ row'[x] = [row[x] EXCEPT !.status = CancelTarget(row[x])]
      BY <1>7 DEF toggle_user
    <2> QED BY <1>0, <2>1, CancelRow
  <1>8. CASE Tick \/ Start
    BY <1>8, RecoverRow DEF Tick, TickBegin, Start
  <1>9. CASE Stop \/ StopDone \/ Crash \/ UNCHANGED vars
    BY <1>0, <1>9 DEF Stop, StopDone, Crash, vars, dbVars
  <1> QED BY <1>1, <1>2, <1>3, <1>4, <1>5, <1>6, <1>7, <1>8, <1>9 DEF Next

\* What a step of TaskLifecycle may do to a task: it runs after the step only
\* if it ran before or is claimed in the step; it becomes alive only by being
\* created, and unfinished also by publish-wip.
LEMMA LifeEffects ==
    ASSUME ClaimInv, [Next]_vars, NEW x \in Tasks
    PROVE  /\ Running(x)' => Running(x) \/ TickClaim(x)
           /\ Alive(x)' => Alive(x) \/ Dispatched(x)
           /\ Unfinished(x)' => Unfinished(x) \/ Dispatched(x) \/ queue_existing_publish(x)
  <1>1. LifeStep(x) /\ RowStep(x)
    BY NextIsClaimStep, NextRow DEF ClaimStep
  <1>2. row[x] \in Row /\ row'[x] \in Row
    <2>1. TypeOK'
      BY NextType DEF ClaimInv
    <2> QED BY <2>1, ClaimFacts DEF TypeOK
  <1>3. row[x].claim \in Nat /\ row'[x].claim \in Nat
    BY <1>2 DEF Row
  <1> DEFINE s == row[x].status
             n == row'[x].status
  <1>4. \/ s = n
        \/ s = Absent /\ n = "queued"
        \/ s = "queued" /\ n = "preparing" /\ row'[x].claim > row[x].claim
        \/ s = "queued" /\ n = "cancelled"
        \/ s \in RUNNING_TASK_STATES
        \/ s = "cancelling" /\ n = "cancelled"
        \/ s = "awaiting_human_review" /\ n \in {"completed", "closed", "queued"}
        \/ s \in {"failed", "manual_intervention"} /\ n = "queued"
        \/ n = "dismissed"
    <2>1. CASE UNCHANGED Lifecycle(x)!vars
      BY <2>1 DEF Lifecycle!vars
    <2>2. CASE Lifecycle(x)!Create
      BY <2>2 DEF Lifecycle!Create, Lifecycle!Absent, Absent
    <2>3. CASE Lifecycle(x)!Claim
      BY <2>3 DEF Lifecycle!Claim
    <2>4. CASE Lifecycle(x)!Advance
      <3>1. s \in RUNNING_TASK_STATES
        BY <2>4 DEF Lifecycle!Advance, Lifecycle!Forward, RUNNING_TASK_STATES
      <3> QED BY <3>1
    <2>5. CASE Lifecycle(x)!RequestCancel
      BY <2>5 DEF Lifecycle!RequestCancel, Lifecycle!RUNNING_TASK_STATES, RUNNING_TASK_STATES
    <2>6. CASE Lifecycle(x)!Release
      BY <2>6 DEF Lifecycle!Release, Lifecycle!RUNNING_TASK_STATES, RUNNING_TASK_STATES
    <2>7. CASE Lifecycle(x)!Decide
      BY <2>7 DEF Lifecycle!Decide
    <2> QED BY <1>1, <2>1, <2>2, <2>3, <2>4, <2>5, <2>6, <2>7 DEF LifeStep, Lifecycle!Next
  <1>5. Running(x)' => Running(x) \/ TickClaim(x)
    <2>1. row'[x].claim > row[x].claim => row'[x].claim \notin {row[x].claim, NoClaim}
      BY <1>3 DEF NoClaim
    <2> QED BY <1>1, <1>4, <2>1 DEF RowStep, Running, RUNNING_TASK_STATES
  <1>6. Unfinished(x)' => Unfinished(x) \/ Dispatched(x) \/ queue_existing_publish(x)
    BY <1>1, <1>4 DEF RowStep, Unfinished, TERMINAL_TASK_STATES, RUNNING_TASK_STATES, Absent
  <1>7. Alive(x)' => Alive(x) \/ Dispatched(x)
    BY <1>1, <1>4 DEF RowStep, Alive, Unfinished, TERMINAL_TASK_STATES, RUNNING_TASK_STATES,
       Absent
  <1> QED BY <1>5, <1>6, <1>7

\* The state of an issue is written by its handlers and by the failure of a
\* task; what was overrun stays known.
LEMMA TriageWriters ==
    ASSUME [Next]_vars
    PROVE  /\ \/ UNCHANGED triage
              \/ \E t \in Tasks : Fail(t) \/ WriteTriage(IssueOf[t], "dispatched")
              \/ \E j \in Issues : WriteTriage(j, "ignored") \/ WriteTriage(j, "discovered")
           /\ overrun \subseteq overrun'
  <1> DEFINE Writers ==
        \/ UNCHANGED triage
        \/ \E t \in Tasks : Fail(t) \/ WriteTriage(IssueOf[t], "dispatched")
        \/ \E j \in Issues : WriteTriage(j, "ignored") \/ WriteTriage(j, "discovered")
  <1>1. ASSUME NEW t \in Tasks, WorkerStep(t) PROVE Writers /\ overrun' = overrun
    BY <1>1 DEF WorkerStep, dbVars, editVars, Begin, Prepare, Check, StageBegin, StageEnd,
       ReviewBegin, ReviewEnd, SealBegin, Seal, Commit, set_commit, begin_publication,
       ForgePush, ForgePull, awaiting_review, Notify, Fail, manual_intervention,
       mark_cancelled, Interrupt
  <1>2. ASSUME NEW t \in Tasks, Command(t) PROVE Writers /\ overrun \subseteq overrun'
    BY <1>2 DEF Command, ReadDispatch, dispatch_issue, WriteTriage, request_cancel, close,
       queue_existing_publish, queue_feedback_revision, dbVars, editVars
  <1>3. ASSUME NEW t \in Tasks, PullRequest(t) PROVE Writers /\ overrun' = overrun
    BY <1>3 DEF PullRequest, ForgeDecides, PullProbe, pr_status_tick, sync_feedback,
       dbVars, editVars
  <1>4. ASSUME NEW t \in Tasks, TickClaim(t) \/ LeaseExpires(t) \/ HeartbeatLost(t)
        PROVE  Writers /\ overrun' = overrun
    BY <1>4 DEF TickClaim, LeaseExpires, HeartbeatLost, dbVars, editVars
  <1>5. ASSUME NEW i \in Issues, Triage(i) PROVE Writers /\ overrun \subseteq overrun'
    BY <1>5 DEF Triage, ReadIgnore, ignore, ReadRestore, restore, WriteTriage, dbVars
  <1>6. ASSUME \/ \E u \in Users : toggle_user(u)
               \/ Tick \/ Stop \/ StopDone \/ Crash \/ Start \/ UNCHANGED vars
        PROVE  Writers /\ overrun' = overrun
    BY <1>6 DEF toggle_user, Tick, TickBegin, Stop, StopDone, Crash, Start, vars, dbVars,
       editVars
  <1> HIDE DEF Writers
  <1>7. Writers /\ overrun \subseteq overrun'
    BY <1>1, <1>2, <1>3, <1>4, <1>5, <1>6 DEF Next
  <1> QED BY <1>7 DEF Writers

\* An issue is handed back only by the failure of its task, when nothing was
\* committed, unless a handler overran it.
LEMMA TriageStep ==
    ASSUME ClaimInv, [Next]_vars, NEW i \in Issues, i \notin overrun',
           triage'[i] # "dispatched", triage[i] = "dispatched"
    PROVE  \E t \in Tasks : IssueOf[t] = i /\ Alive(t) /\ ~Alive(t)'
  <1>0. /\ triage \in [Issues -> TriageStates] /\ \A t \in Tasks : IssueOf[t] \in Issues
    BY WorkflowAssumption DEF ClaimInv, TypeOK
  <1>1. triage' # triage
    BY <1>0
  <1>2. ASSUME NEW j \in Issues, NEW s, WriteTriage(j, s) PROVE FALSE
    BY <1>0, <1>2 DEF WriteTriage
  <1>4. PICK t \in Tasks : Fail(t)
    BY <1>0, <1>1, <1>2, TriageWriters
  <1>5. /\ worker[t].pc # "idle" /\ Holds(t) /\ row[t].commit = 0
        /\ row' = [row EXCEPT ![t] = Released(@, "failed", "error")]
        /\ triage' = [triage EXCEPT ![IssueOf[t]] = "discovered"]
    BY <1>1, <1>4 DEF Fail, At
  <1>6. IssueOf[t] = i
    BY <1>0, <1>5
  <1>7. Alive(t)
    <2>1. row[t].status \in CLAIMED_STATES
      BY <1>5, ClaimFacts
    <2> QED BY <2>1 DEF Alive, Unfinished, CLAIMED_STATES, RUNNING_TASK_STATES,
        TERMINAL_TASK_STATES, Absent
  <1>8. ~Alive(t)'
    <2>1. row'[t].status = "failed" /\ row'[t].commit = 0
      BY <1>5, ClaimFacts DEF Released, Row
    <2> QED BY <2>1 DEF Alive, Unfinished, TERMINAL_TASK_STATES
  <1> QED BY <1>6, <1>7, <1>8

\* A dispatch finds no task of its issue alive and leaves one, unless the issue
\* was dispatched after it had been read; then the issue is overrun.
LEMMA IssueNext == ClaimInv /\ IssueInv /\ [Next]_vars => IssueInv'
  <1> SUFFICES ASSUME ClaimInv, IssueInv, [Next]_vars PROVE IssueInv'
    OBVIOUS
  <1>0. /\ triage \in [Issues -> TriageStates] /\ IssueOf \in [Tasks -> Issues]
        /\ \A t \in Tasks : IssueOf[t] \in Issues
    BY WorkflowAssumption DEF ClaimInv, TypeOK
  <1>1. ASSUME NEW x \in Tasks, Dispatched(x) \/ queue_existing_publish(x),
               NEW y \in Tasks, y # x
        PROVE  row'[y] = row[y] /\ IndexAllows(x)
    BY <1>1, ClaimFacts DEF Dispatched, dispatch_issue, queue_existing_publish
  <1>2. ASSUME NEW x \in Tasks, NEW y \in Tasks, x # y, IssueOf[x] = IssueOf[y],
               Unfinished(x)', Unfinished(y)'
        PROVE  FALSE
    <2>1. ~(Unfinished(x) /\ Unfinished(y))
      BY <1>2 DEF IssueInv, OneTaskPerIssue
    <2>2. CASE ~Unfinished(x)
      <3>1. row'[y] = row[y] /\ IndexAllows(x)
        BY <1>1, <1>2, <2>2, LifeEffects
      <3>2. Unfinished(y)
        BY <1>2, <3>1 DEF Unfinished
      <3> QED BY <1>2, <3>1, <3>2 DEF IndexAllows
    <2>3. CASE ~Unfinished(y)
      <3>1. row'[x] = row[x] /\ IndexAllows(y)
        BY <1>1, <1>2, <2>3, LifeEffects
      <3>2. Unfinished(x)
        BY <1>2, <3>1 DEF Unfinished
      <3> QED BY <1>2, <3>1, <3>2 DEF IndexAllows
    <2> QED BY <2>1, <2>2, <2>3
  <1>3. ASSUME NEW x \in Tasks, Dispatched(x), NEW y \in Tasks, y # x, Alive(y)',
               IssueOf[x] = IssueOf[y]
        PROVE  IssueOf[x] \in overrun'
    <2>1. Alive(y)
      BY <1>1, <1>3 DEF Alive, Unfinished
    <2>2. CASE triage[IssueOf[x]] = "dispatched"
      BY <1>3, <2>2 DEF Dispatched, dispatch_issue, WriteTriage
    <2>3. CASE triage[IssueOf[x]] # "dispatched"
      BY <1>3, <2>1, <2>3, TriageWriters DEF IssueInv
    <2> QED BY <2>2, <2>3
  <1>4. ASSUME NEW x \in Tasks, NEW y \in Tasks, x # y, IssueOf[x] = IssueOf[y],
               Alive(x)', Alive(y)'
        PROVE  IssueOf[y] \in overrun'
    <2>1. CASE Alive(x) /\ Alive(y)
      BY <1>4, <2>1, TriageWriters DEF IssueInv, OneTaskPerIssue
    <2>2. CASE Dispatched(x) \/ Dispatched(y)
      BY <1>3, <1>4, <2>2
    <2> QED BY <1>4, <2>1, <2>2, LifeEffects
  <1>5. OneTaskPerIssue'
    BY <1>2, <1>4 DEF OneTaskPerIssue
  <1>6. ASSUME NEW x \in Tasks, triage'[IssueOf[x]] # "dispatched",
               IssueOf[x] \notin overrun', Alive(x)'
        PROVE  FALSE
    <2>1. CASE Dispatched(x)
      BY <1>0, <1>6, <2>1 DEF Dispatched, dispatch_issue, WriteTriage
    <2>2. CASE Alive(x)
      <3>0. IssueOf[x] \notin overrun
        BY <1>6, TriageWriters
      <3>1. triage[IssueOf[x]] = "dispatched"
        BY <2>2, <3>0 DEF IssueInv
      <3>2. PICK t \in Tasks : IssueOf[t] = IssueOf[x] /\ Alive(t) /\ ~Alive(t)'
        BY <1>0, <1>6, <3>1, TriageStep
      <3>3. t = x
        BY <2>2, <3>0, <3>2 DEF IssueInv, OneTaskPerIssue
      <3> QED BY <1>6, <3>2, <3>3
    <2> QED BY <1>6, <2>1, <2>2, LifeEffects
  <1> QED BY <1>5, <1>6 DEF IssueInv

\* However the handlers of an issue overlap, it never has two unfinished tasks;
\* and it has no second task beside one that publish-wip may bring back to life,
\* whatever fails, is dismissed, requeued or dispatched again, unless a handler
\* wrote over the "dispatched" of the issue after having read another state.
THEOREM IssuesHaveOneTask == Spec => []OneTaskPerIssue
  <1>1. Init => IssueInv
    BY DEF Init, IssueInv, OneTaskPerIssue, Alive, Unfinished, Absent, TERMINAL_TASK_STATES
  <1>2. IssueInv => OneTaskPerIssue
    BY DEF IssueInv
  <1> QED BY <1>1, <1>2, IssueNext, ClaimInvariant, PTL DEF Spec

-----------------------------------------------------------------------------
\* A set that grows by one element at most, and only when there is room, stays
\* within its limit.
LEMMA WithinLimit ==
    ASSUME NEW S, NEW T, NEW x, NEW limit \in Nat, IsFiniteSet(S),
           Cardinality(S) <= limit,
           T \subseteq S \/ (T \subseteq S \cup {x} /\ Cardinality(S) < limit)
    PROVE  Cardinality(T) <= limit
  <1>1. Cardinality(S) \in Nat
    BY FS_CardinalityType
  <1>2. CASE T \subseteq S
    <2>1. IsFiniteSet(T) /\ Cardinality(T) <= Cardinality(S)
      BY <1>2, FS_Subset
    <2>2. Cardinality(T) \in Nat
      BY <2>1, FS_CardinalityType
    <2> QED BY <1>1, <2>1, <2>2
  <1>3. CASE T \subseteq S \cup {x} /\ Cardinality(S) < limit
    <2>1. /\ IsFiniteSet(S \cup {x})
          /\ Cardinality(S \cup {x}) = Cardinality(S) \/ Cardinality(S \cup {x}) = Cardinality(S) + 1
      BY FS_AddElement
    <2>2. IsFiniteSet(T) /\ Cardinality(T) <= Cardinality(S \cup {x})
      BY <1>3, <2>1, FS_Subset
    <2>3. Cardinality(T) \in Nat
      BY <2>2, FS_CardinalityType
    <2> QED BY <1>1, <1>3, <2>1, <2>2, <2>3
  <1> QED BY <1>2, <1>3

\* The UPDATE that claims counts the table itself, so the limits hold although
\* the scheduler counted a snapshot.
LEMMA QuotaNext == ClaimInv /\ QuotaInv /\ [Next]_vars => QuotaInv'
  <1> SUFFICES ASSUME ClaimInv, QuotaInv, [Next]_vars PROVE QuotaInv'
    OBVIOUS
  <1>0. /\ GlobalLimit \in Nat /\ PerUserLimit \in Nat /\ IsFiniteSet(Occupied)
        /\ \A u \in Users : IsFiniteSet(OwnedBy(Occupied, u))
    <2>1. GlobalLimit \in Nat /\ PerUserLimit \in Nat /\ IsFiniteSet(Tasks)
      BY WorkflowAssumption
    <2>2. Occupied \subseteq Tasks /\ \A u \in Users : OwnedBy(Occupied, u) \subseteq Tasks
      BY DEF Occupied, OwnedBy
    <2> QED BY <2>1, <2>2, FS_Subset
  <1>1. CASE \A x \in Tasks : Running(x)' => Running(x)
    <2>1. Occupied' \subseteq Occupied
      BY <1>1 DEF Occupied
    <2>2. \A u \in Users : OwnedBy(Occupied, u)' \subseteq OwnedBy(Occupied, u)
      BY <2>1 DEF OwnedBy
    <2> QED BY <1>0, <2>1, <2>2, WithinLimit DEF QuotaInv
  <1>2. ASSUME NEW x \in Tasks, Running(x)', ~Running(x) PROVE QuotaInv'
    <2>1. TickClaim(x)
      BY <1>2, LifeEffects
    <2>2. row'[x] # row[x]
      BY <1>2 DEF Running
    <2>3. RoomIn(Occupied, x) /\ \A y \in Tasks : y # x => row'[y] = row[y]
      BY <2>1, <2>2, ClaimFacts DEF TickClaim, claim_queued_task
    <2>4. Occupied' \subseteq Occupied \cup {x}
      BY <2>3 DEF Occupied, Running
    <2>5. Cardinality(Occupied') <= GlobalLimit
      BY <1>0, <2>3, <2>4, WithinLimit DEF RoomIn, QuotaInv
    <2>6. ASSUME NEW u \in Users PROVE Cardinality(OwnedBy(Occupied, u)') <= PerUserLimit
      <3>1. CASE Owner[x] = u
        <4>1. OwnedBy(Occupied, u)' \subseteq OwnedBy(Occupied, u) \cup {x}
          BY <2>4 DEF OwnedBy
        <4> QED BY <1>0, <2>3, <3>1, <4>1, WithinLimit DEF RoomIn, QuotaInv
      <3>2. CASE Owner[x] # u
        <4>1. OwnedBy(Occupied, u)' \subseteq OwnedBy(Occupied, u)
          BY <2>4, <3>2 DEF OwnedBy
        <4> QED BY <1>0, <4>1, WithinLimit DEF QuotaInv
      <3> QED BY <3>1, <3>2
    <2> QED BY <2>5, <2>6 DEF QuotaInv
  <1> QED BY <1>1, <1>2

\* The claims in force never exceed the global limit or the limit of a user,
\* for any number of tasks and users.
THEOREM QuotasAreKept == Spec => []QuotaRespected
  <1>1. Init => QuotaInv
    <2> SUFFICES ASSUME Init PROVE QuotaInv
      OBVIOUS
    <2>1. Occupied = {} /\ \A u \in Users : OwnedBy(Occupied, u) = {}
      <3>1. \A t \in Tasks : ~Running(t)
        BY DEF Init, Running, Absent, RUNNING_TASK_STATES
      <3> QED BY <3>1 DEF Occupied, OwnedBy
    <2>2. Cardinality({}) = 0
      BY FS_EmptySet
    <2> QED BY <2>1, <2>2, WorkflowAssumption DEF QuotaInv
  <1>2. ClaimInv /\ QuotaInv => QuotaRespected
    <2> SUFFICES ASSUME ClaimInv, QuotaInv PROVE QuotaRespected
      OBVIOUS
    <2>1. {t \in Tasks : row[t].claim # NoClaim /\ row[t].status # "cancelling"} = Occupied
      BY ClaimFacts DEF Occupied, Running, CLAIMED_STATES, RUNNING_TASK_STATES
    <2> QED BY <2>1 DEF QuotaInv, QuotaRespected
  <1> QED BY <1>1, <1>2, QuotaNext, ClaimInvariant, PTL DEF Spec

=============================================================================
