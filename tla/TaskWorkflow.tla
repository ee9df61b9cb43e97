---------------------------- MODULE TaskWorkflow ----------------------------
(***************************************************************************)
(* The issue-task engine of Coderus: the task table with its claim tokens  *)
(* and leases, the scheduler that recovers and claims, one worker per task *)
(* that drives the agents, git and the forge, the heartbeat thread, the    *)
(* commands of the web console, the poller of pull requests, and shutdown, *)
(* crash and restart of the manager process.                               *)
(*                                                                         *)
(* One action is one database transaction, or one await that ends with a   *)
(* database transaction.  The event loop runs one coroutine at a time: it  *)
(* is busy while the scheduler is between its snapshot and its last claim  *)
(* (batch # {}) and while a worker is between two awaits.  Web handlers    *)
(* and the heartbeat run on threads and interleave everywhere.             *)
(***************************************************************************)
EXTENDS TaskStates, FiniteSets

CONSTANTS Tasks,         \* ids of the tasks that may be created
          Users, Issues,
          Owner,         \* Owner[t]: the user who dispatches t
          IssueOf,       \* IssueOf[t]: the issue t works on
          Rank,          \* Rank[t]: place in (priority desc, created_at, id)
          Feedback,      \* maintainers' comments on a pull request
          GlobalLimit, PerUserLimit,
          MaxClaims,     \* bound: claims in a behaviour
          MaxCrashes,    \* bound: crashes and shutdowns in a behaviour
          MaxEdits       \* bound: issue handlers at work at one time

ASSUME WorkflowAssumption ==
    /\ IsFiniteSet(Tasks)
    /\ Owner \in [Tasks -> Users]
    /\ IssueOf \in [Tasks -> Issues]
    /\ Rank \in [Tasks -> Nat]
    /\ \A s, t \in Tasks : Rank[s] = Rank[t] => s = t
    /\ GlobalLimit \in Nat /\ PerUserLimit \in Nat
    /\ MaxClaims \in Nat /\ MaxCrashes \in Nat /\ MaxEdits \in Nat

VARIABLES
    row,      \* tasks table: status, claim token, lease still live?, failure
              \* code, workspace recorded?, commit_sha, pr_number recorded?
    triage,   \* issues.triage_state
    agent,    \* agent_runs: roles with a "running" row; developer report kept?
    fb,       \* pr_feedback: absent, new, selected or processed
    active,   \* users.is_active
    git,      \* task workspace: HEAD, uncommitted changes?, feedback answered
    forge,    \* fork branch head, pull request state, number ever opened
    worker,   \* the coroutine TaskOrchestrator.run of each task
    batch,    \* scheduler: queued ids of this tick still to be considered
    seen,     \* scheduler: tasks counted as running in this tick
    up,       \* manager process: up, stopping or down
    probe,    \* in-flight get_pr_status of the poller or of sync_feedback
    edit,     \* issue handlers that have read their issue and not yet written
    overrun,  \* history: issues whose "dispatched" such a handler wrote over
    nclaims, ncrashes

dbVars    == <<row, triage, agent, fb, active>>
worldVars == <<git, forge>>
tickVars  == <<batch, seen>>
procVars  == <<up, nclaims, ncrashes>>
editVars  == <<edit, overrun>>
vars      == <<dbVars, worldVars, worker, tickVars, procVars, probe, editVars>>

-----------------------------------------------------------------------------
NoClaim   == 0
Reviewers == {"reviewer_a", "reviewer_b"}
Roles     == Reviewers \cup {"developer"}

Row == [status   : TaskStatus \cup {Absent},
        claim    : Nat,
        lease    : BOOLEAN,
        code     : FailureCode,
        prepared : BOOLEAN,
        commit   : Nat,
        pr       : BOOLEAN]

TriageStates   == {"discovered", "dispatched", "ignored"}
FeedbackStates == {"absent", "new", "selected", "processed"}
PullStates     == {"none", "open", "merged", "closed"}

Edits     == [ignore : SUBSET Issues, restore : SUBSET Issues,
              dispatch : SUBSET Tasks]
NoEdit    == [ignore |-> {}, restore |-> {}, dispatch |-> {}]
AgentRuns == [running : SUBSET Roles, report : BOOLEAN]
Workspace == [head : Nat, dirty : BOOLEAN, answers : SUBSET Feedback]
Fork      == [branch : Nat, answers : SUBSET Feedback,
              pull : PullStates, opened : Nat]

\* Where a worker is: absent, created but not started, suspended at an await,
\* or between two awaits with a transaction to run next.
AwaitPcs == {"prepare", "check", "develop", "review", "revise", "seal",
             "sealing", "committing", "set_commit", "push", "pull", "record"}
Yielded  == AwaitPcs \cup {"idle", "start"}
BusyPcs  == {"to_develop", "to_revise", "publish", "notify",
             "fail", "manual", "cancelled"}
Pcs      == Yielded \cup BusyPcs

Modes == {"fresh", "feedback", "existing"}

Worker == [pc     : Pcs,
           token  : Nat,
           mode   : Modes,
           cancel : BOOLEAN,
           rev    : [Reviewers -> {"todo", "running", "done"}],
           fb     : SUBSET Feedback]

IdleWorker == [pc |-> "idle", token |-> NoClaim, mode |-> "fresh",
               cancel |-> FALSE, rev |-> [r \in Reviewers |-> "todo"], fb |-> {}]

Init ==
    /\ row = [t \in Tasks |-> [status |-> Absent, claim |-> NoClaim,
                               lease |-> FALSE, code |-> "none",
                               prepared |-> FALSE, commit |-> 0, pr |-> FALSE]]
    /\ triage = [i \in Issues |-> "discovered"]
    /\ agent = [t \in Tasks |-> [running |-> {}, report |-> FALSE]]
    /\ fb = [t \in Tasks |-> [f \in Feedback |-> "absent"]]
    /\ active = [u \in Users |-> TRUE]
    /\ git = [t \in Tasks |-> [head |-> 0, dirty |-> FALSE, answers |-> {}]]
    /\ forge = [t \in Tasks |-> [branch |-> 0, answers |-> {},
                                 pull |-> "none", opened |-> 0]]
    /\ worker = [t \in Tasks |-> IdleWorker]
    /\ batch = {} /\ seen = {}
    /\ up = "up"
    /\ nclaims = 0 /\ ncrashes = 0
    /\ probe = [t \in Tasks |-> "none"]
    /\ edit = NoEdit
    /\ overrun = {}

-----------------------------------------------------------------------------
(***************************************************************************)
(* Helpers on the task table.                                              *)
(***************************************************************************)
Running(t)  == row[t].status \in RUNNING_TASK_STATES
Occupied    == {t \in Tasks : Running(t)}
OwnedBy(S, u) == {t \in S : Owner[t] = u}

\* Mutant: the token survives the end of the execution.
BugReleasedKeepsClaim(r, s, c) ==
    [r EXCEPT !.status = s, !.lease = FALSE, !.code = c]

\* The row after an execution ends in status s with failure code c.
Released(r, s, c) ==
    [r EXCEPT !.status = s, !.claim = NoClaim, !.lease = FALSE, !.code = c]

\* TaskLease.renew succeeds: same token, claimed status, lease not run out.
Renewable(t, k) ==
    /\ row[t].claim = k
    /\ row[t].status \in CLAIMED_STATES
    /\ row[t].lease

\* No coroutine other than the workers in S keeps the event loop busy.
LoopFree(S) ==
    /\ batch = {}
    /\ \A t \in Tasks \ S : worker[t].pc \in Yielded

SelectedFeedback(t) == {f \in Feedback : fb[t][f] = "selected"}

-----------------------------------------------------------------------------
(***************************************************************************)
(* Issues and commands of the web console (threads of the web server).     *)
(***************************************************************************)
\* The handlers of an issue select it, and write it at their commit: nothing
\* keeps another connection from writing between the two (a SELECT takes no
\* lock; the UPDATE names the issue by its id alone).
MayRead ==
    /\ up = "up"
    /\ Cardinality(edit.ignore) + Cardinality(edit.restore)
         + Cardinality(edit.dispatch) < MaxEdits

Unfinished(t) == row[t].status \notin TERMINAL_TASK_STATES \cup {Absent}

\* The unique index on issue_id lets t become an unfinished task.
IndexAllows(t) ==
    \A s \in Tasks \ {t} : IssueOf[s] = IssueOf[t] => ~Unfinished(s)

\* The commit of a handler that gives issue i the state s.
WriteTriage(i, s) ==
    /\ triage' = [triage EXCEPT ![i] = s]
    /\ overrun' = IF triage[i] = "dispatched" THEN overrun \cup {i} ELSE overrun

\* dispatch_issue up to its flush: the checks of user, issue and task table.
ReadDispatch(t) ==
    /\ MayRead
    /\ t \notin edit.dispatch
    /\ row[t].status = Absent
    /\ active[Owner[t]]
    /\ triage[IssueOf[t]] = "discovered"
    /\ IndexAllows(t)
    /\ edit' = [edit EXCEPT !.dispatch = @ \cup {t}]
    /\ UNCHANGED <<dbVars, worldVars, worker, tickVars, procVars, probe, overrun>>

\* The flush and the commit: a new row t and the new state of the issue, or an
\* IntegrityError and neither of them.
dispatch_issue(t) ==
    /\ up # "down"
    /\ t \in edit.dispatch
    /\ row[t].status = Absent
    /\ edit' = [edit EXCEPT !.dispatch = @ \ {t}]
    /\ IF IndexAllows(t)
       THEN /\ row' = [row EXCEPT ![t].status = "queued"]
            /\ WriteTriage(IssueOf[t], "dispatched")
       ELSE UNCHANGED <<row, triage, overrun>>
    /\ UNCHANGED <<agent, fb, active, worldVars, worker, tickVars, procVars, probe>>

ReadIgnore(i) ==
    /\ MayRead
    /\ i \notin edit.ignore
    /\ triage[i] = "discovered"
    /\ edit' = [edit EXCEPT !.ignore = @ \cup {i}]
    /\ UNCHANGED <<dbVars, worldVars, worker, tickVars, procVars, probe, overrun>>

ignore(i) ==
    /\ up # "down"
    /\ i \in edit.ignore
    /\ edit' = [edit EXCEPT !.ignore = @ \ {i}]
    /\ WriteTriage(i, "ignored")
    /\ UNCHANGED <<row, agent, fb, active, worldVars, worker, tickVars, procVars, probe>>

ReadRestore(i) ==
    /\ MayRead
    /\ i \notin edit.restore
    /\ triage[i] = "ignored"
    /\ edit' = [edit EXCEPT !.restore = @ \cup {i}]
    /\ UNCHANGED <<dbVars, worldVars, worker, tickVars, procVars, probe, overrun>>

restore(i) ==
    /\ up # "down"
    /\ i \in edit.restore
    /\ edit' = [edit EXCEPT !.restore = @ \ {i}]
    /\ WriteTriage(i, "discovered")
    /\ UNCHANGED <<row, agent, fb, active, worldVars, worker, tickVars, procVars, probe>>

\* Mutant: a misspelt status.
BugCancelTargetTypo(r) ==
    IF r.status = "queued" THEN "canceled" ELSE "cancelling"

\* The status a cancel request gives to a row it may cancel.
CancelTarget(r) ==
    IF r.status = "queued" THEN "cancelled" ELSE "cancelling"

Cancellable(t) == row[t].status = "queued" \/ Running(t)

\* orchestrator.cancel: the event exists only once run() has registered it.
\* Tasks in S that have such a worker see their cancel event set.
Signalled(S) ==
    [t \in Tasks |->
        IF t \in S /\ Running(t) /\ worker[t].pc \notin {"idle", "start"}
        THEN [worker[t] EXCEPT !.cancel = TRUE]
        ELSE worker[t]]

request_cancel(t) ==
    /\ up = "up"
    /\ Cancellable(t)
    /\ row' = [row EXCEPT ![t].status = CancelTarget(row[t])]
    /\ worker' = Signalled({t})
    /\ UNCHANGED <<triage, agent, fb, active, worldVars, tickVars, procVars, probe, editVars>>

\* Deactivating a user cancels every task of theirs that is queued or running.
toggle_user(u) ==
    /\ up = "up"
    /\ active' = [active EXCEPT ![u] = ~@]
    /\ LET hit == {t \in Tasks : active[u] /\ Owner[t] = u /\ Cancellable(t)} IN
       /\ row' = [t \in Tasks |->
                     IF t \in hit THEN [row[t] EXCEPT !.status = CancelTarget(row[t])]
                                  ELSE row[t]]
       /\ worker' = Signalled(hit)
    /\ UNCHANGED <<triage, agent, fb, worldVars, tickVars, procVars, probe, editVars>>

close(t) ==
    /\ up = "up"
    /\ row[t].status \in CLOSABLE_TASK_STATUSES
    /\ row' = [row EXCEPT ![t].status = "dismissed"]
    /\ UNCHANGED <<triage, agent, fb, active, worldVars, worker, tickVars, procVars, probe, editVars>>

\* If the issue has another unfinished task, the unique index fails the commit.
queue_existing_publish(t) ==
    /\ up = "up"
    /\ row[t].status \in {"manual_intervention", "failed"}
    /\ row[t].commit # 0
    /\ row[t].prepared
    /\ IndexAllows(t)
    /\ row' = [row EXCEPT ![t].status = "queued", ![t].code = "publish_existing"]
    /\ UNCHANGED <<triage, agent, fb, active, worldVars, worker, tickVars, procVars, probe, editVars>>

queue_feedback_revision(t, ids) ==
    /\ up = "up"
    /\ row[t].status = "awaiting_human_review"
    /\ ids # {}
    /\ \A f \in ids : fb[t][f] \in {"new", "selected"}
    /\ row' = [row EXCEPT ![t].status = "queued", ![t].code = "pr_feedback_revision"]
    /\ fb' = [fb EXCEPT ![t] = [f \in Feedback |->
                                   IF f \in ids THEN "selected" ELSE fb[t][f]]]
    /\ UNCHANGED <<triage, agent, active, worldVars, worker, tickVars, procVars, probe, editVars>>

-----------------------------------------------------------------------------
(***************************************************************************)
(* The pull request on the forge, and the two readers of its state.        *)
(***************************************************************************)
\* A maintainer merges or closes the open pull request.
ForgeDecides(t, s) ==
    /\ forge[t].pull = "open"
    /\ forge' = [forge EXCEPT ![t].pull = s]
    /\ UNCHANGED <<dbVars, git, worker, tickVars, procVars, probe, editVars>>

\* PRStatusPoller.tick and TaskCommands.sync_feedback select the task, then
\* await the forge; the task may change before the answer is applied.
PullProbe(t) ==
    /\ up = "up" /\ LoopFree({})
    /\ probe[t] = "none"
    /\ row[t].status = "awaiting_human_review"
    /\ row[t].pr
    /\ probe' = [probe EXCEPT ![t] = forge[t].pull]
    /\ UNCHANGED <<dbVars, worldVars, worker, tickVars, procVars, editVars>>

\* What both do with the answer: a CAS from awaiting_human_review.
ProbeResult(t) ==
    CASE probe[t] = "merged" -> "completed"
      [] probe[t] = "closed" -> "closed"
      [] OTHER               -> "awaiting_human_review"

pr_status_tick(t) ==
    /\ up = "up" /\ LoopFree({})
    /\ probe[t] # "none"
    /\ probe' = [probe EXCEPT ![t] = "none"]
    /\ row' = IF row[t].status = "awaiting_human_review"
              THEN [row EXCEPT ![t].status = ProbeResult(t)]
              ELSE row
    /\ UNCHANGED <<triage, agent, fb, active, worldVars, worker, tickVars, procVars, editVars>>

\* The comments of t after listing new: a known comment keeps its selected_at
\* and processed_at.
upsert_pr_feedback(t, new) ==
    [f \in Feedback |-> IF f \in new /\ fb[t][f] = "absent" THEN "new" ELSE fb[t][f]]

\* sync_feedback also upserts the comments it listed.  A conflict writes nothing.
sync_feedback(t, new) ==
    /\ up = "up" /\ LoopFree({})
    /\ probe[t] # "none"
    /\ probe' = [probe EXCEPT ![t] = "none"]
    /\ row[t].status = "awaiting_human_review"
    /\ row' = [row EXCEPT ![t].status = ProbeResult(t)]
    /\ fb' = [fb EXCEPT ![t] = upsert_pr_feedback(t, new)]
    /\ UNCHANGED <<triage, agent, active, worldVars, worker, tickVars, procVars, editVars>>

-----------------------------------------------------------------------------
(***************************************************************************)
(* Lease and heartbeat thread.                                             *)
(***************************************************************************)
\* 120 s pass without a renewal: the process is gone or suspended, or the
\* database refused every renewal.
LeaseExpires(t) ==
    /\ row[t].claim # NoClaim
    /\ row[t].lease
    /\ row' = [row EXCEPT ![t].lease = FALSE]
    /\ UNCHANGED <<triage, agent, fb, active, worldVars, worker, tickVars, procVars, probe, editVars>>

\* heartbeat_loop: a renewal that succeeds changes nothing here; one that is
\* refused makes on_lost set the worker's cancel event.
HeartbeatLost(t) ==
    /\ worker[t].pc \notin {"idle", "start"}
    /\ ~worker[t].cancel
    /\ ~Renewable(t, worker[t].token)
    /\ worker' = [worker EXCEPT ![t].cancel = TRUE]
    /\ UNCHANGED <<dbVars, worldVars, tickVars, procVars, probe, editVars>>

-----------------------------------------------------------------------------
(***************************************************************************)
(* Scheduler.                                                              *)
(***************************************************************************)
\* Mutant: recovery forgets the tasks of a dead process.
BugOnlyCancelling(t) == row[t].status = "cancelling"

Recoverable(t) ==
    \/ row[t].status = "cancelling"
    \/ Running(t) /\ ~row[t].lease

\* Mutant: every interrupted execution goes back to the queue.
BugRequeueAll(r) ==
    IF r.status = "cancelling" THEN Released(r, "cancelled", r.code)
    ELSE Released(r, "queued", "publish_existing")

Recovered(r) ==
    IF r.status = "cancelling" THEN Released(r, "cancelled", r.code)
    ELSE IF r.status = "publishing" /\ r.prepared /\ r.commit # 0
         THEN Released(r, "queued", "publish_existing")
         ELSE Released(r, "manual_intervention", "manager_restarted")

\* Mutant: recovery leaves the agent runs of the task open.
BugRecoverLeavesRuns ==
    /\ row' = [t \in Tasks |-> IF Recoverable(t) THEN Recovered(row[t]) ELSE row[t]]
    /\ UNCHANGED agent

recover_expired ==
    /\ row' = [t \in Tasks |-> IF Recoverable(t) THEN Recovered(row[t]) ELSE row[t]]
    /\ agent' = [t \in Tasks |->
                    IF Recoverable(t) THEN [agent[t] EXCEPT !.running = {}] ELSE agent[t]]

\* tick: recover, then, if the release gate is open, take the snapshot of
\* running tasks and of queued tasks of active users.
TickBegin(gateOpen) ==
    /\ up = "up" /\ LoopFree({})
    /\ recover_expired
    /\ batch' = IF gateOpen
                THEN {t \in Tasks : row'[t].status = "queued" /\ active[Owner[t]]}
                ELSE {}
    /\ seen' = IF batch' = {} THEN {}
               ELSE {t \in Tasks : row'[t].status \in RUNNING_TASK_STATES}
    /\ UNCHANGED <<triage, fb, active, worldVars, worker, procVars, probe, editVars>>

\* Room according to the counts S: the snapshot (can_start_task) or the table
\* as the claiming UPDATE counts it (claim_queued_task).
RoomIn(S, t) ==
    /\ Cardinality(S) < GlobalLimit
    /\ Cardinality(OwnedBy(S, Owner[t])) < PerUserLimit

claim_queued_task(t) ==
    /\ row[t].status = "queued"
    /\ RoomIn(Occupied, t)
    /\ nclaims < MaxClaims

\* Mutant: the scheduler does not look at _running; the worker followed here
\* is the one that was there first.
BugClaimBesideWorker(t) ==
    /\ up = "up"
    /\ t \in batch
    /\ \A s \in batch : Rank[t] <= Rank[s]
    /\ batch' = batch \ {t}
    /\ seen' = {}
    /\ claim_queued_task(t)
    /\ nclaims' = nclaims + 1
    /\ row' = [row EXCEPT ![t].status = "preparing", ![t].claim = nclaims + 1,
                          ![t].lease = TRUE]
    /\ worker' = IF worker[t].pc # "idle" THEN worker
                 ELSE [worker EXCEPT ![t] = [IdleWorker EXCEPT !.pc = "start",
                                                !.token = nclaims + 1]]
    /\ UNCHANGED <<triage, agent, fb, active, worldVars, up, ncrashes, probe, editVars>>

\* tick: the next queued id.  A task whose previous worker is still in
\* _running is skipped even if its row is queued again.
TickClaim(t) ==
    /\ up = "up"
    /\ t \in batch
    /\ \A s \in batch : Rank[t] <= Rank[s]
    /\ batch' = batch \ {t}
    /\ IF worker[t].pc = "idle" /\ RoomIn(seen, t) /\ claim_queued_task(t)
       THEN /\ nclaims' = nclaims + 1
            /\ row' = [row EXCEPT ![t].status = "preparing",
                                  ![t].claim = nclaims + 1,
                                  ![t].lease = TRUE]
            /\ worker' = [worker EXCEPT ![t] = [IdleWorker EXCEPT
                                                  !.pc = "start",
                                                  !.token = nclaims + 1]]
            /\ seen' = IF batch' = {} THEN {} ELSE seen \cup {t}
       ELSE /\ seen' = IF batch' = {} THEN {} ELSE seen
            /\ UNCHANGED <<row, worker, nclaims>>
    /\ UNCHANGED <<triage, agent, fb, active, worldVars, up, ncrashes, probe, editVars>>

-----------------------------------------------------------------------------
(***************************************************************************)
(* TaskOrchestrator.run, one worker per task.                              *)
(***************************************************************************)
\* The event loop may run the worker of t, which is at p.  Once the scheduler
\* has cancelled the workers, an await ends only with CancelledError.
At(t, p) ==
    /\ worker[t].pc = p
    /\ LoopFree({t})
    /\ up = "up" \/ (up = "stopping" /\ p \in BusyPcs)

Go(t, p)  == [worker EXCEPT ![t].pc = p]
Leave(t)  == [worker EXCEPT ![t] = IdleWorker]

\* Mutant: no write of the orchestrator checks the claim token.
BugNoTokenCheck(t) == TRUE

\* The WHERE claim_token = ... of every write of the orchestrator.
Holds(t) == row[t].claim = worker[t].token

\* The error _set_status raises when its CAS changed no row.
SetStatusError(t) ==
    IF ~Holds(t) THEN Leave(t)
    ELSE IF row[t].status \in {"cancelling", "cancelled", "dismissed"}
         THEN Go(t, "cancelled")
         ELSE Go(t, "fail")

\* run: renew, register the cancel event, load the task and pick the pipeline.
Begin(t) ==
    /\ At(t, "start")
    /\ worker' =
         IF ~Renewable(t, worker[t].token) THEN Leave(t)
         ELSE CASE row[t].code = "pr_feedback_revision" ->
                     [worker EXCEPT ![t].mode = "feedback",
                                    ![t].fb = SelectedFeedback(t),
                                    ![t].pc = IF row[t].prepared /\ row[t].pr
                                                 /\ SelectedFeedback(t) # {}
                                              THEN "check" ELSE "fail"]
                [] row[t].code = "publish_existing" ->
                     [worker EXCEPT ![t].mode = "existing",
                                    ![t].pc = IF row[t].prepared
                                              THEN "check" ELSE "fail"]
                [] OTHER -> Go(t, "prepare")
    /\ UNCHANGED <<dbVars, worldVars, tickVars, procVars, probe, editVars>>

\* _set_prepared, under the token and status preparing.
set_prepared(t) ==
    IF Holds(t) /\ row[t].status = "preparing"
    THEN /\ row' = [row EXCEPT ![t].prepared = TRUE]
         /\ worker' = Go(t, "to_develop")
    ELSE worker' = Leave(t) /\ UNCHANGED row

\* git.prepare ends: the clone and the branch are there, or not.
Prepare(t) ==
    /\ At(t, "prepare")
    /\ \/ worker' = Go(t, "fail") /\ UNCHANGED row
       \/ set_prepared(t)
    /\ UNCHANGED <<triage, agent, fb, active, worldVars, tickVars, procVars, probe, editVars>>

\* Mutant: publish_existing skips assert_clean_commit.
BugPublishUnchecked(t) ==
    /\ At(t, "check")
    /\ worker' = IF worker[t].mode = "feedback" THEN Go(t, "to_revise")
                 ELSE IF ~agent[t].report THEN Go(t, "manual")
                 ELSE Go(t, "publish")
    /\ UNCHANGED <<dbVars, worldVars, tickVars, procVars, probe, editVars>>

\* _existing_reports_and_findings finds a developer report on record.
HasReport(t) == agent[t].report

\* assert_clean_commit: HEAD is the recorded commit and nothing is pending.
CleanCommit(t) == git[t].head = row[t].commit /\ ~git[t].dirty

\* The checks of an existing workspace: its branch and, before publishing an
\* existing commit, that a developer report is on record and the tree is clean.
\* Git may fail, or the workspace be on another branch.
Check(t) ==
    /\ At(t, "check")
    /\ \/ worker' = Go(t, "fail")
       \/ worker' = IF worker[t].mode = "feedback" THEN Go(t, "to_revise")
                    ELSE IF ~HasReport(t) THEN Go(t, "manual")
                    ELSE IF CleanCommit(t) THEN Go(t, "publish") ELSE Go(t, "fail")
    /\ UNCHANGED <<dbVars, worldVars, tickVars, procVars, probe, editVars>>

begin_agent_run(t, role) ==
    agent' = [agent EXCEPT ![t].running = @ \cup {role}]

\* AgentStageExecutor.execute for the developer up to the start of the agent:
\* the CAS to status s, then a new agent_runs row.
StageBegin(t, from, s, to) ==
    /\ At(t, from)
    /\ IF Holds(t) /\ row[t].status \in STATUS_EXPECTED(s)
       THEN /\ row' = [row EXCEPT ![t].status = s]
            /\ begin_agent_run(t, "developer")
            /\ worker' = Go(t, to)
       ELSE /\ worker' = SetStatusError(t)
            /\ UNCHANGED <<row, agent>>
    /\ UNCHANGED <<triage, fb, active, worldVars, tickVars, procVars, probe, editVars>>

\* _finish_agent_run touches only a row that is still running: recovery may
\* have marked it interrupted meanwhile.
FinishDeveloper(t, ok) ==
    agent' = [agent EXCEPT ![t] =
                 IF "developer" \in @.running
                 THEN [running |-> @.running \ {"developer"},
                       report  |-> @.report \/ ok]
                 ELSE @]

\* The agent returns: it may or may not have changed files.
StageEnd(t, from, to) ==
    /\ At(t, from)
    /\ \E edited \in BOOLEAN :
         git' = [git EXCEPT ![t].dirty = @ \/ edited]
    /\ \/ /\ FinishDeveloper(t, TRUE)
          /\ worker' = IF worker[t].mode = "feedback" \/ git'[t].dirty
                       THEN Go(t, to) ELSE Go(t, "fail")
       \/ /\ FinishDeveloper(t, FALSE)
          /\ \/ worker' = Go(t, "fail")
             \/ worker' = Go(t, "manual")
             \/ worker[t].cancel /\ worker' = Go(t, "cancelled")
    /\ UNCHANGED <<row, triage, fb, active, forge, tickVars, procVars, probe, editVars>>

\* ReviewCycle.run: both reviewers run in one TaskGroup.  An error of one,
\* a cancellation or a lost claim included, cancels the other and reaches
\* run() as an ExceptionGroup, that is, through _fail.
ReviewBegin(t, r) ==
    /\ At(t, "review")
    /\ worker[t].rev[r] = "todo"
    /\ IF Holds(t) /\ row[t].status \in STATUS_EXPECTED("reviewing")
       THEN /\ row' = [row EXCEPT ![t].status = "reviewing"]
            /\ begin_agent_run(t, r)
            /\ worker' = [worker EXCEPT ![t].rev[r] = "running"]
       ELSE /\ agent' = [agent EXCEPT ![t].running = @ \ Reviewers]
            /\ worker' = Go(t, "fail")
            /\ UNCHANGED row
    /\ UNCHANGED <<triage, fb, active, worldVars, tickVars, procVars, probe, editVars>>

\* Both create_task calls start their coroutine before either agent ends.
ReviewEnd(t, r) ==
    /\ At(t, "review")
    /\ worker[t].rev[r] = "running"
    /\ \A q \in Reviewers : worker[t].rev[q] # "todo"
    /\ \/ /\ agent' = [agent EXCEPT ![t].running = @ \ {r}]
          /\ LET last == \A q \in Reviewers \ {r} : worker[t].rev[q] = "done" IN
             \E findings \in BOOLEAN :
                worker' = [worker EXCEPT
                             ![t].rev[r] = "done",
                             ![t].pc = IF ~last THEN "review"
                                       ELSE IF findings THEN "to_revise" ELSE "seal"]
       \/ /\ agent' = [agent EXCEPT ![t].running = @ \ Reviewers]
          /\ worker' = Go(t, "fail")
    /\ UNCHANGED <<row, triage, fb, active, worldVars, tickVars, procVars, probe, editVars>>

-----------------------------------------------------------------------------
(***************************************************************************)
(* TaskPublication.                                                        *)
(***************************************************************************)
\* finalize: assert_has_changes, then the CAS to sealing.
SealBegin(t) ==
    /\ At(t, "seal")
    /\ IF ~git[t].dirty THEN worker' = Go(t, "fail") /\ UNCHANGED row
       ELSE IF Holds(t) /\ row[t].status \in STATUS_EXPECTED("sealing")
            THEN /\ row' = [row EXCEPT ![t].status = "sealing"]
                 /\ worker' = Go(t, "sealing")
            ELSE worker' = SetStatusError(t) /\ UNCHANGED row
    /\ UNCHANGED <<triage, agent, fb, active, worldVars, tickVars, procVars, probe, editVars>>

\* git.seal within its limits, then _set_sealed.
Seal(t) ==
    /\ At(t, "sealing")
    /\ \/ worker' = Go(t, "fail")
       \/ worker' = IF Holds(t) /\ row[t].status = "sealing"
                    THEN Go(t, "committing") ELSE Leave(t)
    /\ UNCHANGED <<dbVars, worldVars, tickVars, procVars, probe, editVars>>

\* The workspace of t after git commit.
Committed(t) ==
    [git[t] EXCEPT !.head = @ + 1, !.dirty = FALSE, !.answers = @ \cup worker[t].fb]

\* assert_no_secrets, assert_tree, git commit, assert_committed_tree; the last
\* one may fail with the commit made.
Commit(t) ==
    /\ At(t, "committing")
    /\ \/ worker' = Go(t, "fail") /\ UNCHANGED git
       \/ /\ git' = [git EXCEPT ![t] = Committed(t)]
          /\ worker' = Go(t, "set_commit") \/ worker' = Go(t, "fail")
    /\ UNCHANGED <<dbVars, forge, tickVars, procVars, probe, editVars>>

set_commit(t) ==
    /\ At(t, "set_commit")
    /\ IF Holds(t) /\ row[t].status = "sealing"
       THEN /\ row' = [row EXCEPT ![t].commit = git[t].head]
            /\ worker' = Go(t, "publish")
       ELSE worker' = Leave(t) /\ UNCHANGED row
    /\ UNCHANGED <<triage, agent, fb, active, worldVars, tickVars, procVars, probe, editVars>>

\* publish: the forge must be configured, then _begin_publication.
begin_publication(t) ==
    /\ At(t, "publish")
    /\ \/ worker' = Go(t, "fail") /\ UNCHANGED row
       \/ IF Holds(t) /\ row[t].status \in STATUS_EXPECTED("publishing")
          THEN /\ row' = [row EXCEPT ![t].status = "publishing"]
               /\ worker' = Go(t, "push")
          ELSE worker' = Leave(t) /\ UNCHANGED row
    /\ UNCHANGED <<triage, agent, fb, active, worldVars, tickVars, procVars, probe, editVars>>

\* The fork of t after a push of HEAD to its fixed branch.
Pushed(t) ==
    [forge[t] EXCEPT !.branch = git[t].head, !.answers = git[t].answers]

\* The lookup by branch in every state, and a new pull request only if there
\* is none.
WithPull(f) ==
    IF f.pull # "none" THEN f
    ELSE [f EXCEPT !.pull = "open", !.opened = @ + 1]

\* forge.publish: the push, ...
ForgePush(t) ==
    /\ At(t, "push")
    /\ \/ forge' = [forge EXCEPT ![t] = Pushed(t)]
          /\ worker' = Go(t, "pull")
       \/ worker' = Go(t, "fail") /\ UNCHANGED forge
    /\ UNCHANGED <<dbVars, git, tickVars, procVars, probe, editVars>>

\* ... then the pull request.  The answer of the forge may be lost.
ForgePull(t) ==
    /\ At(t, "pull")
    /\ \/ /\ forge' = [forge EXCEPT ![t] = WithPull(@)]
          /\ worker' = Go(t, "record") \/ worker' = Go(t, "fail")
       \/ worker' = Go(t, "fail") /\ UNCHANGED forge
    /\ UNCHANGED <<dbVars, git, tickVars, procVars, probe, editVars>>

awaiting_review(t) ==
    /\ At(t, "record")
    /\ IF Holds(t) /\ row[t].status \in {"publishing", "cancelling"}
       THEN /\ row' = [row EXCEPT ![t] =
                 [Released(@, IF @.status = "cancelling" THEN "cancelled"
                              ELSE "awaiting_human_review", "none")
                     EXCEPT !.pr = TRUE]]
            /\ worker' = Go(t, "notify")
       ELSE worker' = Leave(t) /\ UNCHANGED row
    /\ UNCHANGED <<triage, agent, fb, active, worldVars, tickVars, procVars, probe, editVars>>

\* _mark_feedback_processed looks neither at the claim nor at the status.
mark_feedback_processed(t) ==
    [f \in Feedback |-> IF f \in worker[t].fb /\ fb[t][f] = "selected"
                        THEN "processed" ELSE fb[t][f]]

\* _notify returns; a feedback run then marks its comments processed.  If the
\* message could not be sent, _notify writes failure_summary without a look at
\* the claim: a text for the console that no decision reads, so not modelled.
Notify(t) ==
    /\ At(t, "notify")
    /\ fb' = [fb EXCEPT ![t] = mark_feedback_processed(t)]
    /\ worker' = Leave(t)
    /\ UNCHANGED <<row, triage, agent, active, worldVars, tickVars, procVars, probe, editVars>>

-----------------------------------------------------------------------------
(***************************************************************************)
(* How a worker ends otherwise.                                            *)
(***************************************************************************)
\* Mutant: a failure hands the issue back although a commit may be published.
BugFailAlwaysReopens(t) ==
    /\ At(t, "fail")
    /\ worker' = Leave(t)
    /\ IF ~Holds(t) THEN UNCHANGED <<row, triage>>
       ELSE /\ row' = [row EXCEPT ![t] = Released(@, "failed", "error")]
            /\ triage' = [triage EXCEPT ![IssueOf[t]] = "discovered"]
    /\ UNCHANGED <<agent, fb, active, worldVars, tickVars, procVars, probe, editVars>>

Fail(t) ==
    /\ At(t, "fail")
    /\ worker' = Leave(t)
    /\ IF ~Holds(t) THEN UNCHANGED <<row, triage>>
       ELSE IF row[t].status = "cancelling"
       THEN /\ row' = [row EXCEPT ![t] = Released(@, "cancelled", @.code)]
            /\ UNCHANGED triage
       ELSE /\ row' = [row EXCEPT ![t] = Released(@, "failed", "error")]
            /\ triage' = IF row[t].commit = 0
                         THEN [triage EXCEPT ![IssueOf[t]] = "discovered"]
                         ELSE triage
    /\ UNCHANGED <<agent, fb, active, worldVars, tickVars, procVars, probe, editVars>>

manual_intervention(t) ==
    /\ At(t, "manual")
    /\ worker' = Leave(t)
    /\ row' = IF Holds(t) /\ row[t].status # "cancelling"
              THEN [row EXCEPT ![t] = Released(@, "manual_intervention",
                                               "developer_report_invalid")]
              ELSE row
    /\ UNCHANGED <<triage, agent, fb, active, worldVars, tickVars, procVars, probe, editVars>>

mark_cancelled(t) ==
    /\ At(t, "cancelled")
    /\ worker' = Leave(t)
    /\ row' = IF Holds(t) /\ row[t].status = "cancelling"
              THEN [row EXCEPT ![t] = Released(@, "cancelled", @.code)]
              ELSE row
    /\ UNCHANGED <<triage, agent, fb, active, worldVars, tickVars, procVars, probe, editVars>>

-----------------------------------------------------------------------------
(***************************************************************************)
(* The manager process.                                                    *)
(***************************************************************************)
\* TaskScheduler.stop cancels the loop and every worker ...
Stop ==
    /\ up = "up" /\ LoopFree({})
    /\ ncrashes < MaxCrashes
    /\ ncrashes' = ncrashes + 1
    /\ up' = "stopping"
    /\ probe' = [t \in Tasks |-> "none"]
    /\ UNCHANGED <<dbVars, worldVars, worker, tickVars, nclaims, editVars>>

\* ... which see CancelledError at their await: open agent runs become
\* interrupted and _interrupt hands the task over.  A coroutine that never
\* started leaves its row as it is.  A git commit may have gone through, and
\* the thread that runs forge.publish cannot be cancelled: it may still push
\* and open the pull request.
Interrupt(t) ==
    /\ up = "stopping"
    /\ worker[t].pc \in AwaitPcs \cup {"start"}
    /\ worker' = Leave(t)
    /\ agent' = [agent EXCEPT ![t].running =
                    IF worker[t].pc \in {"develop", "review", "revise"} THEN {} ELSE @]
    /\ row' = IF worker[t].pc = "start" \/ ~Holds(t) THEN row
              ELSE IF row[t].status = "cancelling"
              THEN [row EXCEPT ![t] = Released(@, "cancelled", @.code)]
              ELSE [row EXCEPT ![t] = Released(@, "manual_intervention",
                                               "worker_interrupted")]
    /\ \/ UNCHANGED worldVars
       \/ /\ worker[t].pc = "committing"
          /\ git' = [git EXCEPT ![t] = Committed(t)]
          /\ UNCHANGED forge
       \/ /\ worker[t].pc = "push"
          /\ forge' \in {[forge EXCEPT ![t] = f] : f \in {Pushed(t), WithPull(Pushed(t))}}
          /\ UNCHANGED git
       \/ /\ worker[t].pc = "pull"
          /\ forge' = [forge EXCEPT ![t] = WithPull(@)]
          /\ UNCHANGED git
    /\ UNCHANGED <<triage, fb, active, tickVars, procVars, probe, editVars>>

StopDone ==
    /\ up = "stopping"
    /\ \A t \in Tasks : worker[t].pc = "idle"
    /\ up' = "down"
    /\ edit' = NoEdit
    /\ UNCHANGED <<dbVars, worldVars, worker, tickVars, nclaims, ncrashes, probe, overrun>>

\* The process dies: workers, cancel events, snapshots and requests are gone.
Crash ==
    /\ up # "down"
    /\ ncrashes < MaxCrashes
    /\ ncrashes' = ncrashes + 1
    /\ up' = "down"
    /\ worker' = [t \in Tasks |-> IdleWorker]
    /\ batch' = {} /\ seen' = {}
    /\ probe' = [t \in Tasks |-> "none"]
    /\ edit' = NoEdit
    /\ UNCHANGED <<dbVars, worldVars, nclaims, overrun>>

\* TaskScheduler.start recovers before its loop runs.
Start ==
    /\ up = "down"
    /\ up' = "up"
    /\ recover_expired
    /\ UNCHANGED <<triage, fb, active, worldVars, worker, tickVars, nclaims, ncrashes, probe, editVars>>

-----------------------------------------------------------------------------
Command(t) ==
    \/ ReadDispatch(t) \/ dispatch_issue(t)
    \/ request_cancel(t)
    \/ close(t)
    \/ queue_existing_publish(t)
    \/ \E ids \in SUBSET Feedback : queue_feedback_revision(t, ids)

Triage(i) == ReadIgnore(i) \/ ignore(i) \/ ReadRestore(i) \/ restore(i)

PullRequest(t) ==
    \/ \E s \in {"merged", "closed"} : ForgeDecides(t, s)
    \/ PullProbe(t)
    \/ pr_status_tick(t)
    \/ \E new \in SUBSET Feedback : sync_feedback(t, new)

WorkerStep(t) ==
    \/ Begin(t) \/ Prepare(t) \/ Check(t)
    \/ StageBegin(t, "to_develop", "developer_working", "develop")
    \/ StageBegin(t, "to_revise", "developer_revising", "revise")
    \/ StageEnd(t, "develop", "review")
    \/ StageEnd(t, "revise", "seal")
    \/ \E r \in Reviewers : ReviewBegin(t, r) \/ ReviewEnd(t, r)
    \/ SealBegin(t) \/ Seal(t) \/ Commit(t) \/ set_commit(t)
    \/ begin_publication(t) \/ ForgePush(t) \/ ForgePull(t)
    \/ awaiting_review(t) \/ Notify(t)
    \/ Fail(t) \/ manual_intervention(t) \/ mark_cancelled(t)
    \/ Interrupt(t)

Tick == \E gateOpen \in BOOLEAN : TickBegin(gateOpen)

Next ==
    \/ \E t \in Tasks : Command(t) \/ PullRequest(t) \/ WorkerStep(t)
                        \/ TickClaim(t) \/ LeaseExpires(t) \/ HeartbeatLost(t)
    \/ \E i \in Issues : Triage(i)
    \/ \E u \in Users : toggle_user(u)
    \/ Tick \/ Stop \/ StopDone \/ Crash \/ Start

Spec == Init /\ [][Next]_vars

(***************************************************************************)
(* Fairness.  The event loop serves a coroutine that is ready again and    *)
(* again (the tick sleeps poll_seconds between two rounds); git and forge  *)
(* calls have timeouts; the loop of the scheduler keeps ticking; a lease   *)
(* that nobody renews runs out; the service is restarted.  Nothing is      *)
(* assumed of agents: LocalCodexRunner.run may wait for ever for a process *)
(* whose output passed the limit (see ProcessSupervision), cancelled or    *)
(* not, while the heartbeat renews the lease.                              *)
(***************************************************************************)
\* The worker waits for agents only.
AtAgent(t) ==
    \/ worker[t].pc \in {"develop", "revise"}
    \/ worker[t].pc = "review" /\ \A r \in Reviewers : worker[t].rev[r] # "todo"

Fairness ==
    /\ \A t \in Tasks : /\ SF_vars(WorkerStep(t) /\ ~AtAgent(t))
                        /\ WF_vars(TickClaim(t))
                        /\ WF_vars(LeaseExpires(t) /\ worker[t].pc = "idle")
    /\ WF_vars(Tick) /\ WF_vars(StopDone) /\ WF_vars(Start)

FairSpec == Spec /\ Fairness

-----------------------------------------------------------------------------
(***************************************************************************)
(* Properties.                                                             *)
(***************************************************************************)
\* Every variable keeps its type.
TypeOK ==
    /\ row \in [Tasks -> Row]
    /\ triage \in [Issues -> TriageStates]
    /\ agent \in [Tasks -> AgentRuns]
    /\ fb \in [Tasks -> [Feedback -> FeedbackStates]]
    /\ active \in [Users -> BOOLEAN]
    /\ git \in [Tasks -> Workspace]
    /\ forge \in [Tasks -> Fork]
    /\ worker \in [Tasks -> Worker]
    /\ batch \in SUBSET Tasks /\ seen \in SUBSET Tasks
    /\ up \in {"up", "stopping", "down"}
    /\ nclaims \in Nat /\ ncrashes \in Nat
    /\ probe \in [Tasks -> PullStates]
    /\ edit \in Edits /\ overrun \in SUBSET Issues

\* A row carries a claim token exactly while it is being executed: every path
\* that ends an execution (publication, failure, cancellation, interruption,
\* recovery after a crash) clears the token in the step that leaves, and no
\* command of a user takes a row out of execution with its token still set.
ClaimIffExecuting ==
    \A t \in Tasks : row[t].claim # NoClaim <=> row[t].status \in CLAIMED_STATES

\* A live worker is never confronted with someone else's claim: while its task
\* has a claim, it is the worker's own, although recovery may have taken it
\* away and the task may have been queued again before the worker noticed.
OneHolder ==
    \A t \in Tasks : worker[t].pc # "idle" /\ row[t].claim # NoClaim =>
                        row[t].claim = worker[t].token

\* The claims in force respect both limits, counting by owner, although the
\* scheduler decides from a snapshot that web handlers outdate.
QuotaRespected ==
    LET holding == {t \in Tasks : row[t].claim # NoClaim
                                  /\ row[t].status # "cancelling"}
    IN  /\ Cardinality(holding) <= GlobalLimit
        /\ \A u \in Users : Cardinality(OwnedBy(holding, u)) <= PerUserLimit

\* An issue never has two unfinished tasks, however handlers overlap.  Nor
\* does it have two tasks of which one is unfinished and the other may be brought
\* back to life by publish-wip, with one exception: an issue whose "dispatched"
\* was written over by an ignore, restore or dispatch that had read the issue
\* before may be dispatched again while its old commit can still be published.
Alive(t) ==
    \/ Unfinished(t)
    \/ row[t].status \in {"failed", "manual_intervention"} /\ row[t].commit # 0

OneTaskPerIssue ==
    \A s, t \in Tasks : IssueOf[s] = IssueOf[t] /\ s # t =>
        /\ ~(Unfinished(s) /\ Unfinished(t))
        /\ Alive(s) /\ Alive(t) => IssueOf[t] \in overrun

\* What a human is asked to review is what the task recorded: the pull
\* request exists, its number is stored, and the branch holds exactly the
\* recorded commit, after any number of crashes, retries and recoveries.
AwaitingReviewIsPublished ==
    \A t \in Tasks : row[t].status \in {"awaiting_human_review", "completed"} =>
        /\ row[t].pr
        /\ forge[t].pull # "none"
        /\ row[t].commit # 0
        /\ forge[t].branch = row[t].commit

\* Recovery and retries never open a second pull request for a task.
OnePullRequest == \A t \in Tasks : forge[t].opened <= 1

\* A task queued to publish an existing commit has everything that run needs,
\* so it never ends in "no structured developer report".
ExistingPublishIsComplete ==
    \A t \in Tasks :
        row[t].code = "publish_existing" /\ row[t].status \in {"queued", "preparing"}
            => row[t].prepared /\ row[t].commit # 0 /\ agent[t].report

\* An agent_runs row is "running" only while its task is claimed: crash,
\* shutdown, cancellation and recovery leave none behind.
NoOrphanRun ==
    \A t \in Tasks : agent[t].running # {} => row[t].claim # NoClaim

\* A maintainer's comment is marked processed only once the revision that
\* answers it is on the branch of the pull request.
ProcessedIsPublished ==
    \A t \in Tasks : \A f \in Feedback :
        fb[t][f] = "processed" => f \in forge[t].answers

\* A task is completed only if its pull request is merged, although the
\* answer of the forge is applied after an await.
CompletedIsMerged ==
    \A t \in Tasks : row[t].status = "completed" => forge[t].pull = "merged"

\* What the task table says of a pull request is true of the forge, whatever was
\* retried, recovered, answered or interrupted on the way.
PublicationIsSound ==
    /\ AwaitingReviewIsPublished
    /\ OnePullRequest
    /\ ExistingPublishIsComplete
    /\ ProcessedIsPublished
    /\ CompletedIsMerged

\* A worker that has lost its claim never writes the task row again.
LostWorkerNeverWrites ==
    [][\A t \in Tasks :
          worker[t].pc # "idle" /\ worker[t].token # row[t].claim
              /\ worker'[t] # worker[t] => row'[t] = row[t]]_vars

\* Every task goes through its life as TaskLifecycle promises.  The formula
\* is \A t \in Tasks : Lifecycle(t)!Spec with the quantifier moved inwards.
Lifecycle(t) == INSTANCE TaskLifecycle WITH status <- row[t].status,
                                            claim <- row[t].claim

ImplementsLifecycle ==
    /\ \A t \in Tasks : Lifecycle(t)!Init
    /\ [][\A t \in Tasks : [Lifecycle(t)!Next]_(Lifecycle(t)!vars)]_vars

\* No execution lasts for ever, even if the process died under it, unless an
\* agent never returns: a claimed task comes to rest, or from some time on a
\* worker waits for its agent for good.
ExecutionEnds ==
    \A t \in Tasks : row[t].status \in CLAIMED_STATES
        ~> \/ row[t].status \notin CLAIMED_STATES
           \/ \E s \in Tasks : []AtAgent(s)

=============================================================================
