# Coderus verification project

Coderus turns issues of GitHub and GitCode repositories into pull requests. A
manager process (FastAPI, one event loop, a few threads, one SQLite database)
schedules tasks, runs Codex agents in worker subprocesses, publishes branches
and pull requests, reviews pull requests on request, and talks to its users
through a web console and a Feishu bot. This directory holds TLA+ models of its
core, TLC runs on small instances and TLAPS proofs for all instances.

Source paths below are relative to `src/coderus/`.

## 1. Inventory

| Component | State | Operations | Talks to | Hard behaviour |
|---|---|---|---|---|
| Task engine (`workflow/`, `tasks/`, `application/tasks.py`) | tables `tasks`, `agent_runs`, `pr_feedback`, `issues.triage_state`; workspaces; `_running` | tick: recover, claim; worker: prepare, develop, review, revise, seal, publish; cancel, dismiss, publish-wip, feedback; poll of pull requests; start, stop | slots, forge, notifications, console threads | claims and leases, a cancel request against a publication, crashes between any two steps, snapshots that go stale |
| PR review engine (`pr_review/`) | table `pr_review_tasks`, bare clone and worktree | enqueue, tick, review with retries and rechecks, comment, `/lgtm`, recover | forge, slots, Feishu notices | branches that move, timeouts with the call still running, restart after a side effect |
| Agent slots (`workflow/limited_runner.py`) | an `asyncio.Semaphore` | run, retry | all agent jobs | cancellation at every await, wake-ups with several causes |
| Model proxy and credential broker (`model_proxy/`) | leases by token, usage by task stage | issue, validate, acquire, record, release, revoke | agents, upstream | many exits between acquire and release, tokens that end under a request |
| Feishu commands and outbox (`integrations/feishu/service.py`, `bot.py`) | table `feishu_events` with replies and notices | handle, send, mark, retry, repair at start | task and review engine, gateway | redelivery, two senders, uncertain sends, crash between commit and send |
| Feishu gateway (`integrations/feishu/gateway.py`) | subprocess, queue, generation | relay, restart, stop | bot | stale items of an old process, a full queue, stop against restart |
| Issue synchronisation (`issues/`) | `issues`, `repositories.sync_status`, the cursor | poll, sync, add, toggle | forges, task engine | check-then-act on threads, issues that change while they are listed |
| Runtime (`web/runtime.py`, `runtime_lock.py`) | started services, lock file | start with rollback, stop | everything | one service of several fails to start |
| Local runner, processes (`runner/`, `processes.py`) | agent subprocess | launch, read, time out, terminate | proxy, kernel | termination races, output limits |
| Forges (`forge/`) | none | issues, pulls, comments, git | network | lost answers, pages, retries |
| Review results (`pr_review/result.py`, `models.py`, `workspace.py`, `runner/review_adapter.py`) | none | parse the diff, check evidence and conversion, clip, deduplicate | review engine, runner | boundaries of ranges, findings lost between two stages |
| Release tools (`release_*.py`) | release directories, links | install, switch, roll back | systemd | failure between two steps |
| Web pages, auth, config, assistant, evaluation | sessions, users | forms and views | all | - |

What makes the core correct:

* **Task engine**: a row is claimed exactly while it is executed; a worker that
  lost its claim writes nothing; quotas hold; an issue has one unfinished task; what a
  human is asked to review is what was recorded; no second pull request; no
  comment is marked answered before the answer is on the branch; executions end.
* **PR review engine**: claims end with the review; a completed review is on the
  pull request as recorded; nothing is commented or approved twice; reviews end.
* **Agent slots**: slots are neither made up nor lost; no job queues in vain.
* **Broker**: counts are exact and limits hold; usage of a stage is not shed.
* **Outbox**: a command takes effect at most once and its reply says whether it
  did; what arrives is the stored reply or an apology; what is pending is answered.
* **Forge calls**: success means that it happened; a comment is posted twice only
  by a race; every call ends.
* **Process supervision**: no leader, nobody who holds its pipes and no directory
  is left behind, with named exceptions; a review never rests on output that was
  cut; a supervisor ends.
* **Issue synchronisation**: a row that is out of date is listed again; the mirror
  converges.
* **Feishu gateway**: the health check is not deceived; no child survives a stop;
  service comes back.
* **Review results**: ranges are the changed lines; the comment is the review.

The hazards behind these properties are listed in `PROJECT.json`, each at the
line where it bites, with the properties that would catch it.

## 2. Modules

| Module | Models | Proofs |
|---|---|---|
| `TaskStates` | `tasks/statuses.py` and the failure codes with a meaning | |
| `TaskLifecycle` | abstract specification: the life of one task | |
| `TaskWorkflow` | the task engine | `TaskWorkflow_proofs` |
| `MCTaskWorkflow` | instances of `TaskWorkflow` for TLC | |
| `PRReview` | the PR review engine | `PRReview_proofs` |
| `AgentSlots` | `LimitedRunner` and `retry_agent_operation` | `AgentSlots_proofs` |
| `CredentialBroker` | broker and proxy | `CredentialBroker_proofs` |
| `FeishuOutbox` | commands, replies, notices | `FeishuOutbox_proofs` |
| `FeishuGateway` | websocket child, queue, relay thread, start and stop | `FeishuGateway_proofs` |
| `Forges` | what both models of a forge share: which one it is, the size of its pages | |
| `ForgeCalls` | `publish` and `publish_pr_comment` of both forges, request by request | `Forge_proofs` |
| `ProcessSupervision` | `LocalCodexRunner.run`, `run_process`, `run_process_sync` | `ProcessSupervision_proofs` |
| `IssueSync` | poller, sync button, single additions, both listings | `Forge_proofs` |
| `DiffRanges` | `_parse_changed_ranges` against what `git diff` prints | `PRReview_proofs` |
| `ReviewResults` | extends `DiffRanges`: from the diff to the comment | `PRReview_proofs` |

How they fit together: `TaskWorkflow` and `PRReview` take a forge call for one
step that lands or not, and `ForgeCalls` opens that step (two calls, because the
thread of a worker that lost its claim goes on beside its successor's). Both take
an agent's run for a verdict; `AgentSlots` is the queue before it,
`ProcessSupervision` the run itself, `CredentialBroker` its way to the model.
`PRReview` knows findings as clean, located or unlocated; `ReviewResults` says
which of these a review is. `FeishuGateway` delivers the messages that
`FeishuOutbox` handles.

### TaskWorkflow

`row` is the tasks table, `agent` the agent runs, `fb` the comments, `triage`
the issues, `git` and `forge` the workspace and the fork, `worker[t]` the
coroutine `TaskOrchestrator.run` of a task, `batch` and `seen` the locals of
`TaskScheduler.tick`, `probe[t]` an answer of the forge that has not been
applied, `edit` the console's handlers of issues that have read and not yet
written. Dispatch, ignore and restore are two steps each, a read with its checks
and a commit, because SQLite does not isolate a select from a later update:
`overrun` is the set of issues whose "dispatched" was written over by a handler
that had read another state. The unique index on unfinished tasks is
`IndexAllows`. One action is one transaction, or one await that ends in one. The
event loop runs one coroutine at a time, so a worker between two awaits
(`BusyPcs`) and a tick between its snapshot and its last claim exclude each
other; console handlers and heartbeats are threads and interleave everywhere.

Commits are numbers, comments model values, reports a Boolean. Left out because
nothing decided here depends on them: repository names, `reviewed_tree_sha`,
`publication_key`, the state of an issue at the forge, `repository.enabled`
(read at dispatch), untrusted feedback, the text of errors (also
`failure_summary`, which `_notify` writes without a look at the claim). Deliberate
simplifications:

* the commit of `request_cancel` and the signal it sends are one step. A worker
  that runs in between is one that was not signalled yet, and `cancelling`
  never starts again;
* a forge call that times out has, in the model, either landed or not by then:
  a pull request that lands later is the case in which recovery finds it;
* a probe of a pull request that fails is a probe that was never applied;
* pull requests are not reopened.

### PRReview

One action is one await of `PRReviewOrchestrator.run` with what follows it up to
the next. All reviews are of one pull request, whose branches move (`Push`) and
whose API lags (`ApiCatchesUp`). The agent's output is `clean`, `located`
(findings inside the diff) or `unlocated` (findings that `validate_findings`
drops). `Patches` tells a forge that rewrites a comment with its marker (GitCode)
from one that keeps it (GitHub). The run is about the former; on the latter
`CompletedIsPublished` does not hold (section 3, "Disagreements").

### AgentSlots

`slot[j]` follows the acquire task of a job: queued, granted by the semaphore
but not resumed, held. `ending` and `retrying` are the await inside the finally
block of `run()`. The semaphore hands a slot over at release; its short state
"locked although a slot is free", between a release and the resumption of the
waiter, is part of `granted`. `lost` is a history variable.

### CredentialBroker

Every broker method runs under the lock and is one action. A request is between
`validate`, `acquire`, the upstream and the body; each exit of `proxy_responses`
is an action. Validation of the request (fields, tools, sizes) is accepted or
rejected, output is a number of units with chunks up to `MaxChunk`.

### FeishuOutbox

`relay` and `outbox` are the two threads, `lock` the delivery lock, `event` the
table. A text arrives, does not arrive, or arrives with the answer lost; `told`
records what the user saw. The delay of a retry is abstracted to any
delay. Group messages without a mention are dropped before anything is stored;
help, status, task lists and the assistant change nothing; both are left out,
and so is a `BaseException` other than a crash. `pending_replies` takes 100
replies at a time, more than any run has.

### FeishuGateway

`child` is the process of the current generation, `queue` the multiprocessing
queue all children share: what a feeder thread has not written (`feeder`), what is
in the pipe, the slots a killed child never gives back (`lost`) and the lock it
may die with (`locked`). `relay` is the loop of the relay thread with its
reconnect timer, `manager` the start and the stop of the runtime, `running` the
status the health check reads. A half-written item and a child that outlives its
`join` are not modelled. Two things a reader may not expect: the replacement of a
child that vanished does not reset `reconnect_started_at` (`gateway.py:188`), so
an old timer may end a young child; and a terminated child can use up the queue,
after which no notice of a lost connection gets through.

### ForgeCalls

A call is a sequence of requests. A POST may be answered, refused, lost before or
after it took effect, or be done later (`late`); lists of comments are read page
by page while others write. `raced` and `disturbed` are history variables: the
list a POST relied on was overtaken, the comments changed under a rewrite.
Commits are numbers; payloads are what a call needs of them. GitCode's list of
pull requests always holds one of the same branch name from another fork, which
`_find_pull_request` must not take for its own; GitHub filters its list itself.

### ProcessSupervision

Four supervisors in one module, told apart by `kind`. Output is counted in
chunks. A descendant of the leader holds the pipes, has closed them and lives on
(`silent`), or is gone, and may have left the process group (`away`), where
`killpg` does not reach it. The directories of a run may be made in part
(`partial`), and `rmtree` may fail (`unremoved`). An event and the task that waits for it are two things, so a supervisor
may wake for one cause and miss another. Command lines, environments and Landlock
are left out, and so are Windows branches. `run_process_sync` may return output
that was cut without an error, when a reader passes the limit after the exit was
seen (`processes.py:161`); no property claims otherwise.

### IssueSync

Time is counted in half seconds, because the service keeps fractions and the
forges do not. `sync` holds the locals of the two syncs, whose reads of
`sync_status` are not part of the transaction that sets it. `excused` marks the
known windows named in `StaleIsListedAgain`, `lost` a status that a failed flush
left behind. The forge and the service read one clock: with a service that is
ahead of the forge, a change may lie behind the cursor (`issues/service.py:102`)
until the next full sync. A tick that `can_run` stops, because a release drains
(`issues/poller.py:49`), is a poller that does not tick; fairness assumes that no
drain lasts for ever.

### DiffRanges and ReviewResults

`DiffRanges` prints a diff line by line and lets the parser read each line as it
is printed, so the ranges can be compared with the changed lines at every point.
`SplitLine` is what `str.splitlines` adds. A name is printed as git prints it
(`Printed`): one with a space ends with a tab, which `_parse_diff_path` keeps, so
that the path `r s` becomes another one (`Tabbed`). `ReviewResults` goes on with the lines
of one file: commands as evidence (`RunCommand`), the native review, the
conversion (any single alteration, loss or addition), the schema, location and
the comment. A title stands for priority, title and problem. The parsing of
native text and of fenced JSON in `parse_review_output` is not reached behind the
runner's adapter, which hands on a validated JSON message only, and is left out.

## 3. Runs

All bounds are constants of the configurations. Symmetry is not used. `TaskPairs`
has the state constraint `Pairs` of `MCTaskWorkflow` as well: of three tasks it
explores those of different issues with their claims, or those of one issue with
overlapping handlers, but not both at once.

| Run | Instance | Distinct states | Shows |
|---|---|---|---|
| `TaskOne` | 1 task, 1 comment, 3 claims, 1 crash or stop, fairness | 65 k | claims, publication, agent runs, comments; refinement of `TaskLifecycle`; `ExecutionEnds` |
| `TaskPairs` | 2 tasks of one user on 2 issues, limits 2 and 1, 2 claims; 2 tasks of one issue, 3 handlers at work, 1 claim, 1 crash | 1.2 M | `QuotaRespected`, `OneTaskPerIssue` |
| `PRReview` | 2 reviews, two of: push, halt, lapse; rewriting forge, fairness | 723 k | claims, `CompletedIsPublished`, `OneCommentPerRevision`, `EveryReviewEnds` |
| `AgentSlots` | 3 jobs, 1 slot, 1 retry, fairness | 292 k | slots are conserved, `EveryJobEnds` |
| `CredentialBroker` | 2 tokens, 2 stages, 3 requests, small limits | 782 k | counts, limits, usage |
| `FeishuOutbox` | 2 commands twice, 1 notice, 1 error, 1 fault, 1 crash, fairness | 306 k | effects and replies agree, `PendingIsDelivered` |
| `FeishuGateway` | queue of 3, 2 messages, 3 faults, fairness | 306 k | `ReadyIsServing`, `NoChildAfterStop`, `GatewayRecovers` |
| `ForgeCalls` | 2 calls of a kind, either forge, pages of 2, 3 foreign comments, fairness | 161 k | `PublishedIsReal`, `SecondCommentWasRaced`, `CommentIsShown`, `EveryCallEnds` |
| `ProcessSupervision` | 4 supervisors, 2 processes, limit 1, pipes of 2, 2 cancellations, fairness | 486 k | `NothingIsLeftBehind`, `ReviewIsWhole`, `OnlyHeldPipesHang` |
| `IssueSync` | 2 issues on pages of 1, either forge, 2 disturbances, fairness | 771 k | `StaleIsListedAgain`, `RunningIsSyncing`, `MirrorConverges` |
| `ReviewResults` | files of 3 lines, 2 files, 2 changed lines, a name with a space, 1 cut line, 2 findings | 1.7 M | `RangesAreChanges`, `CommentIsFaithful` |
| `ProcessFlood` | an agent beyond its output limit | - | violated: `OutputLimitEndsRun` |

`TypeOK` is an invariant of the runs `TaskOne` and `CredentialBroker`, where limits
and places depend on it. For the other modules with proofs it is a theorem; it
may be added to any configuration.

Why the bounds are enough for what they are meant to show: three claims let one
task run fresh, be revived or answer comments, and be recovered in between; two
tasks are the smallest number that can compete for an issue or a quota; three handlers of an issue are one of
each kind, or two dispatches and an ignore; three
jobs on one slot give a queue of two and hand-overs; two tokens of one stage are
the smallest case of shared usage, and a quota of two has a first, a last and a
refused request; one crash can fall between any two steps. Two calls are a worker
and its successor, and a page of two is full, partly filled or empty; a limit of
one chunk is kept, met and passed by either reader; pages of one let an issue
move across a page boundary; a queue of three is filled by the reports of one
child and the messages of another; three lines hold a finding that is exact, one
line or two lines too long, or on two ranges.

Deadlock is not checked: every one of these systems may be idle for ever, and
the counters that bound the runs stop it.

### Disagreements between code and documentation

`ProcessFlood` is a run that TLC must find violated; `PROJECT.json` quotes the
lines. An agent that exceeds its output limit is killed, but its run may never end: the reader that passed the limit stops reading, a stream with more left than
its transport takes is paused and never seen to end, and `await process_task`
waits for exactly that, with neither timeout nor cancel event left
(`runner/local.py:562`).

Seven more came up in modelling. The modules have all of these behaviours; the
passing properties are stated so that they do not contradict them.

* A tick recovers every task in status `cancelling`, whatever its lease, so a
  cancel request takes the claim from a worker that is inside `forge.publish`;
  the pull request that then exists is recorded nowhere (`workflow/scheduler.py:54`;
  `docs/architecture.md:12` promises that pull requests are traceable).
* The ignore handler refuses an issue that is not pending ("只有待处理 Issue 可以忽略",
  `application/issues.py:94`), but checks what it has read and writes at its commit.
  A dispatch in between is written over: the issue of a queued task is ignored.
  In the model that takes four steps, `ReadIgnore`, `ReadDispatch`,
  `dispatch_issue`, `ignore`.
* A feedback run marks its comments processed after the task was released to its
  user. Comments selected again in that window are marked by the previous run,
  and the revision just queued fails for lack of comments
  (`workflow/orchestrator.py:282`).
* A review restarted after it published findings may find nothing the second
  time. On GitHub, where an existing comment is kept, the comment with the
  findings stays, `/lgtm` is posted and the row says clean
  (`pr_review/orchestrator.py:283`). `PRReview.cfg` with `Patches = FALSE` shows
  it as a violation of `CompletedIsPublished`.
* `LimitedRunner.run` gives its slot back behind an await of its finally block. A
  cancellation in that await loses the slot until the process restarts
  (`workflow/limited_runner.py:75`); `SlotsConserved` counts such slots as `lost`.
* `_parse_changed_ranges` cuts the diff with `str.splitlines`, which also cuts at
  a form feed or a line separator inside a line. A context line with a form feed
  shifts every later range of its hunk by one (`pr_review/workspace.py:484`;
  `docs/superpowers/plans/2026-07-28-native-codex-pr-review.md:109` asks for exact
  ranges). `RangesAreChanges` and the line part of `CommentIsFaithful` speak of
  diffs in which no line is cut.
* git ends a name that contains a space with a tab, and the parser of the diff
  takes it for a part of the path (`pr_review/workspace.py:533`). The changed lines
  of such a file stand under a path that does not exist, and every finding in it is
  listed as unverified, against the same line of the plan. `RangesAreChanges` says
  so of the path with a space.

The passing properties are also worded around these behaviours,
which a reader may not expect:

* `OneTaskPerIssue` forbids two unfinished tasks outright, which the unique index
  sees to. A second task beside one that can still be revived by publish-wip is
  possible after a handler wrote over the dispatch (`overrun`): ignore reads,
  dispatch commits, ignore commits, the task fails with a commit, the issue is
  restored and dispatched again. publish-wip then meets the index.
* `ExecutionEnds`, `EveryReviewEnds` and `EveryJobEnds` except an agent that never
  returns: its run may hang as in `ProcessFlood`, while the heartbeat renews the
  lease, and keeps its slot.
* `OneCommentPerRevision` is per revision: the marker of a summary contains base
  and head, so a review restarted after its comment on a moved branch comments
  again (`pr_review/result.py:424`).
* `InFlightExact` is per token: a stage that is run again while a request of its
  revoked token is still upstream has two (`model_proxy/broker.py:256`).
* `PendingIsDelivered` excepts a dead outbox thread: `_retry_loop` catches
  nothing, so one database error ends it (`integrations/feishu/bot.py:95`). It
  also excepts a reply that an apology has taken the place of, see below.
* `ToldWhatIsStored` speaks of texts, not of copies: the outbox may send a reply
  between the commit of `handle()` and the relay's own send (`bot.py:78`).
* `ToldWhatIsStored` asks of a reply marked as sent that it or an apology has
  arrived: when `handle()` raises on a second delivery, its
  apology goes out under the same message id and marks the first, still unsent
  reply (`bot.py:71`).
* `StaleIsListedAgain` has four exceptions, each a window of the code: a change in
  the second in which a sync starts, two syncs at once, an issue that vanishes
  from under a listing, and `add_provider_issue` storing an answer older than the
  row (`issues/service.py:76`). `MirrorConverges` shows that full syncs repair
  them all, as long as the loop of the poller lives: a failed flush ends it and
  leaves `sync_status` at `running`.
* `NothingIsLeftBehind` excepts a task that is cancelled again while it cleans up,
  pipes that nobody reads to their end once the output limit was passed, and
  directories that `rmtree` fails to remove, of which the run then raises the
  error. It says nothing of a descendant that has closed its pipes, which may live
  on, and of the first directories of a run that could not make the others
  (`runner/local.py:361`).
* `RangesAreChanges` and `CommentIsFaithful` say of a file whose name has a space
  what the code does: its ranges stand under another path, none of its findings is
  located. A located finding is published once; an unverified one is listed as
  often as the review repeats it (`pr_review/result.py:394`).

### Fairness

* `TaskWorkflow`: weak fairness of the tick and its claims (the loop sleeps and
  comes back), of stop, start and of the expiry of a lease nobody renews; strong
  fairness of a worker's step, because a tick takes the event loop again and
  again and a ready coroutine is still served in turn. Git and forge calls have
  timeouts. There is no fairness of a worker that waits for its agents
  (`AtAgent`), whose run may hang. The assumption that the scheduler's loop keeps ticking is
  one the code does not defend: `TaskScheduler._loop` catches nothing, and a
  busy database ends it (listed among the hazards).
* `PRReview`: weak fairness of the reviewer, except while it waits for its agent,
  the tick, start and the expiry of a lease without a reviewer.
* `AgentSlots`: weak fairness of a job's own steps, deadline included, except the
  end of its agent; none of aborts, cancel events and failures to start.
* `FeishuOutbox`: weak fairness of both threads and of the restart, strong
  fairness of the relay's wait for the lock, which `threading.Lock` grants in
  practice and does not promise. No fairness of errors or crashes, which are
  bounded.
* `ForgeCalls`: weak fairness of a call's requests, which have timeouts; none of
  failures, of the fork appearing or of a late POST.
* `ProcessSupervision`: weak fairness of the supervisor, the readers and the
  clock; none of the processes, which may run, write and hold pipes for ever.
* `IssueSync`: weak fairness of the poller and of a sync's steps; errors are
  bounded.
* `FeishuGateway`: weak fairness of the first connection (answer or error), the
  feeder, the relay, start and stop; strong fairness of the look at the clock that
  finds the reconnect time expired. None of reconnecting.

### Mutants

Every property of a passing run has a mutant of the definition it guards (a
dropped guard, a missing reset, a forgotten case), named `Bug...` before it. TLC
finds the property violated when the mutant takes its place.

## 4. Proofs

Everything here is proved for all values of the constants: any number of tasks,
users, claims, calls, pages, faults and crashes. The assumptions are the ones the
modules name and TLC evaluates in every run: naturals where something is counted,
finite sets of tasks, jobs and requests (`WorkflowAssumption`, `SlotsAssumption`,
`BrokerAssumption`), ranks of tasks that differ, at least one message
(`OutboxAssumption`), a page and a queue that hold something (`PageAssumption`,
`GatewayAssumption`).

Hardly any property is inductive as it stands. Each proof has an invariant that
adds what the code relies on without saying so: where a coroutine or a thread is
when a row, a queue or a list is in a certain state. The invariants were checked
with TLC on the instances of the runs before they were proved.

| Theorem | States | Inductive invariant |
|---|---|---|
| `TypeCorrect` | `TypeOK` of `TaskWorkflow` | itself |
| `ClaimsEndWithExecution` | `ClaimIffExecuting` | `ClaimInv` |
| `ClaimHasOneHolder` | `OneHolder` | `ClaimInv` |
| `LostWorkersAreHarmless` | `LostWorkerNeverWrites`, an action property | `ClaimInv` |
| `WorkflowImplementsLifecycle` | `ImplementsLifecycle`, the refinement | `ClaimInv` |
| `RunsAreClosed` | `NoOrphanRun` | `TraceInv` |
| `PublicationsAreSound` | `PublicationIsSound` | `TraceInv` |
| `IssuesHaveOneTask` | `OneTaskPerIssue` | `IssueInv` |
| `QuotasAreKept` | `QuotaRespected` | `QuotaInv` |
| `ReviewTypes`, `ReviewClaims` | `TypeOK`, `ClaimIffActive` of `PRReview` | `ReviewInv` |
| `LostReviewersAreHarmless` | `LostReviewerNeverWrites`, an action property | `ReviewInv` |
| `NoSecondComment` | `OneCommentPerRevision` | itself, with `ReviewInv` |
| `CompletedReviewsAreShown` | `CompletedIsPublished`, for a forge that rewrites | with `ReviewInv`, `ApprovesPublished` |
| `SlotsAreConserved`, `NobodyQueuesInVain`, `AtMostLimitAgents` | `SlotsConserved`, `QueueIsWaiting`, the limit | `SlotInv` |
| `LimitsAreKept`, `PermitsAreCounted`, `StagesAreMetered` | `TypeOK`, `InFlightExact`, `UsageFollowsLeases` | `BrokerInv` |
| `UsageIsKept` | `UsageOnlyGrows`, an action property | `BrokerInv` |
| `OutboxTypes`, `RepliesTellEffects`, `SentIsAnswered` | `TypeOK`, `ReplyTellsEffect`, `ToldWhatIsStored` | `OutboxInv` |
| `GatewayTypes`, `StopIsFinal`, `ReadyMeansServing` | `TypeOK`, `NoChildAfterStop`, `ReadyIsServing` | `GatewayInv` |
| `SupervisionTypes`, `RunsAreCleanedUp`, `SuccessfulReviewsAreWhole` | `TypeOK`, `NothingIsLeftBehind`, `ReviewIsWhole` | `SupervisionInv` |
| `ForgeTypes`, `SuccessfulPublishesAreReal`, `RetriesLeaveOneComment` | `TypeOK`, `PublishedIsReal`, `SecondCommentWasRaced` | `ForgeInv` |
| `ReportedCommentsAreShown` | `CommentIsShown`, an action property | `ForgeInv` |
| `MirrorTypesHold`, `RunningMeansSyncing`, `StaleIssuesAreListedAgain` | types of `IssueSync` (`MirrorTypes`), `RunningIsSyncing`, `StaleIsListedAgain` | `MirrorInv` |
| `ParsedRangesAreChanges` | `RangesAreChanges` | `ResultInv` |
| `CommentsAreFaithful` | `CommentIsFaithful` | `CommentInv` |

The arguments:

* **Claims of tasks.** `ClaimInv` adds that a live worker has a token that was
  given out (`HasToken`) and that, while a worker holds the claim, the status of
  the row is one its place in the code allows (`PlaceMatchesStatus`): that is what
  makes a conditional update either hit a row in the status it expects or miss it.
  `NextIsClaimStep` shows, action by action, one fact about every task
  (`ClaimStep`) from which the invariants, the action property and the step of the
  refinement follow.
* **Publication of tasks.** `TraceInv` follows one task from its agent runs to the
  row a human reads: an open run belongs to the worker that is at the agent's place
  (`RunsBelong`), the report is kept before there is a commit (`ReportKept`), at
  every place of the worker the row, the workspace and the branch agree as far as
  it has come, whether or not it still holds the claim (`CommitTraced`), one pull
  request was opened (`PullTraced`), and comments are answered in the workspace,
  then on the branch, then marked (`AnswersTraced`). The parts speak of records,
  so that the same few lemmas (a worker that rests, pauses, is released) serve all
  actions.
* **Issues and quotas.** `IssueInv`: an issue that is not "dispatched" has no task
  that is alive or can be revived, unless its dispatch was written over. The index
  is what keeps two stale dispatches, or one and publish-wip, from both landing. `QuotaInv`: only a claim adds to the set of
  running tasks, one at a time, after its guard has counted them.
* **Reviews.** `ReviewInv` says that the reviewer's task is unfinished (`HasTask`)
  and that, while the claim is its own, the row has the revision and the result in
  its hand (`RowFollows`); so a comment it posts or rewrites is the one the row
  will name. `CompletedReviewsAreShown` assumes `Patches`, as the run does: on
  GitHub the property is false (section 3).
* **Slots and permits** are cardinalities, moved by `FS_AddElement` and
  `FS_RemoveElement`; `SlotInv` joins them with the queue, `BrokerInv` adds that a
  token not yet issued has no permits.
* **Outbox.** `OutboxInv`: a closed event has its reply and keeps it
  (`EventsAreWhole`), so the relay and the outbox, which share nothing else, have
  the same text in hand whoever sends first.
* **Gateway.** Feeder and pipe are one line of items. `GatewayInv`: a notice
  "connected" of a child that no longer serves is followed by a later notice of
  the same child (`SaysSo`), unless that notice found the queue full; the relay
  therefore learns of it. What stop relies on is the place of the manager
  (`ManagerKnows`).
* **Supervision.** `SupervisionInv` says where in the supervisor the leader may
  still run (`LeaderKnown`), which directories there are (`DirsKnown`), that
  two readers pass the limit by two chunks at most (`ReadersStop`), and that a
  reader which saw the end of its pipe knows that nobody holds it (`PipesKnown`).
* **Forge calls.** Fork, registration, branch and pull request only grow (`Grew`),
  so what a publish has found stays true (`PublishTraced`). For comments,
  `SearchTraced` says what a call that was not overtaken knows: none of ours on the
  pages it has read, none at all when it posts or its POST is still to be done,
  none but its own when it looks for it. A page that is not full is the last one
  (`LastPage`), because a page behind which there are comments is an interval of
  `PER_PAGE` places; a deletion moves comments by one place and keeps their order
  (`DeletedByAnother`).
* **The mirror.** `MirrorInv`, unless one of the known windows was hit (`excused`):
  an issue whose row is out of date changed after the cursor (`StaleSince`), one sync
  is at work (`OneSync`), and of every issue a sync has the present version in hand,
  or the row has it, or the issue changed after the start, or it is on a page still
  to be read (`IssueKnown`). The last case is what a listing must not lose while the
  list moves: the number of issues before one that does not change never falls, since
  a change moves an issue to the front, and the places of a listing have no gaps, so
  a page that is not full is the last one. Both hold for the order of either forge.
* **Changed ranges.** `DiffInv`, as long as no line is cut: the parser is in the
  file and at the line where git is (`ParserFollows`), the lines git has still to
  print of a file are behind those it has printed (`LinesAhead`), lines are counted
  with their sides (`Counted`), and the ranges under the printed name of a file are
  not empty, do not touch and cover its changed lines (`Ranged`). `WithLineCovers` is the step of `record`;
  it needs the line to be behind all ranges, which is what `LinesAhead` is for: a
  path whose header came twice would break it, and git prints none. `ResultInv`
  takes the ranges of the one path that is kept beyond the end of the diff.
* **The comment.** `CommentInv` follows the review from stage to stage: the types of
  the ranges even after a cut line (`DiffKnown`), evidence that was recognised did
  run (`EvidenceKnown`: a chain that exits with 0 ran its comparison, `EvidenceRan`),
  a native review confirms exactly when it has no findings (`NativeKnown`), and the
  output is the faithful conversion (`OutputKnown`), the only one that
  `validate_conversion` lets through (`AcceptedIsFaithful`). `ClipIs` compares
  `ChangedRanges.clip`, which looks at ranges, with the changed lines themselves:
  ranges that do not touch are apart (`RangesApart`), so changed lines that are one
  block lie in one range (`OneBlock`) and what surrounds them is counted
  (`OneCommon`). `AmongIs` and `UniqueIs` say what the loops over findings keep.

Only model-checked is all liveness (`ExecutionEnds`, `EveryReviewEnds`,
`EveryJobEnds`, `PendingIsDelivered`, `EveryCallEnds`, `OnlyHeldPipesHang`,
`MirrorConverges`, `GatewayRecovers`): fairness and `ENABLED` are out of the prover's reach.

Every other property of a passing run is a theorem. The library's induction
theorems take an operator as a parameter and cannot be used, so what is recursive
here is a function of a place, and what it computes is shown from the least place
at which it would fail (`LeastNatural`, `UpTo`).

## 5. Plan

Next, in this order:

1. `TaskScheduler._loop` ending with an exception, as a step of `TaskWorkflow`.
2. `Runtime`: start with rollback, stop, lock.

## 6. Not modelled

Parts that stay out: the runtime's order of starting and stopping services, the
release tools, landlock and git itself, text (prompts,
reports, pages, comment layout), passwords and sessions (library calls), storage
of credentials (single-step file replacement), the assistant and the evaluation
(read only), the schema (its indexes and transactions appear as guards and
actions), configuration and command line. `PROJECT.json` gives the reason for
each.

## 7. Running

    tlc -workers 2 -config TaskOne.cfg MCTaskWorkflow
    tlapm TaskWorkflow_proofs.tla
