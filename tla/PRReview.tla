------------------------------ MODULE PRReview ------------------------------
(***************************************************************************)
(* The pull-request review engine of Coderus: review tasks asked for by    *)
(* chat users, a scheduler that runs one of them at a time, the reviewer   *)
(* that drives the forge, git and the agent, its lease and heartbeat, and  *)
(* shutdown, crash and restart of the manager process.  All tasks of the   *)
(* model review the same pull request, whose branches move meanwhile.      *)
(*                                                                         *)
(* One action is one await of the reviewer with what it does until the     *)
(* next one: the event loop runs nothing else in between.  The heartbeat,  *)
(* the enqueueing of tasks and the world outside interleave everywhere.    *)
(***************************************************************************)
EXTENDS Naturals, Sequences

CONSTANTS NTasks,        \* bound: reviews asked for
          Patches,       \* does the forge rewrite a comment with its marker?
          UPSTREAM_MAX_RETRIES, AGENT_JOB_ATTEMPTS,
          MaxPushes,     \* bound: pushes to the source and the target branch
          MaxHalts,      \* bound: shutdowns and crashes
          MaxLapses,     \* bound: leases that run out under a live reviewer
          MaxEvents      \* bound: all three together

ASSUME ReviewAssumption ==
    /\ NTasks \in Nat /\ Patches \in BOOLEAN
    /\ UPSTREAM_MAX_RETRIES \in Nat /\ AGENT_JOB_ATTEMPTS \in Nat
    /\ MaxPushes \in Nat /\ MaxHalts \in Nat /\ MaxLapses \in Nat /\ MaxEvents \in Nat

VARIABLES
    row,       \* pr_review_tasks: status, claim, lease, base/head, result, url
    w,         \* the coroutine PRReviewOrchestrator.run, at most one
    comments,  \* summary comments of the service on the pull request
    lgtm,      \* heads the service has posted /lgtm for, one entry per comment
    tip,       \* versions of the target (base) and source (head) branch
    api,       \* what the API of the forge says of them; it may lag
    open,      \* is the pull request open?
    up,        \* is the manager process running?
    nclaims, nhalts, nlapses

worldVars == <<tip, api, open>>
boundVars == <<nhalts, nlapses>>
vars == <<row, w, comments, lgtm, worldVars, up, nclaims, boundVars>>

-----------------------------------------------------------------------------
\* created_at, id: tasks are numbered in the order they were asked for.
Tasks == 1 .. NTasks

ACTIVE_STATUSES == {"preparing", "reviewing", "commenting"}
Statuses == ACTIVE_STATUSES \cup {"absent", "queued", "completed", "failed"}

Revisions == [base : Nat, head : Nat]
NoRev     == [base |-> 0, head |-> 0]

\* What the agent found: nothing, findings inside the changed lines, or only
\* findings that validate_findings drops because it cannot place them.
Outputs == {"clean", "located", "unlocated"}

NoClaim == 0

Row == [status : Statuses, claim : Nat, lease : BOOLEAN,
        rev : Revisions, result : Outputs \cup {"none"}, url : BOOLEAN]

\* The await a reviewer is suspended at, by the status it works under.
PreparingPcs  == {"details", "head", "base", "prepare", "rebase", "rehead"}
ReviewingPcs  == {"material", "agent", "backoff", "pristine", "current",
                  "recheck_head", "recheck_base"}
CommentingPcs == {"comment", "approve"}
Pcs == PreparingPcs \cup ReviewingPcs \cup CommentingPcs
           \cup {"free", "start", "notify"}

Reviewer == [pc : Pcs, task : Nat, token : Nat, lost : BOOLEAN,
             seen : Nat,        \* details.head_sha as the API gave it at first
             now : Revisions,   \* base and head the API gives before publishing
             rev : Revisions,   \* the revision under review
             ok : BOOLEAN,      \* was the pull request open in details?
             tries : Nat,       \* attempts of the current retry loop
             out : Outputs]

Free == [pc |-> "free", task |-> 0, token |-> NoClaim, lost |-> FALSE,
         seen |-> 0, now |-> NoRev, rev |-> NoRev, ok |-> TRUE, tries |-> 0,
         out |-> "clean"]

Init ==
    /\ row = [t \in Tasks |-> [status |-> "absent", claim |-> NoClaim,
                               lease |-> FALSE, rev |-> NoRev,
                               result |-> "none", url |-> FALSE]]
    /\ w = Free
    /\ comments = <<>> /\ lgtm = <<>>
    /\ tip = [base |-> 1, head |-> 1] /\ api = tip
    /\ open = TRUE /\ up = TRUE
    /\ nclaims = 0 /\ nhalts = 0 /\ nlapses = 0

-----------------------------------------------------------------------------
(***************************************************************************)
(* Users and the forge.                                                    *)
(***************************************************************************)
enqueue_pr_review(t) ==
    /\ up
    /\ row[t].status = "absent"
    /\ t > 1 => row[t - 1].status # "absent"
    /\ row' = [row EXCEPT ![t].status = "queued"]
    /\ UNCHANGED <<w, comments, lgtm, worldVars, up, nclaims, boundVars>>

Events == tip.base + tip.head + nhalts + nlapses

\* Someone pushes to the source branch, or the target branch moves on.
Push(branch) ==
    /\ tip.base + tip.head < 2 + MaxPushes /\ Events < 2 + MaxEvents
    /\ tip' = [tip EXCEPT ![branch] = @ + 1]
    /\ UNCHANGED <<row, w, comments, lgtm, api, open, up, nclaims, boundVars>>

\* The metadata of the pull request follows the branches with a delay.
ApiCatchesUp ==
    /\ api # tip
    /\ api' = tip
    /\ UNCHANGED <<row, w, comments, lgtm, tip, open, up, nclaims, boundVars>>

PullRequestEnds ==
    /\ open
    /\ open' = FALSE
    /\ UNCHANGED <<row, w, comments, lgtm, tip, api, up, nclaims, boundVars>>

-----------------------------------------------------------------------------
(***************************************************************************)
(* Lease, heartbeat and scheduler.                                         *)
(***************************************************************************)
\* A lease runs out: nobody renews it, or its holder is stalled.
LeaseExpires(t) ==
    /\ row[t].lease
    /\ row' = [row EXCEPT ![t].lease = FALSE]
    /\ IF w.token = row[t].claim
       THEN nlapses < MaxLapses /\ Events < 2 + MaxEvents /\ nlapses' = nlapses + 1
       ELSE UNCHANGED nlapses
    /\ UNCHANGED <<w, comments, lgtm, worldVars, up, nclaims, nhalts>>

\* TaskLease.renew for the reviewer: same token, active, not run out.
Renewable ==
    /\ row[w.task].claim = w.token
    /\ row[w.task].status \in ACTIVE_STATUSES
    /\ row[w.task].lease

\* The heartbeat thread cannot renew and sets claim_lost.
HeartbeatLost ==
    /\ w.token # NoClaim
    /\ ~w.lost /\ ~Renewable
    /\ w' = [w EXCEPT !.lost = TRUE]
    /\ UNCHANGED <<row, comments, lgtm, worldVars, up, nclaims, boundVars>>

\* Mutant: recovery resets the status and leaves the dead token in place.
BugRecoverKeepsToken(r) == [r EXCEPT !.status = "queued", !.lease = FALSE]

Recovered(r) ==
    [r EXCEPT !.status = "queued", !.claim = NoClaim, !.lease = FALSE]

\* Mutant: only tasks that had not got to their comment are recovered.
BugNotCommenting(t) ==
    row[t].status \in ACTIVE_STATUSES \ {"commenting"} /\ ~row[t].lease

Expired(t) == row[t].status \in ACTIVE_STATUSES /\ ~row[t].lease

\* tick with the release gate open: recover, and if no reviewer is running,
\* start one for the oldest queued task.  With the gate closed it does nothing.
Tick ==
    /\ up
    /\ row' = [t \in Tasks |-> IF Expired(t) THEN Recovered(row[t]) ELSE row[t]]
    /\ LET queued == {t \in Tasks : row'[t].status = "queued"} IN
       w' = IF w.pc # "free" \/ queued = {} THEN w
            ELSE [Free EXCEPT !.pc = "start",
                     !.task = CHOOSE t \in queued : \A s \in queued : t <= s]
    /\ UNCHANGED <<comments, lgtm, worldVars, up, nclaims, boundVars>>

-----------------------------------------------------------------------------
(***************************************************************************)
(* How a step of the reviewer ends.                                        *)
(***************************************************************************)
At(pc) == up /\ w.pc = pc

StateOf(pc) == IF pc \in PreparingPcs THEN "preparing"
               ELSE IF pc \in ReviewingPcs THEN "reviewing" ELSE "commenting"

\* Mutant: an update finds its row by id only.
BugOwnsById == TRUE

\* The WHERE of _expected_update and _fail: expected status and own token.
Owns ==
    /\ row[w.task].claim = w.token
    /\ row[w.task].status = StateOf(w.pc)

\* _ClaimLost: the reviewer leaves and touches nothing.
Lose == w' = Free /\ UNCHANGED row

\* Any other exception: _fail, then _notify unless the claim was lost.
Fail ==
    IF Owns
    THEN /\ row' = [row EXCEPT ![w.task].status = "failed",
                               ![w.task].claim = NoClaim,
                               ![w.task].lease = FALSE]
         /\ w' = [Free EXCEPT !.pc = "notify"]
    ELSE Lose

\* _assert_claim, then on to the next await.
Claimed(next) ==
    \/ ~w.lost /\ Renewable /\ w' = next /\ UNCHANGED row
    \/ (w.lost \/ ~Renewable) /\ Lose

\* _expected_update of the row to r, then _assert_claim and the next await.
\* After the update the row is the reviewer's own; only the lease may be gone.
Updated(r, next) ==
    IF ~Owns THEN Lose
    ELSE /\ row' = [row EXCEPT ![w.task] = r]
         /\ w' = IF w.lost \/ ~r.lease THEN Free ELSE next

\* _complete
Complete ==
    IF ~Owns THEN Lose
    ELSE /\ row' = [row EXCEPT ![w.task].status = "completed",
                               ![w.task].claim = NoClaim,
                               ![w.task].lease = FALSE,
                               ![w.task].url = TRUE]
         /\ w' = [Free EXCEPT !.pc = "notify"]

Go(pc) == [w EXCEPT !.pc = pc]
ElsewhereUnchanged == UNCHANGED <<worldVars, up, nclaims, boundVars>>
ForgeUnchanged     == UNCHANGED <<comments, lgtm>> /\ ElsewhereUnchanged

-----------------------------------------------------------------------------
(***************************************************************************)
(* PRReviewOrchestrator.run                                                *)
(***************************************************************************)
\* _claim, _load_task and _assert_claim: nothing awaits in between.
Claim ==
    /\ At("start")
    /\ IF row[w.task].status = "queued"
       THEN /\ nclaims' = nclaims + 1
            /\ row' = [row EXCEPT ![w.task] =
                          [status |-> "preparing", claim |-> nclaims + 1,
                           lease |-> TRUE, rev |-> NoRev, result |-> "none",
                           url |-> FALSE]]
            /\ w' = [w EXCEPT !.pc = "details", !.token = nclaims + 1]
       ELSE Lose /\ UNCHANGED nclaims
    /\ UNCHANGED <<comments, lgtm, worldVars, up, boundVars>>

\* get_pull_request answers, or raises.
FetchDetails ==
    /\ At("details")
    /\ \/ /\ w' = [w EXCEPT !.pc = "head", !.seen = api.head, !.rev = api,
                            !.ok = open]
          /\ UNCHANGED row
       \/ Fail
    /\ ForgeUnchanged

\* resolve_remote_head of the source branch: the tip, or None (then the API's),
\* or it raises.
ResolveHead ==
    /\ At("head")
    /\ \/ Fail
       \/ /\ \E h \in {tip.head, w.rev.head} :
                w' = [w EXCEPT !.pc = "base", !.rev.head = h]
          /\ UNCHANGED row
    /\ ForgeUnchanged

\* ... of the target branch; then _record_revision, _validate_pr and on.
ResolveBase ==
    /\ At("base")
    /\ \/ Fail
       \/ \E b \in {tip.base, w.rev.base} :
          LET rev == [w.rev EXCEPT !.base = b]
              r   == [row[w.task] EXCEPT !.rev = rev] IN
          IF w.ok THEN Updated(r, [w EXCEPT !.pc = "prepare", !.rev = rev])
          ELSE IF ~Owns THEN Lose
          ELSE /\ row' = [row EXCEPT ![w.task] =
                             [r EXCEPT !.status = "failed", !.claim = NoClaim,
                                       !.lease = FALSE]]
               /\ w' = [Free EXCEPT !.pc = "notify"]
    /\ ForgeUnchanged

\* workspace.prepare: a network error, or the clone has the expected
\* revisions and the task goes on to reviewing, or RevisionChanged.
Prepare ==
    /\ At("prepare")
    /\ \/ Fail
       \/ /\ tip = w.rev
          /\ Updated([row[w.task] EXCEPT !.status = "reviewing"], Go("material"))
       \/ /\ tip # w.rev
          /\ IF w.tries = 2 THEN Fail ELSE Claimed(Go("rebase"))
    /\ ForgeUnchanged

\* After RevisionChanged both branches are resolved again, or it is raised.
ReresolveBase ==
    /\ At("rebase")
    /\ \/ Fail
       \/ w' = [w EXCEPT !.pc = "rehead", !.now.base = tip.base] /\ UNCHANGED row
    /\ ForgeUnchanged

ReresolveHead ==
    /\ At("rehead")
    /\ \/ Fail
       \/ LET rev == [base |-> w.now.base, head |-> tip.head] IN
          IF ~Owns THEN Lose
          ELSE /\ row' = [row EXCEPT ![w.task].rev = rev]
               /\ w' = [w EXCEPT !.pc = "prepare", !.rev = rev, !.now = NoRev,
                                 !.tries = @ + 1]
    /\ ForgeUnchanged

\* review_input computes the diff and the changed ranges.
ReviewInput ==
    /\ At("material")
    /\ Fail \/ Claimed([w EXCEPT !.pc = "agent", !.tries = 1])
    /\ ForgeUnchanged

\* One job of _run_review.  A job cancelled by claim_lost reports CANCELLED,
\* which is an ordinary failure: _fail decides whether the row is still ours.
AgentSucceeds ==
    /\ At("agent")
    /\ \E out \in Outputs :
          Claimed([w EXCEPT !.pc = "pristine", !.tries = 0, !.out = out])
    /\ ForgeUnchanged

AgentEndsBadly ==
    /\ At("agent")
    /\ Fail
    /\ ForgeUnchanged

\* A non-zero exit is tried once more, unless claim_lost is set by then.
AgentExitsNonZero ==
    /\ At("agent")
    /\ w.tries < AGENT_JOB_ATTEMPTS
    /\ IF w.lost THEN Lose
       ELSE w' = [w EXCEPT !.tries = @ + 1] /\ UNCHANGED row
    /\ ForgeUnchanged

\* The model upstream failed: tell the user, wait and try again.
UpstreamFails ==
    /\ At("agent")
    /\ w.tries <= UPSTREAM_MAX_RETRIES
    /\ IF w.lost THEN Lose ELSE w' = Go("backoff") /\ UNCHANGED row
    /\ ForgeUnchanged

UpstreamRetry ==
    /\ At("backoff")
    /\ IF w.lost THEN Lose
       ELSE w' = [w EXCEPT !.pc = "agent", !.tries = @ + 1] /\ UNCHANGED row
    /\ ForgeUnchanged

AssertPristine ==
    /\ At("pristine")
    /\ Fail \/ Claimed(Go("current"))
    /\ ForgeUnchanged

\* The second get_pull_request and _validate_pr.
FetchCurrent ==
    /\ At("current")
    /\ \/ Fail
       \/ open /\ w' = [w EXCEPT !.pc = "recheck_head", !.now = api]
               /\ UNCHANGED row
    /\ ForgeUnchanged

\* The head must still be the tip; if the branch cannot be reached, the API
\* may say the head under review or what it said at first.  Otherwise, or if
\* the call raises, the review fails.
RecheckHead ==
    /\ At("recheck_head")
    /\ \/ Fail
       \/ /\ tip.head = w.rev.head \/ w.now.head \in {w.rev.head, w.seen}
          /\ w' = Go("recheck_base") /\ UNCHANGED row
    /\ ForgeUnchanged

\* The same for the base; then _redact_output, which may find its result
\* invalid, and _set_commenting with the result.
RecheckBase ==
    /\ At("recheck_base")
    /\ LET r == [row[w.task] EXCEPT !.status = "commenting", !.result = w.out]
           publish == Updated(r, [w EXCEPT !.pc = "comment", !.now = NoRev,
                                           !.seen = 0]) IN
       \/ Fail
       \/ (tip.base = w.rev.base \/ w.now.base = w.rev.base) /\ publish
    /\ ForgeUnchanged

-----------------------------------------------------------------------------
(***************************************************************************)
(* publish_pr_comment runs on a thread that nothing can cancel.  The       *)
(* marker of the summary names the task and the revision, the marker of    *)
(* /lgtm the head only.                                                    *)
(***************************************************************************)
Comment == [task : Nat, rev : Revisions, out : Outputs]

SameMarker(c, d) == c.task = d.task /\ c.rev = d.rev

\* Mutant: the comment is created without a search for its marker.
BugAlwaysComment(cs, c) == Append(cs, c)

\* The comments cs after publishing c: a comment with its marker is kept as
\* it is, or gets the new body, depending on the forge.
Publish(cs, c) ==
    IF \E i \in DOMAIN cs : SameMarker(cs[i], c)
    THEN [i \in DOMAIN cs |-> IF Patches /\ SameMarker(cs[i], c) THEN c ELSE cs[i]]
    ELSE Append(cs, c)

Approve(hs, h) == IF \E i \in DOMAIN hs : hs[i] = h THEN hs ELSE Append(hs, h)

OwnComment == [task |-> w.task, rev |-> w.rev, out |-> w.out]

\* if not generated_output.findings
WantsApproval == w.out = "clean"

\* Mutant: a comment that timed out counts as published.
BugTimeoutIsSuccess ==
    /\ At("comment")
    /\ comments' \in {comments, Publish(comments, OwnComment)}
    /\ IF WantsApproval THEN Claimed(Go("approve")) ELSE Complete
    /\ UNCHANGED lgtm /\ ElsewhereUnchanged

\* The comment is published and the answer comes in time, or it is lost or
\* late (the comment may be there), or the request fails.
PublishComment ==
    /\ At("comment")
    /\ \/ /\ comments' = Publish(comments, OwnComment)
          /\ IF WantsApproval THEN Claimed(Go("approve")) ELSE Complete
       \/ /\ comments' \in {comments, Publish(comments, OwnComment)}
          /\ Fail
    /\ UNCHANGED lgtm /\ ElsewhereUnchanged

PublishApproval ==
    /\ At("approve")
    /\ \/ lgtm' = Approve(lgtm, w.rev.head) /\ Complete
       \/ lgtm' \in {lgtm, Approve(lgtm, w.rev.head)} /\ Fail
    /\ UNCHANGED comments /\ ElsewhereUnchanged

\* _notify: the chat message; a failure only touches failure_summary.
Notify ==
    /\ At("notify")
    /\ w' = Free /\ UNCHANGED row
    /\ ForgeUnchanged

-----------------------------------------------------------------------------
\* Shutdown or crash.  CancelledError passes every handler of run, so in both
\* cases the row keeps its status and token; a comment on its way may land.
Halt ==
    /\ up
    /\ nhalts < MaxHalts /\ Events < 2 + MaxEvents
    /\ nhalts' = nhalts + 1
    /\ up' = FALSE
    /\ w' = Free
    /\ \/ UNCHANGED <<comments, lgtm>>
       \/ w.pc = "comment" /\ comments' = Publish(comments, OwnComment)
                           /\ UNCHANGED lgtm
       \/ w.pc = "approve" /\ lgtm' = Approve(lgtm, w.rev.head)
                           /\ UNCHANGED comments
    /\ UNCHANGED <<row, worldVars, nclaims, nlapses>>

Start ==
    /\ ~up
    /\ up' = TRUE
    /\ UNCHANGED <<row, w, comments, lgtm, worldVars, nclaims, boundVars>>

ReviewerStep ==
    \/ Claim \/ FetchDetails \/ ResolveHead \/ ResolveBase \/ Prepare
    \/ ReresolveBase \/ ReresolveHead \/ ReviewInput
    \/ AgentSucceeds \/ AgentEndsBadly \/ AgentExitsNonZero
    \/ UpstreamFails \/ UpstreamRetry
    \/ AssertPristine \/ FetchCurrent \/ RecheckHead \/ RecheckBase
    \/ PublishComment \/ PublishApproval \/ Notify

Next ==
    \/ \E t \in Tasks : enqueue_pr_review(t) \/ LeaseExpires(t)
    \/ \E branch \in {"base", "head"} : Push(branch)
    \/ ApiCatchesUp \/ PullRequestEnds
    \/ HeartbeatLost \/ Tick \/ ReviewerStep \/ Halt \/ Start

Spec == Init /\ [][Next]_vars

(***************************************************************************)
(* Fairness.  Every await of the reviewer but one ends (forge and git have *)
(* timeouts), the loop keeps ticking and the release gate opens again, a   *)
(* lease nobody renews runs out, and the service is restarted.  Nothing is *)
(* assumed of the agent: LocalCodexRunner.run may wait for ever for a      *)
(* process whose output passed the limit (see ProcessSupervision), while   *)
(* the heartbeat renews the lease.                                         *)
(***************************************************************************)
AtAgent == w.pc = "agent"

Fairness ==
    /\ WF_vars(ReviewerStep /\ ~AtAgent) /\ WF_vars(Tick) /\ WF_vars(Start)
    /\ \A t \in Tasks : WF_vars(LeaseExpires(t) /\ row[t].claim # w.token)

FairSpec == Spec /\ Fairness

-----------------------------------------------------------------------------
(***************************************************************************)
(* Properties.                                                             *)
(***************************************************************************)
\* Every variable keeps its type.
TypeOK ==
    /\ row \in [Tasks -> Row]
    /\ w \in Reviewer
    /\ comments \in Seq(Comment) /\ lgtm \in Seq(Nat)
    /\ tip \in Revisions /\ api \in Revisions
    /\ open \in BOOLEAN /\ up \in BOOLEAN
    /\ nclaims \in Nat /\ nhalts \in Nat /\ nlapses \in Nat

\* A row carries a token exactly while a review is being carried out, although
\* shutdown and crash leave it behind and recovery may take it from a live
\* reviewer (_claim, _complete, _fail, recover_expired).
ClaimIffActive ==
    \A t \in Tasks : row[t].claim # NoClaim <=> row[t].status \in ACTIVE_STATUSES

\* A completed review is on the pull request: the summary of the recorded
\* revision is there with the recorded result, and a clean result has its
\* /lgtm, after any number of interrupted attempts.  It needs a forge that
\* rewrites a comment with a known marker.
CompletedIsPublished ==
    \A t \in Tasks : row[t].status = "completed" =>
        /\ row[t].url
        /\ \E i \in DOMAIN comments :
              comments[i] = [task |-> t, rev |-> row[t].rev, out |-> row[t].result]
        /\ row[t].result = "clean" =>
              \E i \in DOMAIN lgtm : lgtm[i] = row[t].rev.head

\* Retries and recoveries never comment twice on one revision, and never
\* approve one head twice.
OneCommentPerRevision ==
    /\ \A i, j \in DOMAIN comments : SameMarker(comments[i], comments[j]) => i = j
    /\ \A i, j \in DOMAIN lgtm : lgtm[i] = lgtm[j] => i = j

\* A reviewer whose claim was taken away never writes the row again.
LostReviewerNeverWrites ==
    [][w.token # NoClaim /\ w.token # row[w.task].claim /\ w' # w
          => row' = row]_vars

\* Every review that was asked for is completed or failed some day, unless an
\* agent never returns: from some time on the one reviewer of the service then
\* waits for it, and no queued review is looked at.
EveryReviewEnds ==
    \A t \in Tasks : row[t].status = "queued"
        ~> row[t].status \in {"completed", "failed"} \/ []AtAgent

=============================================================================
