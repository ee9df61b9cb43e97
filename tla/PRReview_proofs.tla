-------------------------- MODULE PRReview_proofs --------------------------
(***************************************************************************)
(* Reviews: what is recorded of a review is on the pull request, and       *)
(* nothing is there twice, for any number of reviews, pushes, shutdowns    *)
(* and lapsed leases.                                                      *)
(*                                                                         *)
(* All of it rests on the reviewer being the only one: the task it works   *)
(* on is not finished (HasTask), and while the claim is its own the row    *)
(* says what the reviewer has in hand (RowFollows).                        *)
(*                                                                         *)
(* Then what a review says: the ranges of changed lines are those of the   *)
(* diff (DiffInv: the parser is where git is), and the comment shows the   *)
(* native review, every finding on its changed lines (CommentInv). The     *)
(* loops over findings are folded in recursive functions of their place;   *)
(* what they compute is shown from the least place where it would fail.    *)
(***************************************************************************)
EXTENDS PRReview, ReviewResults, FiniteSetTheorems, SequenceTheorems, WellFoundedInduction,
        NaturalsInduction, TLAPS

WorkPcs == PreparingPcs \cup ReviewingPcs \cup CommentingPcs

\* The reviewer has a task, which nobody has finished.
HasTask ==
    w.pc \notin {"free", "notify"} =>
        w.task \in Tasks /\ row[w.task].status \in ACTIVE_STATUSES \cup {"queued"}

\* It has a token from its claim to its last update.
HasToken == w.token # NoClaim <=> w.pc \in WorkPcs

\* Places behind _record_revision.
Recorded == {"prepare", "rebase", "rehead"} \cup ReviewingPcs \cup CommentingPcs

\* While the claim is its own, the row has the revision and the result that
\* the reviewer is about to publish.
RowFollows ==
    w.pc \in Recorded /\ row[w.task].claim = w.token =>
        /\ row[w.task].rev = w.rev
        /\ w.pc \in CommentingPcs => row[w.task].result = w.out

\* A reviewer that approves has published its comment.
ApprovesPublished ==
    w.pc = "approve" => \E i \in DOMAIN comments : comments[i] = OwnComment

\* The inductive invariant of everything but publication.
ReviewInv == TypeOK /\ ClaimIffActive /\ HasTask /\ HasToken /\ RowFollows

-----------------------------------------------------------------------------
(***************************************************************************)
(* Types.                                                                  *)
(***************************************************************************)
\* The places of the reviewer.
LEMMA PcFacts ==
    /\ Pcs = WorkPcs \cup {"free", "start", "notify"}
    /\ "free" \notin WorkPcs /\ "start" \notin WorkPcs /\ "notify" \notin WorkPcs
  BY DEF Pcs, WorkPcs, PreparingPcs, ReviewingPcs, CommentingPcs

\* A reviewer that has left.
LEMMA FreeType == Free \in Reviewer
  BY DEF Free, Reviewer, Pcs, NoClaim, NoRev, Revisions, Outputs

(***************************************************************************)
(* A step of a reviewer that has claimed its task is one of five.          *)
(***************************************************************************)
\* The reviewer after the step, if the row of its task is then r.
Follows(r, next) ==
    /\ next \in Reviewer /\ next.task = w.task /\ next.token = w.token
    /\ next.pc \in WorkPcs
    /\ next.pc \in Recorded => r.rev = next.rev
    /\ next.pc \in CommentingPcs => r.result = next.out

\* The comment has been published, and the reviewer goes on to approve.
GoesToApprove ==
    /\ w.pc = "comment" /\ comments' = Publish(comments, OwnComment)
    /\ w'.task = w.task /\ w'.rev = w.rev /\ w'.out = w.out

\* The last thing to be published is published.
IsPublished ==
    \/ w.pc = "comment" /\ comments' = Publish(comments, OwnComment) /\ ~WantsApproval
    \/ w.pc = "approve" /\ lgtm' = Approve(lgtm, w.rev.head)

\* It goes on without a write.
Goes ==
    /\ row' = row
    /\ row[w.task].claim = w.token => Follows(row[w.task], w')
    /\ w' \in Reviewer /\ w'.task = w.task /\ w'.token = w.token
    /\ w'.pc \in WorkPcs
    /\ w'.pc = "approve" => GoesToApprove

\* It leaves and touches nothing.
Loses == row' = row /\ w' = Free

\* _fail and _complete: the last write under the claim.
Ends(status) ==
    /\ Owns
    /\ \E r \in Row : /\ row' = [row EXCEPT ![w.task] = r]
                      /\ r.status = status /\ r.claim = NoClaim
                      /\ status = "completed" =>
                            r = [row[w.task] EXCEPT !.status = status, !.lease = FALSE,
                                                    !.claim = NoClaim, !.url = TRUE]
    /\ w' = [Free EXCEPT !.pc = "notify"]

\* _expected_update.
Writes ==
    /\ Owns
    /\ \E r \in Row : /\ row' = [row EXCEPT ![w.task] = r]
                      /\ r.status \in ACTIVE_STATUSES /\ r.claim = w.token
                      /\ w' = Free \/ (Follows(r, w') /\ w'.pc # "approve")

WorkStep ==
    \/ Goes \/ Loses \/ Ends("failed") \/ Writes
    \/ Ends("completed") /\ IsPublished

\* _fail
LEMMA FailIs ==
    ASSUME ReviewInv, w.pc \in WorkPcs, Fail
    PROVE  Loses \/ Ends("failed")
  <1>1. w.task \in Tasks /\ row[w.task] \in Row
    BY PcFacts DEF ReviewInv, HasTask, TypeOK
  <1>2. CASE Owns
    <2> DEFINE r == [row[w.task] EXCEPT !.status = "failed", !.claim = NoClaim,
                                        !.lease = FALSE]
    <2>1. row' = [row EXCEPT ![w.task] = r] /\ w' = [Free EXCEPT !.pc = "notify"]
      BY <1>1, <1>2 DEF Fail, ReviewInv, TypeOK, Row
    <2>2. r \in Row /\ r.status = "failed" /\ r.claim = NoClaim
      BY <1>1 DEF Row, Statuses, NoClaim
    <2> QED BY <1>2, <2>1, <2>2 DEF Ends
  <1>3. CASE ~Owns
    BY <1>3 DEF Fail, Lose, Loses
  <1> QED BY <1>2, <1>3

\* _complete
LEMMA CompleteIs ==
    ASSUME ReviewInv, w.pc \in WorkPcs, Complete
    PROVE  Loses \/ Ends("completed")
  <1>1. w.task \in Tasks /\ row[w.task] \in Row
    BY PcFacts DEF ReviewInv, HasTask, TypeOK
  <1>2. CASE Owns
    <2> DEFINE r == [row[w.task] EXCEPT !.status = "completed", !.lease = FALSE,
                                        !.claim = NoClaim, !.url = TRUE]
    <2>1. row' = [row EXCEPT ![w.task] = r] /\ w' = [Free EXCEPT !.pc = "notify"]
      BY <1>1, <1>2, ZenonT(40) DEF Complete, ReviewInv, TypeOK, Row
    <2>2. r \in Row /\ r.status = "completed" /\ r.claim = NoClaim
      BY <1>1 DEF Row, Statuses, NoClaim
    <2> QED BY <1>2, <2>1, <2>2 DEF Ends
  <1>3. CASE ~Owns
    BY <1>3 DEF Complete, Lose, Loses
  <1> QED BY <1>2, <1>3

\* A reviewer that goes to place pc, where no more than now has to agree with
\* the row.
LEMMA GoesOn ==
    ASSUME ReviewInv, w.pc \in WorkPcs, row' = row,
           w' \in Reviewer, w'.task = w.task, w'.token = w.token, w'.pc \in WorkPcs,
           w'.pc \in Recorded => w.pc \in Recorded /\ w'.rev = w.rev,
           w'.pc \in CommentingPcs => w.pc \in CommentingPcs /\ w'.out = w.out,
           w'.pc = "approve" => GoesToApprove
    PROVE  Goes
  BY DEF Goes, Follows, ReviewInv, RowFollows, Recorded

\* _assert_claim
LEMMA ClaimedIs ==
    ASSUME ReviewInv, w.pc \in WorkPcs, NEW next \in Reviewer, Claimed(next),
           next.task = w.task, next.token = w.token, next.pc \in WorkPcs,
           next.pc \in Recorded => w.pc \in Recorded /\ next.rev = w.rev,
           next.pc \notin CommentingPcs
    PROVE  Loses \/ Goes
  BY GoesOn DEF Claimed, Lose, Loses, CommentingPcs

\* _expected_update
LEMMA UpdatedIs ==
    ASSUME NEW r \in Row, NEW next, Updated(r, next), next.pc # "approve",
           Owns => Follows(r, next),
           r.status \in ACTIVE_STATUSES, r.claim = row[w.task].claim
    PROVE  Loses \/ Writes
  BY DEF Updated, Lose, Loses, Writes, Owns

\* A reviewer that moves to another place.
LEMMA GoIs ==
    ASSUME w \in Reviewer, NEW pc \in Pcs
    PROVE  /\ Go(pc) \in Reviewer /\ Go(pc).pc = pc /\ Go(pc).task = w.task
           /\ Go(pc).token = w.token /\ Go(pc).rev = w.rev /\ Go(pc).out = w.out
  BY DEF Go, Reviewer

\* Every step of a reviewer at work is a WorkStep.
LEMMA WorkerSteps ==
    ASSUME ReviewInv, ReviewerStep, w.pc \in WorkPcs
    PROVE  WorkStep
  <1> USE DEF WorkStep, Recorded, WorkPcs, PreparingPcs, ReviewingPcs, CommentingPcs,
              Pcs, At
  <1>0. /\ w \in Reviewer /\ w.task \in Tasks /\ row[w.task] \in Row
        /\ api \in Revisions /\ tip \in Revisions /\ open \in BOOLEAN
    BY DEF ReviewInv, HasTask, TypeOK
  <1>a. CASE Fail
    BY <1>a, FailIs
  <1>b. CASE Lose
    BY <1>b DEF Lose, Loses
  <1>1. CASE FetchDetails /\ ~Fail
    <2>1. /\ row' = row
          /\ w' = [w EXCEPT !.pc = "head", !.seen = api.head, !.rev = api, !.ok = open]
      BY <1>1 DEF FetchDetails
    <2>2. /\ w' \in Reviewer /\ w'.pc = "head"
          /\ w'.task = w.task /\ w'.token = w.token
      BY <1>0, <2>1 DEF Reviewer, Revisions
    <2> QED BY <2>1, <2>2, GoesOn
  <1>2. CASE ResolveHead /\ ~Fail
    <2>1. PICK h \in {tip.head, w.rev.head} :
             row' = row /\ w' = [w EXCEPT !.pc = "base", !.rev.head = h]
      BY <1>2 DEF ResolveHead
    <2>2. h \in Nat
      BY <1>0 DEF Reviewer, Revisions
    <2>3. /\ w' \in Reviewer /\ w'.pc = "base"
          /\ w'.task = w.task /\ w'.token = w.token
      BY <1>0, <2>1, <2>2 DEF Reviewer, Revisions
    <2> QED BY <2>1, <2>3, GoesOn
  <1>3. CASE ResolveBase /\ ~Fail /\ ~Lose
    <2>1. PICK b \in {tip.base, w.rev.base} :
             LET rev == [w.rev EXCEPT !.base = b]
                 r   == [row[w.task] EXCEPT !.rev = rev] IN
             IF w.ok THEN Updated(r, [w EXCEPT !.pc = "prepare", !.rev = rev])
             ELSE /\ Owns
                  /\ row' = [row EXCEPT ![w.task] =
                          [r EXCEPT !.status = "failed", !.claim = NoClaim,
                                    !.lease = FALSE]]
                  /\ w' = [Free EXCEPT !.pc = "notify"]
      BY <1>3 DEF ResolveBase
    <2> DEFINE rev == [w.rev EXCEPT !.base = b]
               r   == [row[w.task] EXCEPT !.rev = rev]
               n   == [w EXCEPT !.pc = "prepare", !.rev = rev]
    <2>2. b \in Nat /\ w.rev \in Revisions
      BY <1>0 DEF Reviewer, Revisions
    <2>3. rev \in Revisions
      BY <2>2 DEF Revisions
    <2>4. r \in Row /\ r.rev = rev /\ r.status = row[w.task].status
                    /\ r.claim = row[w.task].claim
      BY <1>0, <2>3 DEF Row
    <2>5. Follows(r, n) /\ n.pc # "approve"
      BY <1>0, <2>3, <2>4 DEF Follows, Reviewer
    <2>6. CASE w.ok
      <3>1. Updated(r, n) /\ Owns
        BY <1>3, <2>1, <2>6 DEF Updated
      <3>2. r.status \in ACTIVE_STATUSES
        BY <1>3, <2>4, <3>1 DEF Owns, StateOf, ACTIVE_STATUSES, ResolveBase
      <3> HIDE DEF r, n
      <3> QED BY <2>4, <2>5, <3>1, <3>2, UpdatedIs
    <2>7. CASE ~w.ok
      <3> DEFINE q == [r EXCEPT !.status = "failed", !.claim = NoClaim, !.lease = FALSE]
      <3>1. q \in Row /\ q.status = "failed" /\ q.claim = NoClaim
        BY <2>4 DEF Row, Statuses, NoClaim
      <3>2. Owns /\ row' = [row EXCEPT ![w.task] = q] /\ w' = [Free EXCEPT !.pc = "notify"]
        BY <2>1, <2>7
      <3> HIDE DEF q
      <3> QED BY <3>1, <3>2 DEF Ends
    <2> QED BY <2>6, <2>7
  <1>4. CASE Prepare /\ ~Fail
    <2>1. CASE Updated([row[w.task] EXCEPT !.status = "reviewing"], Go("material"))
      <3> DEFINE r == [row[w.task] EXCEPT !.status = "reviewing"]
      <3>1. r \in Row /\ r.status \in ACTIVE_STATUSES /\ r.claim = row[w.task].claim
              /\ r.rev = row[w.task].rev
        BY <1>0 DEF Row, Statuses, ACTIVE_STATUSES
      <3>2. Go("material").pc # "approve" /\ (Owns => Follows(r, Go("material")))
        BY <1>0, <1>4, <3>1, GoIs DEF Prepare, Owns, Follows, ReviewInv, RowFollows
      <3> HIDE DEF r
      <3> QED BY <2>1, <3>1, <3>2, UpdatedIs DEF r
    <2>2. CASE Claimed(Go("rebase"))
      BY <1>0, <1>4, <2>2, GoIs, ClaimedIs DEF Prepare
    <2> QED BY <1>4, <2>1, <2>2 DEF Prepare
  <1>5. CASE ReresolveBase /\ ~Fail
    <2>1. row' = row /\ w' = [w EXCEPT !.pc = "rehead", !.now.base = tip.base]
      BY <1>5 DEF ReresolveBase
    <2>2. /\ w' \in Reviewer /\ w'.pc = "rehead" /\ w'.rev = w.rev
          /\ w'.task = w.task /\ w'.token = w.token
      BY <1>0, <2>1 DEF Reviewer, Revisions
    <2> QED BY <1>5, <2>1, <2>2, GoesOn DEF ReresolveBase
  <1>6. CASE ReresolveHead /\ ~Fail /\ ~Lose
    <2> DEFINE rev == [base |-> w.now.base, head |-> tip.head]
               r == [row[w.task] EXCEPT !.rev = rev]
    <2>1. /\ Owns /\ row' = [row EXCEPT ![w.task].rev = rev]
          /\ w' = [w EXCEPT !.pc = "prepare", !.rev = rev, !.now = NoRev, !.tries = @ + 1]
      BY <1>6 DEF ReresolveHead
    <2>2. rev \in Revisions
      BY <1>0 DEF Reviewer, Revisions
    <2>3. /\ r \in Row /\ r.rev = rev /\ r.claim = w.token /\ r.status \in ACTIVE_STATUSES
          /\ row' = [row EXCEPT ![w.task] = r]
      BY <1>0, <1>6, <2>1, <2>2 DEF Row, Owns, StateOf, ACTIVE_STATUSES, ReresolveHead
    <2>4. /\ w' \in Reviewer /\ w'.pc = "prepare" /\ w'.rev = rev
          /\ w'.task = w.task /\ w'.token = w.token
      <3>1. w.tries + 1 \in Nat /\ NoRev \in Revisions
        BY <1>0 DEF Reviewer, NoRev, Revisions
      <3> HIDE DEF rev
      <3> QED BY <1>0, <2>1, <2>2, <3>1 DEF Reviewer
    <2> HIDE DEF r, rev
    <2> QED BY <2>1, <2>3, <2>4 DEF Writes, Follows
  <1>7. CASE ReviewInput /\ ~Fail
    <2> DEFINE n == [w EXCEPT !.pc = "agent", !.tries = 1]
    <2>1. /\ n \in Reviewer /\ n.pc = "agent" /\ n.rev = w.rev
          /\ n.task = w.task /\ n.token = w.token
      BY <1>0 DEF Reviewer
    <2>2. Claimed(n)
      BY <1>7 DEF ReviewInput
    <2> HIDE DEF n
    <2> QED BY <1>7, <2>1, <2>2, ClaimedIs DEF ReviewInput
  <1>8. CASE AgentSucceeds
    <2>1. PICK out \in Outputs :
             Claimed([w EXCEPT !.pc = "pristine", !.tries = 0, !.out = out])
      BY <1>8 DEF AgentSucceeds
    <2> DEFINE n == [w EXCEPT !.pc = "pristine", !.tries = 0, !.out = out]
    <2>2. /\ n \in Reviewer /\ n.pc = "pristine" /\ n.rev = w.rev
          /\ n.task = w.task /\ n.token = w.token
      BY <1>0 DEF Reviewer
    <2> HIDE DEF n
    <2> QED BY <1>8, <2>1, <2>2, ClaimedIs DEF AgentSucceeds, n
  <1>9. CASE AgentEndsBadly
    BY <1>9, FailIs DEF AgentEndsBadly
  <1>10. CASE AgentExitsNonZero /\ ~Lose
    <2>1. row' = row /\ w' = [w EXCEPT !.tries = @ + 1] /\ w.pc = "agent"
      BY <1>10 DEF AgentExitsNonZero
    <2>2. /\ w' \in Reviewer /\ w'.pc = w.pc /\ w'.rev = w.rev
          /\ w'.task = w.task /\ w'.token = w.token
      BY <1>0, <2>1 DEF Reviewer
    <2> QED BY <2>1, <2>2, GoesOn
  <1>11. CASE UpstreamFails /\ ~Lose
    BY <1>0, <1>11, GoIs, GoesOn DEF UpstreamFails
  <1>12. CASE UpstreamRetry /\ ~Lose
    <2>1. row' = row /\ w' = [w EXCEPT !.pc = "agent", !.tries = @ + 1] /\ w.pc = "backoff"
      BY <1>12 DEF UpstreamRetry
    <2>2. /\ w' \in Reviewer /\ w'.pc = "agent" /\ w'.rev = w.rev
          /\ w'.task = w.task /\ w'.token = w.token
      <3>1. w.tries + 1 \in Nat
        BY <1>0 DEF Reviewer
      <3> QED BY <1>0, <2>1, <3>1 DEF Reviewer
    <2> QED BY <2>1, <2>2, GoesOn
  <1>13. CASE AssertPristine /\ ~Fail
    BY <1>0, <1>13, GoIs, ClaimedIs DEF AssertPristine
  <1>14. CASE FetchCurrent /\ ~Fail
    <2>1. row' = row /\ w' = [w EXCEPT !.pc = "recheck_head", !.now = api]
      BY <1>14 DEF FetchCurrent
    <2>2. /\ w' \in Reviewer /\ w'.pc = "recheck_head" /\ w'.rev = w.rev
          /\ w'.task = w.task /\ w'.token = w.token
      BY <1>0, <2>1 DEF Reviewer
    <2> QED BY <1>14, <2>1, <2>2, GoesOn DEF FetchCurrent
  <1>15. CASE RecheckHead /\ ~Fail
    BY <1>0, <1>15, GoIs, GoesOn DEF RecheckHead
  <1>16. CASE RecheckBase /\ ~Fail
    <2> DEFINE r == [row[w.task] EXCEPT !.status = "commenting", !.result = w.out]
               n == [w EXCEPT !.pc = "comment", !.now = NoRev, !.seen = 0]
    <2>1. Updated(r, n)
      BY <1>16 DEF RecheckBase
    <2>2. /\ r \in Row /\ r.status \in ACTIVE_STATUSES /\ r.claim = row[w.task].claim
          /\ r.rev = row[w.task].rev /\ r.result = w.out
      BY <1>0 DEF Row, Reviewer, Statuses, ACTIVE_STATUSES
    <2>3. /\ n \in Reviewer /\ n.pc = "comment" /\ n.rev = w.rev /\ n.out = w.out
          /\ n.task = w.task /\ n.token = w.token
      BY <1>0 DEF Reviewer, NoRev, Revisions
    <2> HIDE DEF r, n
    <2>4. Owns => Follows(r, n)
      BY <1>16, <2>2, <2>3 DEF RecheckBase, Owns, Follows, ReviewInv, RowFollows
    <2> QED BY <2>1, <2>2, <2>3, <2>4, UpdatedIs
  <1>17. CASE PublishComment /\ ~Fail /\ ~Lose
    <2>1. w.pc = "comment" /\ comments' = Publish(comments, OwnComment)
      BY <1>17 DEF PublishComment
    <2>2. CASE WantsApproval
      <3>1. row' = row /\ w' = Go("approve")
        BY <1>17, <2>2 DEF PublishComment, Claimed
      <3>2. GoesToApprove
        BY <1>0, <2>1, <3>1, GoIs DEF GoesToApprove
      <3> QED BY <1>0, <2>1, <3>1, <3>2, GoIs, GoesOn
    <2>3. CASE ~WantsApproval
      <3>1. Complete
        BY <1>17, <2>3 DEF PublishComment
      <3> QED BY <2>1, <2>3, <3>1, CompleteIs DEF IsPublished
    <2> QED BY <2>2, <2>3
  <1>18. CASE PublishApproval /\ ~Fail
    <2>1. w.pc = "approve" /\ lgtm' = Approve(lgtm, w.rev.head) /\ Complete
      BY <1>18 DEF PublishApproval
    <2> QED BY <2>1, CompleteIs DEF IsPublished
  <1> QED
    BY <1>a, <1>b, <1>1, <1>2, <1>3, <1>4, <1>5, <1>6, <1>7, <1>8, <1>9, <1>10,
       <1>11, <1>12, <1>13, <1>14, <1>15, <1>16, <1>17, <1>18
    DEF ReviewerStep, Claim, Notify

-----------------------------------------------------------------------------
(***************************************************************************)
(* The invariant of rows and reviewer.                                     *)
(***************************************************************************)
\* The steps of a reviewer at work keep it.
LEMMA WorkKeeps ==
    ASSUME ReviewInv, w.pc \in WorkPcs, WorkStep
    PROVE  /\ row' \in [Tasks -> Row] /\ w' \in Reviewer
           /\ (ClaimIffActive /\ HasTask /\ HasToken /\ RowFollows)'
  <1> DEFINE t == w.task
  <1>0. /\ w \in Reviewer /\ t \in Tasks /\ row \in [Tasks -> Row]
        /\ w.token # NoClaim /\ row[t].status \in ACTIVE_STATUSES \cup {"queued"}
    BY PcFacts DEF ReviewInv, HasTask, HasToken, TypeOK
  <1>1. CASE Loses
    BY <1>0, <1>1, FreeType, PcFacts DEF Loses, ReviewInv, ClaimIffActive, HasTask,
       HasToken, RowFollows, Free, Recorded, WorkPcs
  <1>2. CASE Goes
    BY <1>0, <1>2, PcFacts DEF Goes, Follows, ReviewInv, ClaimIffActive, HasTask,
       HasToken, RowFollows
  <1>3. CASE Writes
    <2>1. PICK r \in Row : /\ row' = [row EXCEPT ![t] = r]
                           /\ r.status \in ACTIVE_STATUSES /\ r.claim = w.token
                           /\ w' = Free \/ Follows(r, w')
      BY <1>3 DEF Writes
    <2>2. row' \in [Tasks -> Row] /\ w' \in Reviewer
      BY <1>0, <2>1, FreeType DEF Follows
    <2>3. ClaimIffActive'
      BY <1>0, <2>1 DEF ClaimIffActive, ReviewInv
    <2>4. CASE w' = Free
      BY <2>2, <2>3, <2>4, PcFacts DEF HasTask, HasToken, RowFollows, Free, Recorded, WorkPcs
    <2>5. CASE Follows(r, w')
      BY <1>0, <2>1, <2>2, <2>3, <2>5, PcFacts DEF Follows, HasTask, HasToken, RowFollows
    <2> QED BY <2>1, <2>4, <2>5
  <1>4. ASSUME NEW s \in {"failed", "completed"}, Ends(s)
        PROVE  /\ row' \in [Tasks -> Row] /\ w' \in Reviewer
               /\ (ClaimIffActive /\ HasTask /\ HasToken /\ RowFollows)'
    <2>1. PICK r \in Row : /\ row' = [row EXCEPT ![t] = r]
                           /\ r.status = s /\ r.claim = NoClaim
      BY <1>4 DEF Ends
    <2>2. w' \in Reviewer /\ w'.pc = "notify" /\ w'.token = NoClaim
      BY <1>4, FreeType DEF Ends, Free, Reviewer, Pcs
    <2>3. row' \in [Tasks -> Row] /\ ClaimIffActive'
      BY <1>0, <2>1 DEF ClaimIffActive, ReviewInv, ACTIVE_STATUSES
    <2> QED BY <2>2, <2>3, PcFacts DEF HasTask, HasToken, RowFollows, Recorded, WorkPcs
  <1> QED BY <1>1, <1>2, <1>3, <1>4 DEF WorkStep

\* So does _claim, which gives a queued task a fresh token.
LEMMA ClaimKeeps ==
    ASSUME ReviewInv, Claim
    PROVE  /\ row' \in [Tasks -> Row] /\ w' \in Reviewer /\ nclaims' \in Nat
           /\ (ClaimIffActive /\ HasTask /\ HasToken /\ RowFollows)'
  <1>0. /\ w \in Reviewer /\ w.task \in Tasks /\ row \in [Tasks -> Row] /\ nclaims \in Nat
        /\ w.token = NoClaim
    BY PcFacts DEF ReviewInv, HasTask, HasToken, TypeOK, Claim, At
  <1>1. CASE row[w.task].status = "queued"
    <2> DEFINE r == [status |-> "preparing", claim |-> nclaims + 1, lease |-> TRUE,
                     rev |-> NoRev, result |-> "none", url |-> FALSE]
    <2>1. /\ row' = [row EXCEPT ![w.task] = r] /\ nclaims' = nclaims + 1
          /\ w' = [w EXCEPT !.pc = "details", !.token = nclaims + 1]
      BY <1>1 DEF Claim
    <2>2. r \in Row /\ r.claim # NoClaim /\ r.status \in ACTIVE_STATUSES /\ nclaims + 1 \in Nat
      BY <1>0 DEF Row, Statuses, ACTIVE_STATUSES, NoClaim, NoRev, Revisions
    <2>3. /\ w' \in Reviewer /\ w'.pc = "details" /\ w'.task = w.task
          /\ w'.token = nclaims + 1
      BY <1>0, <2>1, <2>2 DEF Reviewer, Pcs, PreparingPcs
    <2>4. "details" \in WorkPcs /\ "details" \notin Recorded /\ nclaims + 1 # NoClaim
      BY <1>0 DEF WorkPcs, Recorded, PreparingPcs, ReviewingPcs, CommentingPcs, NoClaim
    <2> HIDE DEF r
    <2> QED BY <1>0, <2>1, <2>2, <2>3, <2>4 DEF ReviewInv, ClaimIffActive, HasTask, HasToken,
          RowFollows
  <1>2. CASE row[w.task].status # "queued"
    <2>1. row' = row /\ w' = Free /\ nclaims' = nclaims
      BY <1>2 DEF Claim, Lose
    <2>2. Free.pc = "free" /\ Free.token = NoClaim
      BY DEF Free
    <2> QED BY <1>0, <2>1, <2>2, FreeType, PcFacts DEF ReviewInv, ClaimIffActive, HasTask,
          HasToken, RowFollows, Recorded, WorkPcs
  <1> QED BY <1>1, <1>2

\* The scheduler finds the oldest of the queued tasks.
LEMMA LeastNatural ==
    ASSUME NEW T \in SUBSET Nat, T # {}
    PROVE  \E m \in T : \A k \in T : m <= k
  <1> DEFINE R == {ss \in Nat \X Nat : ss[1] < ss[2]}
  <1>1. IsWellFoundedOn(R, Nat)
    BY NatLessThanWellFounded DEF OpToRel
  <1>2. \A k, m \in Nat : k < m => <<k, m>> \in R
    OBVIOUS
  <1> HIDE DEF R
  <1>3. PICK m \in T : \A k \in T : ~(<<k, m>> \in R)
    BY <1>1, WFMin
  <1>4. \A k \in T : ~(k < m) /\ k \in Nat /\ m \in Nat
    BY <1>2, <1>3
  <1> QED BY <1>4

\* So does a tick, which takes tokens away and starts a reviewer on a task
\* that is queued.
LEMMA TickKeeps ==
    ASSUME ReviewInv, Tick
    PROVE  /\ row' \in [Tasks -> Row] /\ w' \in Reviewer
           /\ (ClaimIffActive /\ HasTask /\ HasToken /\ RowFollows)'
  <1> DEFINE queued == {t \in Tasks : row'[t].status = "queued"}
  <1>0. row \in [Tasks -> Row] /\ w \in Reviewer
    BY DEF ReviewInv, TypeOK
  <1>1. \A t \in Tasks :
           \/ row'[t] = row[t]
           \/ /\ row'[t] \in Row /\ row'[t].status = "queued" /\ row'[t].claim = NoClaim
              /\ row[t].status \in ACTIVE_STATUSES
    BY <1>0 DEF Tick, Expired, Recovered, Row, Statuses, NoClaim
  <1>2. row' \in [Tasks -> Row]
    BY <1>0, ZenonT(40) DEF Tick, Expired, Recovered, Row, Statuses, NoClaim
  <1>3. ClaimIffActive'
    BY <1>1 DEF ReviewInv, ClaimIffActive, ACTIVE_STATUSES
  <1>4. CASE w.pc # "free" \/ queued = {}
    <2>1. w' = w
      BY <1>4 DEF Tick
    <2>2. HasTask' /\ HasToken'
      BY <1>1, <2>1 DEF ReviewInv, HasTask, HasToken
    <2>3. RowFollows'
      <3> SUFFICES ASSUME w.pc \in Recorded, row'[w.task].claim = w.token
                   PROVE  /\ row'[w.task].rev = w.rev
                          /\ w.pc \in CommentingPcs => row'[w.task].result = w.out
        BY <2>1 DEF RowFollows
      <3>1. w.pc \in WorkPcs /\ w.task \in Tasks /\ w.token # NoClaim
        BY PcFacts DEF ReviewInv, HasTask, HasToken, Recorded, WorkPcs, PreparingPcs
      <3>2. row'[w.task] = row[w.task]
        BY <1>1, <3>1
      <3> QED BY <3>2 DEF ReviewInv, RowFollows
    <2> QED BY <1>0, <1>2, <1>3, <2>1, <2>2, <2>3
  <1>5. CASE w.pc = "free" /\ queued # {}
    <2> DEFINE c == CHOOSE t \in queued : \A s \in queued : t <= s
    <2>1. w' = [Free EXCEPT !.pc = "start", !.task = c]
      BY <1>5 DEF Tick
    <2>2. c \in queued
      <3>1. queued \subseteq Nat
        BY ReviewAssumption DEF Tasks
      <3> HIDE DEF queued
      <3> QED BY <1>5, <3>1, LeastNatural
    <2>3. c \in Tasks /\ c \in Nat /\ row'[c].status = "queued"
      BY <2>2, ReviewAssumption DEF Tasks
    <2> HIDE DEF c
    <2>4. w' \in Reviewer /\ w'.pc = "start" /\ w'.task = c /\ w'.token = NoClaim
      BY <2>1, <2>3, FreeType DEF Free, Reviewer, Pcs
    <2> QED BY <1>2, <1>3, <2>3, <2>4, PcFacts DEF HasTask, HasToken, RowFollows, Recorded, WorkPcs
  <1> QED BY <1>4, <1>5

\* Everything that neither the reviewer nor the tick does.
LEMMA OtherKeeps ==
    ASSUME ReviewInv,
           \/ \E t \in Tasks : enqueue_pr_review(t) \/ LeaseExpires(t)
           \/ \E branch \in {"base", "head"} : Push(branch)
           \/ ApiCatchesUp \/ PullRequestEnds \/ HeartbeatLost \/ Halt \/ Start
    PROVE  /\ row' \in [Tasks -> Row] /\ w' \in Reviewer
           /\ (ClaimIffActive /\ HasTask /\ HasToken /\ RowFollows)'
  <1>0. row \in [Tasks -> Row] /\ w \in Reviewer
    BY DEF ReviewInv, TypeOK
  <1>1. ASSUME NEW t \in Tasks, enqueue_pr_review(t) \/ LeaseExpires(t)
        PROVE  /\ row' \in [Tasks -> Row] /\ w' \in Reviewer
               /\ (ClaimIffActive /\ HasTask /\ HasToken /\ RowFollows)'
    <2>1. w' = w
      BY <1>1 DEF enqueue_pr_review, LeaseExpires
    <2>2. row' \in [Tasks -> Row]
      BY <1>0, <1>1, ZenonT(40) DEF enqueue_pr_review, LeaseExpires, Row, Statuses
    <2>3. \A s \in Tasks :
             /\ row'[s].claim = row[s].claim /\ row'[s].rev = row[s].rev
             /\ row'[s].result = row[s].result
             /\ \/ row'[s].status = row[s].status
                \/ row[s].status = "absent" /\ row'[s].status = "queued"
      BY <1>0, <1>1 DEF enqueue_pr_review, LeaseExpires, Row
    <2>4. ClaimIffActive' /\ HasTask' /\ HasToken'
      BY <2>1, <2>3 DEF ReviewInv, ClaimIffActive, HasTask, HasToken, ACTIVE_STATUSES
    <2>5. w.pc \in Recorded => w.task \in Tasks
      BY PcFacts DEF ReviewInv, HasTask, Recorded, WorkPcs, PreparingPcs
    <2>6. RowFollows'
      BY <2>1, <2>3, <2>5 DEF ReviewInv, RowFollows
    <2> QED BY <1>0, <2>1, <2>2, <2>4, <2>6
  <1>2. CASE \/ \E branch \in {"base", "head"} : Push(branch)
             \/ ApiCatchesUp \/ PullRequestEnds \/ Start
    BY <1>0, <1>2 DEF Push, ApiCatchesUp, PullRequestEnds, Start, ReviewInv,
       ClaimIffActive, HasTask, HasToken, RowFollows
  <1>3. CASE HeartbeatLost
    <2>1. row' = row /\ w' = [w EXCEPT !.lost = TRUE]
      BY <1>3 DEF HeartbeatLost
    <2>2. /\ w' \in Reviewer /\ w'.pc = w.pc /\ w'.task = w.task /\ w'.token = w.token
          /\ w'.rev = w.rev /\ w'.out = w.out
      BY <1>0, <2>1 DEF Reviewer
    <2> QED BY <1>0, <2>1, <2>2 DEF ReviewInv, ClaimIffActive, HasTask, HasToken, RowFollows
  <1>4. CASE Halt
    <2>1. row' = row /\ w' = Free
      BY <1>4 DEF Halt
    <2>2. Free.pc = "free" /\ Free.token = NoClaim
      BY DEF Free
    <2> QED BY <1>0, <2>1, <2>2, FreeType, PcFacts DEF ReviewInv, ClaimIffActive, HasTask,
          HasToken, RowFollows, Recorded, WorkPcs
  <1> QED BY <1>1, <1>2, <1>3, <1>4

-----------------------------------------------------------------------------
(***************************************************************************)
(* What is on the pull request.                                            *)
(***************************************************************************)
Distinct(cs) == \A i, j \in DOMAIN cs : SameMarker(cs[i], cs[j]) => i = j
DistinctHeads(hs) == \A i, j \in DOMAIN hs : hs[i] = hs[j] => i = j

\* publish_pr_comment never adds a second comment with a marker, leaves the
\* comments with other markers alone and, on a forge that rewrites, shows the
\* new text.
LEMMA PublishIs ==
    ASSUME NEW cs \in Seq(Comment), NEW c \in Comment
    PROVE  /\ Publish(cs, c) \in Seq(Comment)
           /\ Distinct(cs) => Distinct(Publish(cs, c))
           /\ Patches => \E i \in DOMAIN Publish(cs, c) : Publish(cs, c)[i] = c
           /\ \A i \in DOMAIN cs : ~SameMarker(cs[i], c) =>
                 i \in DOMAIN Publish(cs, c) /\ Publish(cs, c)[i] = cs[i]
  <1> DEFINE ds == Publish(cs, c)
  <1>1. CASE \E i \in DOMAIN cs : SameMarker(cs[i], c)
    <2>1. ds = [i \in DOMAIN cs |-> IF Patches /\ SameMarker(cs[i], c) THEN c ELSE cs[i]]
      BY <1>1 DEF Publish
    <2>2. /\ DOMAIN ds = 1 .. Len(cs) /\ DOMAIN cs = 1 .. Len(cs) /\ Len(cs) \in Nat
          /\ \A i \in 1 .. Len(cs) : cs[i] \in Comment /\ ds[i] \in Comment
                  /\ (ds[i] = cs[i] \/ (Patches /\ SameMarker(cs[i], c) /\ ds[i] = c))
                  /\ (Patches /\ SameMarker(cs[i], c) => ds[i] = c)
      BY <2>1
    <2>3. ds \in Seq(Comment)
      BY <2>1, <2>2
    <2> HIDE DEF ds
    <2>4. ASSUME Distinct(cs) PROVE Distinct(ds)
      BY <2>2, <2>4 DEF Distinct, SameMarker
    <2>5. Patches => \E i \in DOMAIN ds : ds[i] = c
      BY <1>1, <2>2
    <2> QED BY <2>2, <2>3, <2>4, <2>5 DEF ds
  <1>2. CASE ~\E i \in DOMAIN cs : SameMarker(cs[i], c)
    <2>1. ds = Append(cs, c)
      BY <1>2 DEF Publish
    <2>2. /\ ds \in Seq(Comment) /\ DOMAIN cs = 1 .. Len(cs) /\ Len(cs) \in Nat
          /\ DOMAIN ds = 1 .. Len(cs) + 1 /\ ds[Len(cs) + 1] = c
          /\ \A i \in 1 .. Len(cs) : ds[i] = cs[i]
      BY <2>1
    <2> HIDE DEF ds
    <2>3. ASSUME Distinct(cs), NEW i \in DOMAIN ds, NEW j \in DOMAIN ds,
                 SameMarker(ds[i], ds[j])
          PROVE  i = j
      <3>1. (i \in DOMAIN cs \/ i = Len(cs) + 1) /\ (j \in DOMAIN cs \/ j = Len(cs) + 1)
        BY <2>2
      <3>2. \A k \in DOMAIN cs : ~SameMarker(ds[k], c) /\ ~SameMarker(c, ds[k])
        BY <1>2, <2>2 DEF SameMarker
      <3> QED BY <2>2, <2>3, <3>1, <3>2 DEF Distinct
    <2>4. \E i \in DOMAIN ds : ds[i] = c
      BY <2>2
    <2>5. \A i \in DOMAIN cs : i \in DOMAIN ds /\ ds[i] = cs[i]
      BY <2>2
    <2> QED BY <2>2, <2>3, <2>4, <2>5 DEF Distinct, ds
  <1> QED BY <1>1, <1>2

\* The same for /lgtm, of which the head is the marker.
LEMMA ApproveIs ==
    ASSUME NEW hs \in Seq(Nat), NEW h \in Nat
    PROVE  /\ Approve(hs, h) \in Seq(Nat)
           /\ DistinctHeads(hs) => DistinctHeads(Approve(hs, h))
           /\ \E i \in DOMAIN Approve(hs, h) : Approve(hs, h)[i] = h
           /\ \A i \in DOMAIN hs : i \in DOMAIN Approve(hs, h) /\ Approve(hs, h)[i] = hs[i]
  <1> DEFINE gs == Approve(hs, h)
  <1>1. CASE \E i \in DOMAIN hs : hs[i] = h
    BY <1>1 DEF Approve
  <1>2. CASE ~\E i \in DOMAIN hs : hs[i] = h
    <2>1. gs = Append(hs, h)
      BY <1>2 DEF Approve
    <2>2. /\ gs \in Seq(Nat) /\ DOMAIN hs = 1 .. Len(hs) /\ Len(hs) \in Nat
          /\ DOMAIN gs = 1 .. Len(hs) + 1 /\ gs[Len(hs) + 1] = h
          /\ \A i \in 1 .. Len(hs) : gs[i] = hs[i]
      BY <2>1
    <2> HIDE DEF gs
    <2>3. \A i \in DOMAIN gs : i \in DOMAIN hs \/ i = Len(hs) + 1
      BY <2>2
    <2>4. DistinctHeads(hs) => DistinctHeads(gs)
      BY <1>2, <2>2, <2>3 DEF DistinctHeads
    <2>5. /\ \E i \in DOMAIN gs : gs[i] = h
          /\ \A i \in DOMAIN hs : i \in DOMAIN gs /\ gs[i] = hs[i]
      BY <2>2
    <2> QED BY <2>2, <2>4, <2>5 DEF gs
  <1> QED BY <1>1, <1>2

\* Comments and approvals change only by what the reviewer publishes, which
\* happens with its answer or without, also in a shutdown.
LEMMA ForgeSteps ==
    ASSUME ReviewInv, [Next]_vars
    PROVE  \/ comments' = comments /\ lgtm' = lgtm
           \/ w.pc = "comment" /\ comments' = Publish(comments, OwnComment) /\ lgtm' = lgtm
           \/ w.pc = "approve" /\ comments' = comments /\ lgtm' = Approve(lgtm, w.rev.head)
  <1>1. CASE PublishComment
    BY <1>1 DEF PublishComment, At
  <1>2. CASE PublishApproval
    BY <1>2 DEF PublishApproval, At
  <1>3. CASE Halt
    BY <1>3 DEF Halt
  <1>4. CASE ReviewerStep /\ ~PublishComment /\ ~PublishApproval
    BY <1>4 DEF ReviewerStep, Claim, FetchDetails, ResolveHead, ResolveBase, Prepare,
       ReresolveBase, ReresolveHead, ReviewInput, AgentSucceeds, AgentEndsBadly,
       AgentExitsNonZero, UpstreamFails, UpstreamRetry, AssertPristine, FetchCurrent,
       RecheckHead, RecheckBase, Notify, ForgeUnchanged
  <1>5. CASE UNCHANGED vars
    BY <1>5 DEF vars
  <1>6. CASE \/ \E t \in Tasks : enqueue_pr_review(t) \/ LeaseExpires(t)
             \/ \E branch \in {"base", "head"} : Push(branch)
             \/ ApiCatchesUp \/ PullRequestEnds \/ HeartbeatLost \/ Tick \/ Start
    BY <1>6 DEF enqueue_pr_review, LeaseExpires, Push, ApiCatchesUp, PullRequestEnds,
       HeartbeatLost, Tick, Start
  <1> QED BY <1>1, <1>2, <1>3, <1>4, <1>5, <1>6 DEF Next

\* What the reviewer publishes is well formed.
LEMMA OwnCommentType ==
    ASSUME ReviewInv
    PROVE  OwnComment \in Comment /\ w.rev.head \in Nat
  BY DEF ReviewInv, TypeOK, OwnComment, Comment, Reviewer, Revisions

-----------------------------------------------------------------------------
(***************************************************************************)
(* The invariants.                                                         *)
(***************************************************************************)
\* The variables that the reviewer does not share keep their types.
LEMMA WorldTypes ==
    ASSUME ReviewInv, [Next]_vars
    PROVE  /\ comments' \in Seq(Comment) /\ lgtm' \in Seq(Nat)
           /\ tip' \in Revisions /\ api' \in Revisions
           /\ open' \in BOOLEAN /\ up' \in BOOLEAN
           /\ nclaims' \in Nat /\ nhalts' \in Nat /\ nlapses' \in Nat
  <1>0. TypeOK
    BY DEF ReviewInv
  <1>1. comments' \in Seq(Comment) /\ lgtm' \in Seq(Nat)
    BY <1>0, ForgeSteps, OwnCommentType, PublishIs, ApproveIs, ZenonT(40) DEF TypeOK
  <1> SUFFICES /\ tip' \in Revisions /\ api' \in Revisions
               /\ open' \in BOOLEAN /\ up' \in BOOLEAN
               /\ nclaims' \in Nat /\ nhalts' \in Nat /\ nlapses' \in Nat
    BY <1>1
  <1>2. ASSUME NEW b \in {"base", "head"}, Push(b)
        PROVE  tip' \in Revisions
    <2>1. /\ tip' = [tip EXCEPT ![b] = @ + 1] /\ tip \in Revisions
      BY <1>0, <1>2 DEF TypeOK, Push
    <2>2. CASE b = "base"
      BY <2>1, <2>2 DEF Revisions
    <2>3. CASE b = "head"
      BY <2>1, <2>3 DEF Revisions
    <2> QED BY <2>2, <2>3
  <1>3. CASE Claim
    BY <1>0, <1>3, ClaimKeeps DEF TypeOK, Claim, worldVars, boundVars
  <1>4. CASE ReviewerStep /\ ~Claim
    BY <1>0, <1>4 DEF TypeOK, ReviewerStep, FetchDetails, ResolveHead, ResolveBase, Prepare,
       ReresolveBase, ReresolveHead, ReviewInput, AgentSucceeds, AgentEndsBadly,
       AgentExitsNonZero, UpstreamFails, UpstreamRetry, AssertPristine, FetchCurrent,
       RecheckHead, RecheckBase, PublishComment, PublishApproval, Notify, ForgeUnchanged,
       ElsewhereUnchanged, worldVars, boundVars
  <1>5. CASE UNCHANGED vars
    BY <1>0, <1>5 DEF TypeOK, vars, worldVars, boundVars
  <1>6. CASE Halt \/ Start \/ Tick \/ HeartbeatLost \/ ApiCatchesUp \/ PullRequestEnds
    <2>1. /\ tip' = tip /\ api' \in {api, tip} /\ nclaims' = nclaims
          /\ nlapses' = nlapses /\ nhalts' \in {nhalts, nhalts + 1}
      BY <1>6 DEF Halt, Start, Tick, HeartbeatLost, ApiCatchesUp, PullRequestEnds,
         worldVars, boundVars
    <2>2. (open' = open \/ open' = FALSE) /\ (up' = up \/ up' = TRUE \/ up' = FALSE)
      BY <1>6 DEF Halt, Start, Tick, HeartbeatLost, ApiCatchesUp, PullRequestEnds,
         worldVars, boundVars
    <2>3. open' \in BOOLEAN /\ up' \in BOOLEAN
      BY <1>0, <2>2, Zenon DEF TypeOK
    <2> QED BY <1>0, <2>1, <2>3 DEF TypeOK
  <1>7. ASSUME NEW t \in Tasks, enqueue_pr_review(t) \/ LeaseExpires(t)
        PROVE  /\ tip' \in Revisions /\ api' \in Revisions
               /\ open' \in BOOLEAN /\ up' \in BOOLEAN
               /\ nclaims' \in Nat /\ nhalts' \in Nat /\ nlapses' \in Nat
    <2>1. nlapses' \in {nlapses, nlapses + 1}
      BY <1>7 DEF enqueue_pr_review, LeaseExpires, boundVars
    <2>2. UNCHANGED <<tip, api, open, up, nclaims, nhalts>>
      BY <1>7 DEF enqueue_pr_review, LeaseExpires, worldVars, boundVars
    <2> QED BY <1>0, <2>1, <2>2 DEF TypeOK
  <1>8. ASSUME NEW b \in {"base", "head"}, Push(b)
        PROVE  /\ tip' \in Revisions /\ api' \in Revisions
               /\ open' \in BOOLEAN /\ up' \in BOOLEAN
               /\ nclaims' \in Nat /\ nhalts' \in Nat /\ nlapses' \in Nat
    BY <1>0, <1>2, <1>8 DEF TypeOK, Push, boundVars
  <1> QED BY <1>3, <1>4, <1>5, <1>6, <1>7, <1>8 DEF Next

LEMMA ReviewInit == Init => ReviewInv
  <1> SUFFICES ASSUME Init PROVE ReviewInv
    OBVIOUS
  <1>1. w.pc = "free" /\ w.token = NoClaim /\ w \in Reviewer
    BY FreeType DEF Init, Free
  <1>2. row \in [Tasks -> Row] /\ \A t \in Tasks : row[t].status = "absent" /\ row[t].claim = NoClaim
    BY DEF Init, Row, Statuses, NoClaim, NoRev, Revisions
  <1>3. TypeOK
    <2>1. open \in BOOLEAN /\ up \in BOOLEAN
      BY Zenon DEF Init
    <2>2. comments \in Seq(Comment) /\ lgtm \in Seq(Nat)
      BY DEF Init
    <2>3. /\ tip \in Revisions /\ api \in Revisions
          /\ nclaims \in Nat /\ nhalts \in Nat /\ nlapses \in Nat
      BY DEF Init, Revisions
    <2> QED BY <1>1, <1>2, <2>1, <2>2, <2>3 DEF TypeOK
  <1> QED
    BY <1>1, <1>2, <1>3, PcFacts DEF ReviewInv, ClaimIffActive, HasTask, HasToken, RowFollows,
       Recorded, WorkPcs, ACTIVE_STATUSES

LEMMA ReviewNext == ReviewInv /\ [Next]_vars => ReviewInv'
  <1> SUFFICES ASSUME ReviewInv, [Next]_vars PROVE ReviewInv'
    OBVIOUS
  <1> SUFFICES /\ row' \in [Tasks -> Row] /\ w' \in Reviewer
               /\ (ClaimIffActive /\ HasTask /\ HasToken /\ RowFollows)'
    BY WorldTypes DEF ReviewInv, TypeOK
  <1>1. CASE ReviewerStep /\ w.pc \in WorkPcs
    BY <1>1, WorkerSteps, WorkKeeps
  <1>2. CASE ReviewerStep /\ w.pc \notin WorkPcs
    <2>1. Claim \/ Notify
      BY <1>2 DEF ReviewerStep, FetchDetails, ResolveHead, ResolveBase, Prepare,
       ReresolveBase, ReresolveHead, ReviewInput, AgentSucceeds, AgentEndsBadly,
       AgentExitsNonZero, UpstreamFails, UpstreamRetry, AssertPristine, FetchCurrent,
       RecheckHead, RecheckBase, PublishComment, PublishApproval, At, WorkPcs,
       PreparingPcs, ReviewingPcs, CommentingPcs
    <2>2. CASE Notify
      <3>1. row' = row /\ w' = Free
        BY <2>2 DEF Notify
      <3>2. Free.pc = "free" /\ Free.token = NoClaim
        BY DEF Free
      <3> QED BY <3>1, <3>2, FreeType, PcFacts DEF ReviewInv, TypeOK, ClaimIffActive, HasTask,
            HasToken, RowFollows, Recorded, WorkPcs
    <2> QED BY <2>1, <2>2, ClaimKeeps
  <1>3. CASE Tick
    BY <1>3, TickKeeps
  <1>4. CASE UNCHANGED vars
    BY <1>4 DEF vars, ReviewInv, TypeOK, ClaimIffActive, HasTask, HasToken, RowFollows
  <1> QED BY <1>1, <1>2, <1>3, <1>4, OtherKeeps DEF Next

LEMMA ReviewInvariant == Spec => []ReviewInv
  BY ReviewInit, ReviewNext, PTL DEF Spec

\* Every variable of the review engine keeps its type, for all bounds.
THEOREM ReviewTypes == Spec => []TypeOK
  <1>1. ReviewInv => TypeOK
    BY DEF ReviewInv
  <1> QED BY <1>1, ReviewInvariant, PTL

\* The token of a review is there exactly while it is carried out, whatever
\* shutdown, crash and recovery did to its reviewer.
THEOREM ReviewClaims == Spec => []ClaimIffActive
  <1>1. ReviewInv => ClaimIffActive
    BY DEF ReviewInv
  <1> QED BY <1>1, ReviewInvariant, PTL

\* A reviewer that has lost its claim never writes the row again.
THEOREM LostReviewersAreHarmless == Spec => LostReviewerNeverWrites
  <1> DEFINE Lost == w.token # NoClaim /\ w.token # row[w.task].claim /\ w' # w => row' = row
  <1>1. ASSUME ReviewInv, [Next]_vars PROVE Lost
    <2> SUFFICES ASSUME w.token # NoClaim, w.token # row[w.task].claim, w' # w
                 PROVE  row' = row
      OBVIOUS
    <2>1. w.pc \in WorkPcs /\ ~Owns
      BY <1>1 DEF ReviewInv, HasToken, Owns
    <2>2. CASE ReviewerStep
      BY <1>1, <2>1, <2>2, WorkerSteps DEF WorkStep, Goes, Loses, Ends, Writes
    <2>3. CASE HeartbeatLost \/ Halt
      BY <2>3 DEF HeartbeatLost, Halt
    <2>4. CASE Tick
      BY <2>1, <2>4, PcFacts DEF Tick
    <2>5. CASE \/ \E t \in Tasks : enqueue_pr_review(t) \/ LeaseExpires(t)
               \/ \E branch \in {"base", "head"} : Push(branch)
               \/ ApiCatchesUp \/ PullRequestEnds \/ Start \/ UNCHANGED vars
      BY <2>5 DEF enqueue_pr_review, LeaseExpires, Push, ApiCatchesUp, PullRequestEnds,
         Start, vars
    <2> QED BY <1>1, <2>2, <2>3, <2>4, <2>5 DEF Next
  <1>2. [][Lost]_vars => LostReviewerNeverWrites
    BY PTL DEF LostReviewerNeverWrites
  <1> QED BY <1>1, <1>2, ReviewInvariant, PTL DEF Spec

\* Retries and recoveries never comment twice on one revision and never
\* approve one head twice, for any number of reviews and interruptions.
THEOREM NoSecondComment == Spec => []OneCommentPerRevision
  <1>0. OneCommentPerRevision <=> Distinct(comments) /\ DistinctHeads(lgtm)
    BY DEF OneCommentPerRevision, Distinct, DistinctHeads
  <1>1. Init => OneCommentPerRevision
    BY DEF Init, OneCommentPerRevision
  <1>2. ReviewInv /\ OneCommentPerRevision /\ [Next]_vars => OneCommentPerRevision'
    <2> SUFFICES ASSUME ReviewInv, OneCommentPerRevision, [Next]_vars
                 PROVE  Distinct(comments') /\ DistinctHeads(lgtm')
      BY DEF OneCommentPerRevision, Distinct, DistinctHeads
    <2>1. comments \in Seq(Comment) /\ lgtm \in Seq(Nat)
      BY DEF ReviewInv, TypeOK
    <2> QED BY <1>0, <2>1, ForgeSteps, OwnCommentType, PublishIs, ApproveIs
  <1> QED BY <1>1, <1>2, ReviewInvariant, PTL DEF Spec

-----------------------------------------------------------------------------
(***************************************************************************)
(* Completed reviews are published, on a forge that rewrites comments.     *)
(***************************************************************************)
\* What CompletedIsPublished says of one task, in terms of the forge.
Shown(c)   == \E i \in DOMAIN comments : comments[i] = c
HasLgtm(h) == \E i \in DOMAIN lgtm : lgtm[i] = h

PublishedInv == ApprovesPublished /\ CompletedIsPublished

\* What is shown of a review that is completed stays, because the reviewer at
\* work is not on its task; approvals are never taken back.
LEMMA ForgeKeeps ==
    ASSUME ReviewInv, [Next]_vars
    PROVE  /\ \A c \in Comment : Shown(c) /\ (c.task # w.task \/ w.pc # "comment") => Shown(c)'
           /\ \A h \in Nat : HasLgtm(h) => HasLgtm(h)'
  <1>1. comments \in Seq(Comment) /\ lgtm \in Seq(Nat)
    BY DEF ReviewInv, TypeOK
  <1>2. ASSUME NEW c \in Comment, Shown(c), c.task # w.task
        PROVE  ~SameMarker(c, OwnComment)
    BY <1>2 DEF SameMarker, OwnComment
  <1>3. ASSUME NEW c \in Comment, Shown(c), c.task # w.task \/ w.pc # "comment"
        PROVE  Shown(c)'
    <2>1. CASE comments' = comments
      BY <1>3, <2>1 DEF Shown
    <2>2. CASE w.pc = "comment" /\ comments' = Publish(comments, OwnComment)
      <3>1. PICK i \in DOMAIN comments : comments[i] = c
        BY <1>3 DEF Shown
      <3>2. ~SameMarker(comments[i], OwnComment)
        BY <1>2, <1>3, <2>2, <3>1
      <3>3. i \in DOMAIN comments' /\ comments'[i] = c
        BY <1>1, <2>2, <3>1, <3>2, OwnCommentType, PublishIs
      <3> QED BY <3>3 DEF Shown
    <2> QED BY <2>1, <2>2, ForgeSteps
  <1>4. ASSUME NEW h \in Nat, HasLgtm(h)
        PROVE  HasLgtm(h)'
    <2>1. CASE lgtm' = lgtm
      BY <1>4, <2>1 DEF HasLgtm
    <2>2. CASE lgtm' = Approve(lgtm, w.rev.head)
      <3>1. PICK i \in DOMAIN lgtm : lgtm[i] = h
        BY <1>4 DEF HasLgtm
      <3>2. i \in DOMAIN lgtm' /\ lgtm'[i] = h
        BY <1>1, <2>2, <3>1, OwnCommentType, ApproveIs
      <3> QED BY <3>2 DEF HasLgtm
    <2> QED BY <2>1, <2>2, ForgeSteps
  <1> QED BY <1>3, <1>4

\* A row is completed by the reviewer that has published its comment and, if
\* there was nothing to find, its approval.
LEMMA CompletionIs ==
    ASSUME ReviewInv, [Next]_vars, NEW t \in Tasks, row'[t].status = "completed"
    PROVE  /\ row'[t].rev = row[t].rev /\ row'[t].result = row[t].result
           /\ \/ row[t].status = "completed" /\ row'[t].url = row[t].url
              \/ /\ t = w.task /\ Owns /\ IsPublished /\ w.pc \in CommentingPcs
                 /\ row'[t].url
  <1>0. row \in [Tasks -> Row] /\ row[t] \in Row
    BY DEF ReviewInv, TypeOK
  <1>1. CASE ReviewerStep /\ w.pc \in WorkPcs
    <2>0. w.task \in Tasks /\ row[w.task].status # "completed"
      BY <1>1, PcFacts DEF ReviewInv, HasTask, ACTIVE_STATUSES
    <2>1. CASE Goes \/ Loses
      BY <2>1 DEF Goes, Loses
    <2>2. CASE Writes \/ Ends("failed")
      BY <1>0, <2>0, <2>2 DEF Writes, Ends, ACTIVE_STATUSES
    <2>3. CASE Ends("completed") /\ IsPublished
      <3>1. row' = [row EXCEPT ![w.task] =
                 [row[w.task] EXCEPT !.status = "completed", !.lease = FALSE,
                                     !.claim = NoClaim, !.url = TRUE]]
        BY <2>3 DEF Ends
      <3>2. t # w.task => row'[t] = row[t]
        BY <1>0, <3>1
      <3>3. t = w.task => /\ row'[t].url /\ row'[t].rev = row[t].rev
                          /\ row'[t].result = row[t].result
        BY <1>0, <3>1 DEF Row
      <3> QED BY <2>3, <3>2, <3>3 DEF Ends, IsPublished, CommentingPcs
    <2> QED BY <1>1, <2>1, <2>2, <2>3, WorkerSteps DEF WorkStep
  <1>2. CASE ReviewerStep /\ w.pc \notin WorkPcs
    <2>1. Claim \/ Notify
      BY <1>2 DEF ReviewerStep, FetchDetails, ResolveHead, ResolveBase, Prepare,
       ReresolveBase, ReresolveHead, ReviewInput, AgentSucceeds, AgentEndsBadly,
       AgentExitsNonZero, UpstreamFails, UpstreamRetry, AssertPristine, FetchCurrent,
       RecheckHead, RecheckBase, PublishComment, PublishApproval, At, WorkPcs,
       PreparingPcs, ReviewingPcs, CommentingPcs
    <2>2. CASE Claim
      BY <1>0, <2>2 DEF Claim, Lose
    <2> QED BY <2>1, <2>2 DEF Notify
  <1>3. CASE Tick
    BY <1>0, <1>3 DEF Tick, Expired, Recovered, Row
  <1>4. ASSUME NEW s \in Tasks, enqueue_pr_review(s) \/ LeaseExpires(s)
        PROVE  /\ row'[t].rev = row[t].rev /\ row'[t].result = row[t].result
               /\ row[t].status = "completed" /\ row'[t].url = row[t].url
    BY <1>0, <1>4 DEF enqueue_pr_review, LeaseExpires, Row
  <1>5. CASE \/ \E branch \in {"base", "head"} : Push(branch)
             \/ ApiCatchesUp \/ PullRequestEnds \/ HeartbeatLost \/ Halt \/ Start
             \/ UNCHANGED vars
    BY <1>5 DEF Push, ApiCatchesUp, PullRequestEnds, HeartbeatLost, Halt, Start, vars
  <1> QED BY <1>1, <1>2, <1>3, <1>4, <1>5 DEF Next

\* A reviewer comes to its approval over its comment, and stays there.
LEMMA ApprovalFollows ==
    ASSUME ReviewInv, [Next]_vars, w'.pc = "approve"
    PROVE  \/ w.pc = "approve" /\ OwnComment' = OwnComment
           \/ w.pc = "comment" /\ OwnComment' = OwnComment
              /\ comments' = Publish(comments, OwnComment)
  <1>0. w \in Reviewer /\ Free.pc = "free"
    BY DEF ReviewInv, TypeOK, Free
  <1>1. CASE ReviewerStep /\ w.pc \in WorkPcs
    <2>1. WorkStep
      BY <1>1, WorkerSteps
    <2>2. ~Loses /\ ~Writes
      BY <1>0 DEF Loses, Writes
    <2>3. ~Ends("failed") /\ ~Ends("completed")
      BY DEF Ends, Free
    <2>4. GoesToApprove
      BY <2>1, <2>2, <2>3 DEF WorkStep, Goes
    <2> QED BY <2>4 DEF GoesToApprove, OwnComment
  <1>2. CASE ReviewerStep /\ w.pc \notin WorkPcs
    <2>1. Claim \/ Notify
      BY <1>2 DEF ReviewerStep, FetchDetails, ResolveHead, ResolveBase, Prepare,
       ReresolveBase, ReresolveHead, ReviewInput, AgentSucceeds, AgentEndsBadly,
       AgentExitsNonZero, UpstreamFails, UpstreamRetry, AssertPristine, FetchCurrent,
       RecheckHead, RecheckBase, PublishComment, PublishApproval, At, WorkPcs,
       PreparingPcs, ReviewingPcs, CommentingPcs
    <2> QED BY <1>0, <2>1 DEF Claim, Lose, Notify, Reviewer
  <1>3. CASE Tick
    BY <1>0, <1>3 DEF Tick, OwnComment, Free
  <1>4. CASE HeartbeatLost
    BY <1>0, <1>4 DEF HeartbeatLost, OwnComment, Reviewer
  <1>5. CASE Halt
    BY <1>0, <1>5 DEF Halt
  <1>6. CASE \/ \E t \in Tasks : enqueue_pr_review(t) \/ LeaseExpires(t)
             \/ \E branch \in {"base", "head"} : Push(branch)
             \/ ApiCatchesUp \/ PullRequestEnds \/ Start \/ UNCHANGED vars
    BY <1>6 DEF enqueue_pr_review, LeaseExpires, Push, ApiCatchesUp, PullRequestEnds,
       Start, vars, OwnComment
  <1> QED BY <1>1, <1>2, <1>3, <1>4, <1>5, <1>6 DEF Next

\* On a forge that rewrites a comment with a known marker, a completed review
\* is on the pull request: its summary with the recorded result, and /lgtm for
\* a clean one, after any number of interrupted attempts.
THEOREM CompletedReviewsAreShown ==
    ASSUME Patches
    PROVE  Spec => []CompletedIsPublished
  <1> DEFINE C(t) == [task |-> t, rev |-> row[t].rev, out |-> row[t].result]
  <1>0. CompletedIsPublished <=>
           \A t \in Tasks : row[t].status = "completed" =>
               /\ row[t].url /\ Shown(C(t))
               /\ row[t].result = "clean" => HasLgtm(row[t].rev.head)
    BY DEF CompletedIsPublished, Shown, HasLgtm
  <1>1. Init => PublishedInv
    BY DEF Init, PublishedInv, ApprovesPublished, CompletedIsPublished, Free
  <1>2. ReviewInv /\ PublishedInv /\ [Next]_vars => PublishedInv'
    <2> SUFFICES ASSUME ReviewInv, PublishedInv, [Next]_vars
                 PROVE  PublishedInv'
      OBVIOUS
    <2>0. /\ comments \in Seq(Comment) /\ lgtm \in Seq(Nat) /\ OwnComment \in Comment
          /\ row \in [Tasks -> Row] /\ w.rev.head \in Nat /\ row' \in [Tasks -> Row]
      BY OwnCommentType, ReviewNext DEF ReviewInv, TypeOK
    <2>1. comments' = Publish(comments, OwnComment) =>
             \E i \in DOMAIN comments' : comments'[i] = OwnComment
      BY <2>0, PublishIs
    <2>2. ApprovesPublished'
      <3> SUFFICES ASSUME w'.pc = "approve"
                   PROVE  \E i \in DOMAIN comments' : comments'[i] = OwnComment'
        BY DEF ApprovesPublished
      <3>1. CASE w.pc = "approve" /\ OwnComment' = OwnComment
        <4>1. Shown(OwnComment)
          BY <3>1 DEF PublishedInv, ApprovesPublished, Shown
        <4>2. comments' = comments
          BY <3>1, ForgeSteps
        <4> QED BY <3>1, <4>1, <4>2 DEF Shown
      <3>2. CASE OwnComment' = OwnComment /\ comments' = Publish(comments, OwnComment)
        <4>1. \E i \in DOMAIN comments' : comments'[i] = OwnComment
          BY <2>1, <3>2
        <4> QED BY <3>2, <4>1
      <3> QED BY <3>1, <3>2, ApprovalFollows
    <2>3. ASSUME NEW t \in Tasks, row'[t].status = "completed"
          PROVE  /\ row'[t].url
                 /\ \E i \in DOMAIN comments' : comments'[i] = C(t)
                 /\ row[t].result = "clean" =>
                       \E i \in DOMAIN lgtm' : lgtm'[i] = row[t].rev.head
      <3>1. CASE row[t].status = "completed" /\ row'[t].url = row[t].url
        <4>1. /\ row[t].url /\ Shown(C(t))
              /\ row[t].result = "clean" => HasLgtm(row[t].rev.head)
          BY <1>0, <3>1 DEF PublishedInv
        <4>2. w.pc = "comment" => w.task # t
          BY <3>1 DEF ReviewInv, HasTask, ACTIVE_STATUSES
        <4>3. C(t) \in Comment /\ C(t).task = t /\ row[t].rev.head \in Nat
          <5>1. PICK i \in DOMAIN comments : comments[i] = C(t)
            BY <4>1 DEF Shown
          <5> QED BY <2>0, <5>1 DEF Row, Revisions
        <4> HIDE DEF C
        <4>4. /\ \A c \in Comment : Shown(c) /\ (c.task # w.task \/ w.pc # "comment") =>
                     \E i \in DOMAIN comments' : comments'[i] = c
              /\ \A h \in Nat : HasLgtm(h) => \E i \in DOMAIN lgtm' : lgtm'[i] = h
          BY ForgeKeeps DEF Shown, HasLgtm
        <4> QED BY <3>1, <4>1, <4>2, <4>3, <4>4
      <3>2. CASE t = w.task /\ Owns /\ IsPublished /\ w.pc \in CommentingPcs /\ row'[t].url
        <4>1. C(t) = OwnComment /\ row[t].rev = w.rev /\ row[t].result = w.out
          BY <3>2 DEF ReviewInv, RowFollows, Recorded, Owns, OwnComment
        <4>2. CASE w.pc = "comment" /\ comments' = Publish(comments, OwnComment) /\ ~WantsApproval
          <5>1. \E i \in DOMAIN comments' : comments'[i] = OwnComment
            BY <2>1, <4>2
          <5> QED BY <3>2, <4>1, <4>2, <5>1 DEF WantsApproval
        <4>3. CASE w.pc = "approve" /\ lgtm' = Approve(lgtm, w.rev.head)
          <5>1. \E i \in DOMAIN comments' : comments'[i] = OwnComment
            BY <4>3, ForgeSteps DEF PublishedInv, ApprovesPublished
          <5>2. \E i \in DOMAIN lgtm' : lgtm'[i] = w.rev.head
            BY <2>0, <4>3, ApproveIs
          <5> QED BY <3>2, <4>1, <5>1, <5>2
        <4> QED BY <3>2, <4>2, <4>3 DEF IsPublished
      <3> QED BY <2>3, <3>1, <3>2, CompletionIs
    <2>4. CompletedIsPublished'
      BY <2>3, CompletionIs DEF CompletedIsPublished
    <2> QED BY <2>2, <2>4 DEF PublishedInv
  <1> QED BY <1>1, <1>2, ReviewInvariant, PTL DEF Spec, PublishedInv
-----------------------------------------------------------------------------
(***************************************************************************)
(* The inductive invariant of the diff, as long as no line is cut.         *)
(***************************************************************************)
\* The state in which the parser waits for what git prints next.
Awaits == [start |-> "outside", header |-> "header", old |-> "old_path",
           new |-> "ready", hunk |-> "hunk"]

Diffs == [at : {"start", "header", "old", "new", "hunk"}, name : [Sides -> Names],
          line : [Sides -> Nat], seen : SUBSET (Names \X Sides), files : Nat]
Parsers == [state : {"outside", "header", "old_path", "ready", "hunk"},
            path : [Sides -> Paths \cup {None}], line : [Sides -> Nat],
            files : Nat, count : [Sides -> Nat]]

DiffTypes ==
    /\ git \in Diffs /\ parser \in Parsers
    /\ ranges \in [Paths \X Sides -> Seq(Nat \X Nat)]
    /\ IsFiniteSet(changed) /\ changed \subseteq Names \X Sides \X Nat

\* The parser is where git is: in the same file, at the same lines.
ParserFollows ==
    /\ parser.files = git.files /\ parser.state = Awaits[git.at]
    /\ git.at \in {"old", "new", "hunk"} =>
          parser.path["LEFT"] = PathOf(Printed(git.name["LEFT"]))
    /\ git.at \in {"new", "hunk"} =>
          parser.path["RIGHT"] = PathOf(Printed(git.name["RIGHT"]))
    /\ git.at = "hunk" => parser.line = git.line

\* The changed lines belong to files that were printed; those of this file are
\* behind the next line.
LinesAhead ==
    /\ \A s \in Sides : Exists(s) => git.line[s] >= 1 /\ <<git.name[s], s>> \in git.seen
    /\ \A c \in changed :
          /\ c[1] # "/dev/null" /\ c[3] \in 1 .. MaxLine /\ <<c[1], c[2]>> \in git.seen
          /\ c[1] = git.name[c[2]] => c[3] < git.line[c[2]]

Counted == \A s \in Sides : parser.count[s] = Cardinality({c \in changed : c[2] = s})

\* Ranges are not empty, and do not touch.
Blocks(rs) ==
    /\ \A n \in 1 .. Len(rs) : rs[n][1] <= rs[n][2]
    /\ \A n \in 1 .. Len(rs) - 1 : rs[n][2] + 1 < rs[n + 1][1]

\* The ranges under the name that git prints are the changed lines of the file.
Ranged ==
    /\ \A f \in Files, s \in Sides :
          /\ Blocks(ranges[<<Printed(f), s>>])
          /\ Covered(ranges[<<Printed(f), s>>]) = LinesOf(f, s)
    /\ \A s \in Sides : ranges[<<Spaced, s>>] = <<>>

DiffInv == DiffTypes /\ ParserFollows /\ LinesAhead /\ Counted /\ Ranged

\* The lines that are left when the diff is at its end are still covered.
ResultInv ==
    /\ splits \in Nat
    /\ splits = 0 => IF stage = "diff" THEN DiffInv
                     ELSE Ranged /\ parser.files = 0 /\ git.files = 0
-----------------------------------------------------------------------------
(***************************************************************************)
(* Ranges.                                                                 *)
(***************************************************************************)
\* The next line makes the last range longer.
LEMMA LongerRange ==
    ASSUME NEW rs \in Seq(Nat \X Nat), NEW m \in Nat, m = Len(rs), NEW n \in Nat,
           Extends(rs, n), rs[m][2] < n
    PROVE  /\ m \in 1 .. m /\ rs[m][2] + 1 = n
           /\ WithLine(rs, n) = [rs EXCEPT ![m] = <<rs[m][1], n>>]
  <1>1. m \in 1 .. m /\ n <= rs[m][2] + 1
    BY DEF Extends
  <1>2. rs[m][2] \in Nat /\ rs[m][1] \in Nat
    BY <1>1
  <1>3. n > rs[m][2] /\ rs[m][2] + 1 = n
    BY <1>1, <1>2
  <1>4. WithLine(rs, n) =
          [rs EXCEPT ![m] = <<rs[m][1], IF n > rs[m][2] THEN n ELSE rs[m][2]>>]
    BY DEF WithLine
  <1> QED  BY <1>1, <1>3, <1>4

\* record adds a line behind the ranges to what they cover, and nothing else.
LEMMA WithLineCovers ==
    ASSUME NEW rs \in Seq(Nat \X Nat), Blocks(rs), NEW n \in Nat,
           rs # <<>> => rs[Len(rs)][2] < n
    PROVE  /\ WithLine(rs, n) \in Seq(Nat \X Nat)
           /\ Blocks(WithLine(rs, n))
           /\ Covered(WithLine(rs, n)) = Covered(rs) \cup {n}
  <1>0. PICK m \in Nat : m = Len(rs)
    OBVIOUS
  <1> DEFINE new == WithLine(rs, n)
  <1>1. DOMAIN rs = 1 .. m /\ \A k \in 1 .. m : rs[k] \in Nat \X Nat
    BY <1>0
  <1>2. \A k \in 1 .. m : rs[k][1] \in Nat /\ rs[k][2] \in Nat /\ rs[k][1] <= rs[k][2]
    BY <1>0, <1>1 DEF Blocks
  <1>20. \A k \in 1 .. m - 1 : rs[k][2] + 1 < rs[k + 1][1]
    BY <1>0 DEF Blocks
  <1>3. CASE Extends(rs, n)
    <2>1. m \in 1 .. m /\ rs[m][2] + 1 = n /\ new = [rs EXCEPT ![m] = <<rs[m][1], n>>]
      BY <1>0, <1>3, LongerRange DEF Extends
    <2> HIDE DEF new
    <2>2. rs[m][1] \in Nat /\ rs[m][1] <= n
      BY <1>2, <2>1
    <2>3. <<rs[m][1], n>> \in Nat \X Nat
      BY <2>2
    <2>4. /\ new \in Seq(Nat \X Nat) /\ Len(new) = m /\ DOMAIN new = 1 .. m
          /\ new[m] = <<rs[m][1], n>> /\ \A k \in 1 .. m : k # m => new[k] = rs[k]
      BY <1>0, <1>1, <2>1, <2>3
    <2>5. new[m][1] = rs[m][1] /\ new[m][2] = n
      BY <2>4
    <2>6. Blocks(new)
      <3>1. ASSUME NEW k \in 1 .. m PROVE new[k][1] <= new[k][2]
        BY <1>2, <2>2, <2>4, <2>5
      <3>2. ASSUME NEW k \in 1 .. m - 1 PROVE new[k][2] + 1 < new[k + 1][1]
        <4>1. k \in 1 .. m /\ k # m /\ k + 1 \in 1 .. m
          OBVIOUS
        <4>2. new[k] = rs[k] /\ new[k + 1][1] = rs[k + 1][1]
          BY <2>4, <2>5, <4>1
        <4> QED  BY <1>20, <4>2
      <3> QED  BY <2>4, <3>1, <3>2 DEF Blocks
    <2>7. ASSUME NEW x PROVE x \in Covered(new) <=> x \in Covered(rs) \cup {n}
      <3>1. x \in Covered(new) <=> \E k \in 1 .. m : x \in new[k][1] .. new[k][2]
        BY <2>4 DEF Covered
      <3>2. x \in Covered(rs) <=> \E k \in 1 .. m : x \in rs[k][1] .. rs[k][2]
        BY <1>1 DEF Covered
      <3>3. x \in rs[m][1] .. n <=> x \in rs[m][1] .. rs[m][2] \/ x = n
        BY <1>2, <2>1, <2>2
      <3> QED  BY <2>1, <2>4, <2>5, <3>1, <3>2, <3>3
    <2>8. Covered(new) = Covered(rs) \cup {n}
      BY <2>7
    <2> QED  BY <2>4, <2>6, <2>8 DEF new
  <1>4. CASE ~Extends(rs, n)
    <2>1. new = Append(rs, <<n, n>>)
      BY <1>4 DEF WithLine
    <2> HIDE DEF new
    <2>2. <<n, n>> \in Nat \X Nat
      OBVIOUS
    <2>3. /\ new \in Seq(Nat \X Nat) /\ Len(new) = m + 1 /\ DOMAIN new = 1 .. m + 1
          /\ new[m + 1] = <<n, n>> /\ \A k \in 1 .. m : new[k] = rs[k]
      BY <1>0, <1>1, <2>1, <2>2
    <2>4. new[m + 1][1] = n /\ new[m + 1][2] = n
      BY <2>3
    <2>5. m > 0 => rs[m][2] + 1 < n
      <3>1. m > 0 => rs # <<>> /\ rs[m][2] \in Nat
        BY <1>0, <1>2
      <3> QED  BY <1>0, <1>4, <3>1 DEF Extends
    <2>6. Blocks(new)
      <3>1. ASSUME NEW k \in 1 .. m + 1 PROVE new[k][1] <= new[k][2]
        <4>1. CASE k = m + 1
          BY <2>4, <4>1
        <4>2. CASE k # m + 1
          <5>1. k \in 1 .. m
            BY <4>2
          <5>2. new[k] = rs[k]
            BY <2>3, <5>1
          <5> QED  BY <1>2, <5>1, <5>2
        <4> QED  BY <4>1, <4>2
      <3>2. ASSUME NEW k \in 1 .. m PROVE new[k][2] + 1 < new[k + 1][1]
        <4>1. CASE k = m
          BY <2>3, <2>4, <2>5, <4>1
        <4>2. CASE k # m
          <5>1. k \in 1 .. m - 1 /\ k + 1 \in 1 .. m
            BY <4>2
          <5> QED  BY <1>20, <2>3, <5>1
        <4> QED  BY <4>1, <4>2
      <3>3. Len(new) = m + 1 /\ Len(new) - 1 = m
        BY <2>3
      <3> QED  BY <3>1, <3>2, <3>3 DEF Blocks
    <2>7. ASSUME NEW x PROVE x \in Covered(new) <=> x \in Covered(rs) \cup {n}
      <3>1. x \in Covered(new) <=> \E k \in 1 .. m + 1 : x \in new[k][1] .. new[k][2]
        BY <2>3 DEF Covered
      <3>2. x \in Covered(rs) <=> \E k \in 1 .. m : x \in rs[k][1] .. rs[k][2]
        BY <1>1 DEF Covered
      <3>3. x \in new[m + 1][1] .. new[m + 1][2] <=> x = n
        BY <2>4
      <3>4. \A k \in 1 .. m + 1 : k \in 1 .. m \/ k = m + 1
        OBVIOUS
      <3>5. \A k \in 1 .. m : k \in 1 .. m + 1
        OBVIOUS
      <3>6. m + 1 \in 1 .. m + 1
        OBVIOUS
      <3> QED  BY <2>3, <3>1, <3>2, <3>3, <3>4, <3>5, <3>6
    <2>8. Covered(new) = Covered(rs) \cup {n}
      BY <2>7
    <2> QED  BY <2>3, <2>6, <2>8 DEF new
  <1> QED  BY <1>3, <1>4

\* The last line of the last range is covered.
LEMMA LastIsCovered ==
    ASSUME NEW rs \in Seq(Nat \X Nat), Blocks(rs), rs # <<>>
    PROVE  rs[Len(rs)][2] \in Covered(rs)
  <1>0. PICK m \in Nat : m = Len(rs)
    OBVIOUS
  <1>1. m \in 1 .. m /\ rs[m] \in Nat \X Nat /\ DOMAIN rs = 1 .. m
    BY <1>0
  <1>2. rs[m][1] \in Nat /\ rs[m][2] \in Nat /\ rs[m][1] <= rs[m][2]
    BY <1>0, <1>1 DEF Blocks
  <1>3. rs[m][2] \in rs[m][1] .. rs[m][2]
    BY <1>2
  <1> QED  BY <1>0, <1>1, <1>3 DEF Covered
-----------------------------------------------------------------------------
(***************************************************************************)
(* The parser reads what git prints.                                       *)
(***************************************************************************)
\* A line of each shape, where git prints one, is read by the branch made for it.
LEMMA LineRead ==
    ASSUME NEW l, Parse(l)
    PROVE  /\ l.shape = "diff" => ParseFile(l)
           /\ l.shape = "---" /\ parser.state = "header" => ParseOld(l)
           /\ l.shape = "+++" /\ parser.state = "old_path" => ParseNew(l)
           /\ l.shape = "@@" /\ parser.state \in {"ready", "hunk"} => ParseHunk(l)
           /\ parser.state = "hunk" /\ l.shape \in {"-", "---"} => Record("LEFT")
           /\ parser.state = "hunk" /\ l.shape \in {"+", "+++"} => Record("RIGHT")
           /\ parser.state = "hunk" /\ l.shape = " " =>
                 /\ parser' = [parser EXCEPT !.line = [s \in Sides |-> @[s] + 1]]
                 /\ ranges' = ranges
  BY DEF Parse, ParseFile, ParseOld, ParseNew, ParseName, ParseHunk, ParseBody, Skip

\* The two sides of a diff.
LEMMA SideCases == Sides = {"LEFT", "RIGHT"} /\ \A s \in Sides : s = "LEFT" \/ s = "RIGHT"
  BY DEF Sides

\* normalize_path yields a path or nothing.
LEMMA PathsOf == \A name : PathOf(name) \in Paths \cup {None} /\ None \notin Paths
  BY DEF PathOf, Paths, Files, Spaced, Tabbed, None

\* Every file has a path of its own, which is not the one with the space.
LEMMA PrintedIs ==
    /\ \A f \in Files : /\ Printed(f) \in Paths /\ Printed(f) \notin {None, Spaced}
                         /\ PathOf(Printed(f)) = Printed(f)
    /\ \A f, g \in Files : Printed(f) = Printed(g) => f = g
    /\ \A f \in Names \ Files : PathOf(Printed(f)) = None
    /\ "p" \in Files /\ Printed("p") = "p" /\ "p" # Spaced
    /\ \A f \in Files : Printed(f) = "p" => f = "p"
    /\ Files \subseteq Paths /\ Spaced \in Paths
  BY DEF Printed, PathOf, Paths, Files, Names, Spaced, Tabbed, None

\* The lines and the counts stay what they are while changed and ranges do.
LEMMA SameRanges ==
    ASSUME Ranged, Counted, UNCHANGED <<changed, ranges>>, parser'.count = parser.count
    PROVE  Ranged' /\ Counted'
  BY DEF Ranged, Counted, LinesOf

\* The header of a file is a state of the diff.
LEMMA FileTyped ==
    ASSUME git \in Diffs, PrintFile
    PROVE  git' \in Diffs
  <1>1. PICK old \in Names, new \in Names :
          git' = [at |-> "header", files |-> git.files + 1,
                  name |-> [s \in Sides |-> IF s = "LEFT" THEN old ELSE new],
                  line |-> [s \in Sides |-> 1],
                  seen |-> git.seen \cup ({<<old, "LEFT">>, <<new, "RIGHT">>}
                                             \ {<<"/dev/null", s>> : s \in Sides})]
    BY DEF PrintFile
  <1> DEFINE named == [s \in Sides |-> IF s = "LEFT" THEN old ELSE new]
             seen == git.seen \cup ({<<old, "LEFT">>, <<new, "RIGHT">>}
                                       \ {<<"/dev/null", s>> : s \in Sides})
             line == [s \in Sides |-> 1]
  <1>2. git.seen \subseteq Names \X Sides /\ git.files \in Nat
    BY DEF Diffs
  <1>3. seen \subseteq Names \X Sides
    BY <1>2, SideCases
  <1>4. named \in [Sides -> Names] /\ line \in [Sides -> Nat]
    OBVIOUS
  <1> HIDE DEF named, seen, line
  <1>5. git' = [at |-> "header", files |-> git.files + 1, name |-> named,
                line |-> line, seen |-> seen]
    BY <1>1 DEF named, seen, line
  <1> QED  BY <1>2, <1>3, <1>4, <1>5 DEF Diffs

\* A file whose names did not occur before.
LEMMA FileKeeps ==
    ASSUME DiffInv, PrintFile
    PROVE  DiffInv'
  <1>1. PICK old \in Names, new \in Names :
          /\ {<<old, "LEFT">>, <<new, "RIGHT">>} \cap git.seen = {}
          /\ git' = [at |-> "header", files |-> git.files + 1,
                     name |-> [s \in Sides |-> IF s = "LEFT" THEN old ELSE new],
                     line |-> [s \in Sides |-> 1],
                     seen |-> git.seen \cup ({<<old, "LEFT">>, <<new, "RIGHT">>}
                                                \ {<<"/dev/null", s>> : s \in Sides})]
    BY DEF PrintFile
  <1> DEFINE named == [s \in Sides |-> IF s = "LEFT" THEN old ELSE new]
             seen == git'.seen
  <1>2. Parse(Line("diff")) /\ changed' = changed
    BY DEF PrintFile
  <1>3. /\ parser' = [parser EXCEPT !.state = "header", !.files = @ + 1,
                                    !.path = [s \in Sides |-> None]]
        /\ ranges' = ranges
    <2>1. Line("diff").shape = "diff"
      BY DEF Line
    <2> QED  BY <1>2, <2>1, LineRead DEF ParseFile
  <1>4. git \in Diffs /\ parser \in Parsers
    BY DEF DiffInv, DiffTypes
  <1>5. /\ parser'.state = "header" /\ parser'.files = git'.files
        /\ parser' \in Parsers /\ parser'.count = parser.count
    <2> DEFINE none == [s \in Sides |-> None]
    <2>1. none \in [Sides -> Paths \cup {None}]
      OBVIOUS
    <2> HIDE DEF none
    <2>4. PICK k \in Nat : k = parser.files + 1
      BY <1>4 DEF Parsers
    <2>5. parser' = [parser EXCEPT !.state = "header", !.files = k, !.path = none]
      BY <1>3, <2>4 DEF none
    <2>6. parser' \in Parsers /\ parser'.state = "header" /\ parser'.count = parser.count
      BY <1>4, <2>5, <2>1 DEF Parsers
    <2>3. parser'.files = parser.files + 1 /\ git'.files = git.files + 1
      BY <1>1, <1>3, <1>4 DEF Parsers
    <2> QED  BY <2>3, <2>6 DEF DiffInv, ParserFollows
  <1>6. git'.at = "header" /\ git'.name = named /\ git'.line = [s \in Sides |-> 1]
    BY <1>1
  <1>7. seen = git.seen \cup ({<<old, "LEFT">>, <<new, "RIGHT">>}
                                 \ {<<"/dev/null", s>> : s \in Sides})
    BY <1>1
  <1>10. git' \in Diffs
    BY <1>4, FileTyped
  <1>11. \A s \in Sides : <<named[s], s>> \notin git.seen
    BY <1>1, SideCases
  <1>12. \A s \in Sides : named[s] # "/dev/null" => <<named[s], s>> \in seen
    BY <1>7, SideCases
  <1>13. LinesAhead'
    <2>1. ASSUME NEW s \in Sides, Exists(s)'
          PROVE  git'.line[s] >= 1 /\ <<git'.name[s], s>> \in git'.seen
      BY <1>6, <1>12, <2>1 DEF Exists
    <2>2. ASSUME NEW c \in changed
          PROVE  /\ c[1] # "/dev/null" /\ c[3] \in 1 .. MaxLine /\ <<c[1], c[2]>> \in git'.seen
                 /\ c[1] = git'.name[c[2]] => c[3] < git'.line[c[2]]
      <3>1. /\ c[1] # "/dev/null" /\ c[3] \in 1 .. MaxLine /\ <<c[1], c[2]>> \in git.seen
            /\ c[2] \in Sides
        BY DEF DiffInv, DiffTypes, LinesAhead
      <3>2. c[1] # named[c[2]]
        BY <1>11, <3>1
      <3> QED  BY <1>6, <1>7, <3>1, <3>2
    <2> QED  BY <1>2, <2>1, <2>2 DEF LinesAhead
  <1>14. ParserFollows'
    BY <1>5, <1>6 DEF ParserFollows, Awaits
  <1>15. Ranged' /\ Counted'
    BY <1>2, <1>3, <1>5, SameRanges DEF DiffInv
  <1>16. DiffTypes'
    BY <1>2, <1>3, <1>5, <1>10 DEF DiffInv, DiffTypes
  <1> QED  BY <1>13, <1>14, <1>15, <1>16 DEF DiffInv

\* What git is about to print of a side of a file does not change as names and
\* hunks are printed: the lines that are next never go back.
LEMMA AheadKept ==
    ASSUME LinesAhead, changed' = changed, changed \subseteq Names \X Sides \X Nat,
           git'.seen = git.seen, git'.name = git.name,
           \A s \in Sides : Exists(s) => /\ git.line[s] \in Nat /\ git'.line[s] \in Nat
                                         /\ git'.line[s] >= git.line[s]
    PROVE  LinesAhead'
  <1>1. ASSUME NEW s \in Sides, Exists(s)'
        PROVE  git'.line[s] >= 1 /\ <<git'.name[s], s>> \in git'.seen
    BY <1>1 DEF LinesAhead, Exists
  <1>2. ASSUME NEW c \in changed
        PROVE  /\ c[1] # "/dev/null" /\ c[3] \in 1 .. MaxLine /\ <<c[1], c[2]>> \in git'.seen
               /\ c[1] = git'.name[c[2]] => c[3] < git'.line[c[2]]
    <2>1. /\ c[1] # "/dev/null" /\ c[3] \in 1 .. MaxLine /\ <<c[1], c[2]>> \in git.seen
          /\ c[2] \in Sides /\ c[3] \in Nat
          /\ c[1] = git.name[c[2]] => c[3] < git.line[c[2]]
      BY DEF LinesAhead
    <2> QED  BY <2>1 DEF Exists
  <1> QED  BY <1>1, <1>2 DEF LinesAhead

\* The name of the old file.
LEMMA OldKeeps ==
    ASSUME DiffInv, PrintOld
    PROVE  DiffInv'
  <1> DEFINE l == [Line("---") EXCEPT !.name = Printed(git.name["LEFT"])]
             path == PathOf(Printed(git.name["LEFT"]))
  <1>1. git.at = "header" /\ git' = [git EXCEPT !.at = "old"] /\ Parse(l) /\ changed' = changed
    BY DEF PrintOld
  <1>2. git \in Diffs /\ parser \in Parsers
    BY DEF DiffInv, DiffTypes
  <1>3. parser.state = "header"
    BY <1>1 DEF DiffInv, ParserFollows, Awaits
  <1>4. parser' = [parser EXCEPT !.state = "old_path", !.path["LEFT"] = path] /\ ranges' = ranges
    <2>1. l.shape = "---" /\ l.name = Printed(git.name["LEFT"])
      BY DEF Line
    <2> HIDE DEF l
    <2>2. ParseOld(l)
      BY <1>1, <1>3, <2>1, LineRead
    <2> QED  BY <2>1, <2>2 DEF ParseOld, ParseName
  <1>5. path \in Paths \cup {None}
    BY PathsOf
  <1> HIDE DEF path, l
  <1>6. /\ parser' \in Parsers /\ parser'.count = parser.count /\ parser'.files = parser.files
        /\ parser'.state = "old_path" /\ parser'.path["LEFT"] = path
    BY <1>2, <1>4, <1>5, SideCases DEF Parsers
  <1>7. /\ git' \in Diffs /\ git'.at = "old" /\ git'.name = git.name /\ git'.line = git.line
        /\ git'.seen = git.seen /\ git'.files = git.files
    BY <1>1, <1>2 DEF Diffs
  <1>8. \A s \in Sides : git.line[s] \in Nat
    BY <1>2 DEF Diffs
  <1>9. LinesAhead'
    BY <1>1, <1>7, <1>8, AheadKept DEF DiffInv, DiffTypes
  <1>10. ParserFollows'
    BY <1>6, <1>7 DEF DiffInv, ParserFollows, Awaits, path
  <1>11. Ranged' /\ Counted'
    BY <1>1, <1>4, <1>6, SameRanges DEF DiffInv
  <1>12. DiffTypes'
    BY <1>1, <1>4, <1>6, <1>7 DEF DiffInv, DiffTypes
  <1> QED  BY <1>9, <1>10, <1>11, <1>12 DEF DiffInv

\* The name of the new file.
LEMMA NewKeeps ==
    ASSUME DiffInv, PrintNew
    PROVE  DiffInv'
  <1> DEFINE l == [Line("+++") EXCEPT !.name = Printed(git.name["RIGHT"])]
             path == PathOf(Printed(git.name["RIGHT"]))
  <1>1. git.at = "old" /\ git' = [git EXCEPT !.at = "new"] /\ Parse(l) /\ changed' = changed
    BY DEF PrintNew
  <1>2. git \in Diffs /\ parser \in Parsers
    BY DEF DiffInv, DiffTypes
  <1>3. parser.state = "old_path"
    BY <1>1 DEF DiffInv, ParserFollows, Awaits
  <1>4. parser' = [parser EXCEPT !.state = "ready", !.path["RIGHT"] = path] /\ ranges' = ranges
    <2>1. l.shape = "+++" /\ l.name = Printed(git.name["RIGHT"])
      BY DEF Line
    <2> HIDE DEF l
    <2>2. ParseNew(l)
      BY <1>1, <1>3, <2>1, LineRead
    <2> QED  BY <2>1, <2>2 DEF ParseNew, ParseName
  <1>5. path \in Paths \cup {None}
    BY PathsOf
  <1> HIDE DEF path, l
  <1>6. /\ parser' \in Parsers /\ parser'.count = parser.count /\ parser'.files = parser.files
        /\ parser'.state = "ready" /\ parser'.path["RIGHT"] = path
        /\ parser'.path["LEFT"] = parser.path["LEFT"]
    BY <1>2, <1>4, <1>5, SideCases DEF Parsers
  <1>7. /\ git' \in Diffs /\ git'.at = "new" /\ git'.name = git.name /\ git'.line = git.line
        /\ git'.seen = git.seen /\ git'.files = git.files
    BY <1>1, <1>2 DEF Diffs
  <1>8. \A s \in Sides : git.line[s] \in Nat
    BY <1>2 DEF Diffs
  <1>9. LinesAhead'
    BY <1>1, <1>7, <1>8, AheadKept DEF DiffInv, DiffTypes
  <1>10. ParserFollows'
    BY <1>1, <1>6, <1>7 DEF DiffInv, ParserFollows, Awaits, path
  <1>11. Ranged' /\ Counted'
    BY <1>1, <1>4, <1>6, SameRanges DEF DiffInv
  <1>12. DiffTypes'
    BY <1>1, <1>4, <1>6, <1>7 DEF DiffInv, DiffTypes
  <1> QED  BY <1>9, <1>10, <1>11, <1>12 DEF DiffInv

\* A hunk begins further on.
LEMMA HunkKeeps ==
    ASSUME DiffInv, PrintHunk, MaxLine \in Nat
    PROVE  DiffInv'
  <1>1. PICK skip \in Nat :
          LET line == [s \in Sides |-> IF Exists(s) THEN git.line[s] + skip ELSE 0] IN
          /\ git' = [git EXCEPT !.at = "hunk", !.line = line]
          /\ Parse([Line("@@") EXCEPT !.line = line])
    <2>1. PICK skip \in (IF git.at = "new" THEN 0 ELSE 1) .. MaxLine :
            LET line == [s \in Sides |-> IF Exists(s) THEN git.line[s] + skip ELSE 0] IN
            /\ git' = [git EXCEPT !.at = "hunk", !.line = line]
            /\ Parse([Line("@@") EXCEPT !.line = line])
      BY DEF PrintHunk
    <2>2. skip \in Nat
      OBVIOUS
    <2> QED  BY <2>1, <2>2
  <1> DEFINE line == [s \in Sides |-> IF Exists(s) THEN git.line[s] + skip ELSE 0]
             l == [Line("@@") EXCEPT !.line = line]
  <1>2. git.at \in {"new", "hunk"} /\ changed' = changed
    BY DEF PrintHunk
  <1>3. git \in Diffs /\ parser \in Parsers
    BY DEF DiffInv, DiffTypes
  <1>4. \A s \in Sides : git.line[s] \in Nat
    BY <1>3 DEF Diffs
  <1>5. /\ line \in [Sides -> Nat]
        /\ \A s \in Sides : Exists(s) => line[s] \in Nat /\ line[s] >= git.line[s]
    BY <1>4
  <1>6. parser.state \in {"ready", "hunk"}
    BY <1>2 DEF DiffInv, ParserFollows, Awaits
  <1>7. l.shape = "@@" /\ l.line = line
    BY DEF Line
  <1> HIDE DEF line
  <1>8. git' = [git EXCEPT !.at = "hunk", !.line = line] /\ Parse(l)
    BY <1>1 DEF line
  <1> HIDE DEF l
  <1>9. parser' = [parser EXCEPT !.state = "hunk", !.line = line] /\ ranges' = ranges
    BY <1>6, <1>7, <1>8, LineRead DEF ParseHunk
  <1>10. /\ parser' \in Parsers /\ parser'.count = parser.count /\ parser'.files = parser.files
         /\ parser'.state = "hunk" /\ parser'.path = parser.path /\ parser'.line = line
    BY <1>3, <1>5, <1>9 DEF Parsers
  <1>11. /\ git' \in Diffs /\ git'.at = "hunk" /\ git'.name = git.name /\ git'.line = line
         /\ git'.seen = git.seen /\ git'.files = git.files
    BY <1>3, <1>5, <1>8 DEF Diffs
  <1>12. LinesAhead'
    BY <1>2, <1>4, <1>5, <1>11, AheadKept DEF DiffInv, DiffTypes
  <1>13. ParserFollows'
    BY <1>2, <1>10, <1>11 DEF DiffInv, ParserFollows, Awaits
  <1>14. Ranged' /\ Counted'
    BY <1>2, <1>9, <1>10, SameRanges DEF DiffInv
  <1>15. DiffTypes'
    BY <1>2, <1>9, <1>10, <1>11 DEF DiffInv, DiffTypes
  <1> QED  BY <1>12, <1>13, <1>14, <1>15 DEF DiffInv

\* A line that did not change.
LEMMA ContextKeeps ==
    ASSUME DiffInv, PrintContext
    PROVE  DiffInv'
  <1> DEFINE line == [s \in Sides |-> git.line[s] + 1]
  <1>1. /\ git.at = "hunk" /\ git' = [git EXCEPT !.line = line]
        /\ Parse(Line(" ")) /\ changed' = changed
    BY DEF PrintContext
  <1>2. git \in Diffs /\ parser \in Parsers
    BY DEF DiffInv, DiffTypes
  <1>3. \A s \in Sides : git.line[s] \in Nat
    BY <1>2 DEF Diffs
  <1>4. line \in [Sides -> Nat] /\ \A s \in Sides : line[s] \in Nat /\ line[s] >= git.line[s]
    BY <1>3
  <1>5. parser.state = "hunk" /\ parser.line = git.line
    <2>1. git.at = "hunk"
      BY <1>1
    <2> QED  BY <2>1 DEF DiffInv, ParserFollows, Awaits
  <1>6. parser' = [parser EXCEPT !.line = line] /\ ranges' = ranges
    <2>1. Line(" ").shape = " "
      BY DEF Line
    <2> QED  BY <1>1, <1>5, <2>1, LineRead
  <1> HIDE DEF line
  <1>7. /\ parser' \in Parsers /\ parser'.count = parser.count /\ parser'.files = parser.files
        /\ parser'.state = "hunk" /\ parser'.path = parser.path /\ parser'.line = line
    BY <1>2, <1>4, <1>5, <1>6 DEF Parsers
  <1>8. /\ git' \in Diffs /\ git'.at = "hunk" /\ git'.name = git.name /\ git'.line = line
        /\ git'.seen = git.seen /\ git'.files = git.files
    BY <1>1, <1>2, <1>4 DEF Diffs
  <1>9. LinesAhead'
    BY <1>1, <1>3, <1>4, <1>8, AheadKept DEF DiffInv, DiffTypes
  <1>10. ParserFollows'
    <2>1. git.at = "hunk"
      BY <1>1
    <2> QED  BY <1>7, <1>8, <2>1 DEF DiffInv, ParserFollows, Awaits
  <1>11. Ranged' /\ Counted'
    BY <1>1, <1>6, <1>7, SameRanges DEF DiffInv
  <1>12. DiffTypes'
    BY <1>1, <1>6, <1>7, <1>8 DEF DiffInv, DiffTypes
  <1> QED  BY <1>9, <1>10, <1>11, <1>12 DEF DiffInv
-----------------------------------------------------------------------------
(***************************************************************************)
(* A changed line is recorded.                                             *)
(***************************************************************************)
\* A line that git prints is behind all the ranges of its file.
LEMMA BehindTheRanges ==
    ASSUME DiffInv, MaxLine \in Nat, NEW s \in Sides, git.name[s] \in Files,
           ranges[<<Printed(git.name[s]), s>>] # <<>>
    PROVE  LET rs == ranges[<<Printed(git.name[s]), s>>] IN rs[Len(rs)][2] < git.line[s]
  <1> DEFINE p == git.name[s]
             rs == ranges[<<Printed(p), s>>]
             last == rs[Len(rs)][2]
  <1>1. rs \in Seq(Nat \X Nat) /\ Blocks(rs) /\ Covered(rs) = LinesOf(p, s)
    BY PrintedIs DEF DiffInv, DiffTypes, Ranged
  <1>2. last \in Covered(rs)
    BY <1>1, LastIsCovered
  <1>3. <<p, s, last>> \in changed
    BY <1>1, <1>2 DEF LinesOf
  <1> HIDE DEF last
  <1>4. last < git.line[s]
    BY <1>3 DEF DiffInv, LinesAhead
  <1> QED  BY <1>4 DEF last

\* What is covered stays what has changed.
LEMMA RangesGrow ==
    ASSUME DiffInv, MaxLine \in Nat, NEW side \in Sides, NEW n \in 1 .. MaxLine,
           n = git.line[side], git.name[side] # "/dev/null",
           parser.path[side] = PathOf(Printed(git.name[side])), parser.line[side] = n,
           changed' = changed \cup {<<git.name[side], side, n>>}, Record(side)
    PROVE  Ranged' /\ ranges' \in [Paths \X Sides -> Seq(Nat \X Nat)]
  <1> DEFINE name == git.name[side]
             rs(f, s) == ranges[<<Printed(f), s>>]
  <1>1. ranges \in [Paths \X Sides -> Seq(Nat \X Nat)] /\ name \in Names
    BY DEF DiffInv, DiffTypes, Diffs
  <1>2. \A f \in Files, s \in Sides :
          /\ rs(f, s) \in Seq(Nat \X Nat) /\ Blocks(rs(f, s))
          /\ Covered(rs(f, s)) = LinesOf(f, s)
    BY <1>1, PrintedIs DEF DiffInv, Ranged
  <1>3. \A f \in Files, s \in Sides :
          LinesOf(f, s)' = IF f = name /\ s = side THEN LinesOf(f, s) \cup {n}
                           ELSE LinesOf(f, s)
    BY DEF LinesOf
  <1>4. CASE name \notin Files
    <2>1. ranges' = ranges
      BY <1>1, <1>4, PrintedIs DEF Record
    <2>2. \A f \in Files, s \in Sides : LinesOf(f, s)' = LinesOf(f, s)
      BY <1>3, <1>4
    <2> QED  BY <1>1, <2>1, <2>2 DEF DiffInv, Ranged
  <1>5. CASE name \in Files
    <2> DEFINE old == rs(name, side)
               grown == WithLine(old, n)
               path == Printed(name)
    <2>1. parser.path[side] = path /\ path # None /\ path # Spaced
      BY <1>5, PrintedIs
    <2>2. ranges' = [ranges EXCEPT ![<<path, side>>] = grown]
      BY <2>1 DEF Record
    <2>3. old # <<>> => old[Len(old)][2] < n
      BY <1>5, BehindTheRanges
    <2>4. old \in Seq(Nat \X Nat) /\ Blocks(old) /\ Covered(old) = LinesOf(name, side)
      BY <1>2, <1>5
    <2> HIDE DEF old
    <2>5. grown \in Seq(Nat \X Nat) /\ Blocks(grown) /\ Covered(grown) = Covered(old) \cup {n}
      BY <2>3, <2>4, WithLineCovers, SMTT(30)
    <2> HIDE DEF grown
    <2>6. <<path, side>> \in Paths \X Sides
      BY <1>5, PrintedIs
    <2>7. ranges' \in [Paths \X Sides -> Seq(Nat \X Nat)]
      BY <1>1, <2>2, <2>5
    <2>8. ASSUME NEW f \in Files, NEW s \in Sides
          PROVE  /\ Blocks(ranges'[<<Printed(f), s>>])
                 /\ Covered(ranges'[<<Printed(f), s>>]) = LinesOf(f, s)'
      <3>1. CASE f = name /\ s = side
        <4>1. ranges'[<<Printed(f), s>>] = grown
          BY <1>1, <2>2, <2>6, <3>1
        <4>2. LinesOf(f, s)' = LinesOf(name, side) \cup {n}
          BY <1>3, <3>1
        <4>3. Covered(grown) = LinesOf(f, s)'
          BY <2>4, <2>5, <4>2
        <4> QED  BY <2>5, <4>1, <4>3
      <3>2. CASE ~(f = name /\ s = side)
        <4>1. Printed(f) # path \/ s # side
          BY <1>5, <3>2, PrintedIs
        <4> HIDE DEF path
        <4>2. ranges'[<<Printed(f), s>>] = ranges[<<Printed(f), s>>]
          BY <1>1, <2>2, <4>1, PrintedIs
        <4>3. LinesOf(f, s)' = LinesOf(f, s)
          BY <1>3, <3>2
        <4> QED  BY <1>2, <4>2, <4>3
      <3> QED  BY <3>1, <3>2
    <2>9. \A s \in Sides : ranges'[<<Spaced, s>>] = <<>>
      <3> HIDE DEF path
      <3>1. \A s \in Sides : ranges'[<<Spaced, s>>] = ranges[<<Spaced, s>>]
        BY <1>1, <2>1, <2>2, PrintedIs
      <3> QED BY <3>1 DEF DiffInv, Ranged
    <2> QED  BY <2>7, <2>8, <2>9 DEF Ranged
  <1> QED  BY <1>4, <1>5

\* A line is counted once, with its own side.
LEMMA CountsGrow ==
    ASSUME Counted, IsFiniteSet(changed), NEW side \in Sides, NEW c, c \notin changed,
           c[2] = side, changed' = changed \cup {c},
           \A s \in Sides : parser.count[s] \in Nat,
           \A s \in Sides : parser'.count[s] = IF s = side THEN parser.count[s] + 1
                                               ELSE parser.count[s]
    PROVE  Counted'
  <1> DEFINE of(s) == {d \in changed : d[2] = s}
  <1>1. ASSUME NEW s \in Sides
        PROVE  parser'.count[s] = Cardinality({d \in changed' : d[2] = s})
    <2>1. IsFiniteSet(of(s)) /\ parser.count[s] = Cardinality(of(s)) /\ c \notin of(s)
      BY FS_Subset DEF Counted
    <2>2. CASE s = side
      <3>1. {d \in changed' : d[2] = s} = of(s) \cup {c}
        BY <2>2
      <3>2. Cardinality(of(s) \cup {c}) = Cardinality(of(s)) + 1
        <4> HIDE DEF of
        <4> QED  BY <2>1, FS_AddElement
      <3> QED  BY <2>1, <2>2, <3>1, <3>2
    <2>3. CASE s # side
      <3>1. {d \in changed' : d[2] = s} = of(s)
        BY <2>3
      <3> QED  BY <2>1, <2>3, <3>1
    <2> QED  BY <2>2, <2>3
  <1> QED  BY <1>1 DEF Counted

\* record with the next changed line of a side keeps ranges, types and counts.
LEMMA RecordKeeps ==
    ASSUME DiffInv, MaxLine \in Nat, NEW side \in Sides, git.at = "hunk", Exists(side),
           git.line[side] <= MaxLine,
           changed' = changed \cup {<<git.name[side], side, git.line[side]>>},
           git' = [git EXCEPT !.line[side] = @ + 1], Record(side)
    PROVE  DiffInv'
  <1> DEFINE name == git.name[side]
             n == git.line[side]
             c == <<name, side, n>>
  <1>1. git \in Diffs /\ parser \in Parsers
    BY DEF DiffInv, DiffTypes
  <1>2. /\ git.line \in [Sides -> Nat] /\ n \in 1 .. MaxLine /\ name \in Names
        /\ name # "/dev/null" /\ <<name, side>> \in git.seen
    BY <1>1 DEF Diffs, DiffInv, LinesAhead, Exists
  <1>3. parser.line = git.line /\ parser.state = "hunk" /\ parser.path[side] = PathOf(Printed(name))
    BY SideCases DEF DiffInv, ParserFollows, Awaits
  <1>4. parser' = [parser EXCEPT !.line[side] = @ + 1, !.count[side] = @ + 1]
    BY DEF Record
  <1>5. PICK next \in [Sides -> Nat] : next = [git.line EXCEPT ![side] = @ + 1]
    <2>1. git.line[side] + 1 \in Nat
      BY <1>2
    <2>2. [git.line EXCEPT ![side] = @ + 1] \in [Sides -> Nat]
      BY <1>2, <2>1
    <2> QED  BY <2>2
  <1>6. PICK counts \in [Sides -> Nat] : counts = [parser.count EXCEPT ![side] = @ + 1]
    <2>1. parser.count \in [Sides -> Nat] /\ parser.count[side] + 1 \in Nat
      BY <1>1 DEF Parsers
    <2>2. [parser.count EXCEPT ![side] = @ + 1] \in [Sides -> Nat]
      BY <2>1
    <2> QED  BY <2>2
  <1>7. /\ git' \in Diffs /\ git'.at = "hunk" /\ git'.name = git.name /\ git'.line = next
        /\ git'.seen = git.seen /\ git'.files = git.files
    BY <1>1, <1>5 DEF Diffs
  <1>8. /\ parser' \in Parsers /\ parser'.line = next /\ parser'.count = counts
        /\ parser'.path = parser.path /\ parser'.state = "hunk" /\ parser'.files = parser.files
    <2>1. parser' = [parser EXCEPT !.line = next, !.count = counts]
      BY <1>1, <1>3, <1>4, <1>5, <1>6 DEF Parsers
    <2> QED  BY <1>1, <1>3, <2>1 DEF Parsers
  <1>9. next[side] = n + 1 /\ \A s \in Sides : next[s] \in Nat /\ next[s] >= git.line[s]
    BY <1>2, <1>5
  <1>10. c \notin changed
    BY <1>2 DEF DiffInv, LinesAhead
  <1>11. LinesAhead'
    <2>1. ASSUME NEW s \in Sides, Exists(s)'
          PROVE  git'.line[s] >= 1 /\ <<git'.name[s], s>> \in git'.seen
      <3>1. Exists(s)
        BY <1>7, <2>1 DEF Exists
      <3> QED  BY <1>2, <1>7, <1>9, <3>1 DEF DiffInv, LinesAhead
    <2>2. ASSUME NEW d \in changed'
          PROVE  /\ d[1] # "/dev/null" /\ d[3] \in 1 .. MaxLine /\ <<d[1], d[2]>> \in git'.seen
                 /\ d[1] = git'.name[d[2]] => d[3] < git'.line[d[2]]
      <3>1. CASE d = c
        BY <1>2, <1>7, <1>9, <3>1
      <3>2. CASE d \in changed
        <4>1. /\ d[1] # "/dev/null" /\ d[3] \in 1 .. MaxLine /\ <<d[1], d[2]>> \in git.seen
              /\ d[2] \in Sides
              /\ d[1] = git.name[d[2]] => d[3] < git.line[d[2]]
          BY <3>2 DEF DiffInv, DiffTypes, LinesAhead
        <4>2. git.line[d[2]] \in Nat /\ d[3] \in Nat
          BY <1>2, <4>1
        <4> QED  BY <1>7, <1>9, <4>1, <4>2
      <3> QED  BY <3>1, <3>2
    <2> QED  BY <2>1, <2>2 DEF LinesAhead
  <1>12. ParserFollows'
    BY <1>7, <1>8 DEF DiffInv, ParserFollows, Awaits
  <1>13. Ranged' /\ ranges' \in [Paths \X Sides -> Seq(Nat \X Nat)]
    BY <1>2, <1>3, RangesGrow
  <1>14. Counted'
    <2>1. \A s \in Sides : parser.count[s] \in Nat
      BY <1>1 DEF Parsers
    <2>2. \A s \in Sides : parser'.count[s] = IF s = side THEN parser.count[s] + 1
                                              ELSE parser.count[s]
      BY <1>1, <1>6, <1>8 DEF Parsers
    <2>3. c[2] = side /\ changed' = changed \cup {c}
      OBVIOUS
    <2> HIDE DEF c
    <2> QED  BY <1>10, <2>1, <2>2, <2>3, CountsGrow DEF DiffInv, DiffTypes
  <1>15. IsFiniteSet(changed') /\ changed' \subseteq Names \X Sides \X Nat
    <2>1. c \in Names \X Sides \X Nat
      BY <1>2
    <2>2. IsFiniteSet(changed) /\ changed \subseteq Names \X Sides \X Nat
      BY DEF DiffInv, DiffTypes
    <2> HIDE DEF c
    <2>3. changed' = changed \cup {c}
      BY DEF c
    <2> QED  BY <2>1, <2>2, <2>3, FS_AddElement
  <1> QED  BY <1>7, <1>8, <1>11, <1>12, <1>13, <1>14, <1>15 DEF DiffInv, DiffTypes

\* A changed line is read as one, however its text makes it look.
LEMMA ChangeKeeps ==
    ASSUME DiffInv, MaxLine \in Nat,
           PrintChange("LEFT", {"-", "---"}) \/ PrintChange("RIGHT", {"+", "+++"})
    PROVE  DiffInv'
  <1>1. ASSUME NEW side \in Sides, NEW shapes, PrintChange(side, shapes),
               (side = "LEFT" /\ shapes = {"-", "---"}) \/ (side = "RIGHT" /\ shapes = {"+", "+++"})
        PROVE  DiffInv'
    <2>1. git.at = "hunk" /\ Exists(side) /\ git.line[side] <= MaxLine
      BY <1>1 DEF PrintChange
    <2>2. PICK shape \in shapes : Parse(Line(shape))
      BY <1>1 DEF PrintChange
    <2>3. parser.state = "hunk"
      BY <2>1 DEF DiffInv, ParserFollows, Awaits
    <2>4. Line(shape).shape = shape
      BY DEF Line
    <2>5. Record(side)
      BY <1>1, <2>2, <2>3, <2>4, LineRead
    <2>6. /\ changed' = changed \cup {<<git.name[side], side, git.line[side]>>}
          /\ git' = [git EXCEPT !.line[side] = @ + 1]
      BY <1>1 DEF PrintChange
    <2> QED  BY <2>1, <2>5, <2>6, RecordKeeps
  <1> QED  BY <1>1, SideCases
-----------------------------------------------------------------------------
(***************************************************************************)
(* From the diff to the end of the review.                                 *)
(***************************************************************************)
LEMMA NothingCovered == Covered(<<>>) = {} /\ Blocks(<<>>) /\ <<>> \in Seq(Nat \X Nat)
  BY DEF Covered, Blocks

\* Before the diff is read.
LEMMA ResultInvInit ==
    ASSUME ResultInit
    PROVE  ResultInv
  <1>1. DiffInit /\ stage = "diff"
    BY DEF ResultInit
  <1>2. /\ git = [at |-> "start", name |-> [s \in Sides |-> "/dev/null"],
                  line |-> [s \in Sides |-> 0], seen |-> {}, files |-> 0]
        /\ changed = {} /\ splits = 0
        /\ parser = [state |-> "outside", path |-> [s \in Sides |-> None],
                     line |-> [s \in Sides |-> 0], files |-> 0, count |-> [s \in Sides |-> 0]]
        /\ ranges = [k \in Paths \X Sides |-> <<>>]
    BY <1>1 DEF DiffInit
  <1>3. git \in Diffs
    BY <1>2 DEF Diffs, Names
  <1>4. parser \in Parsers
    BY <1>2 DEF Parsers
  <1>5. ranges \in [Paths \X Sides -> Seq(Nat \X Nat)]
    BY <1>2, NothingCovered
  <1>6. DiffTypes
    BY <1>2, <1>3, <1>4, <1>5, FS_EmptySet DEF DiffTypes
  <1>7. ParserFollows
    BY <1>2 DEF ParserFollows, Awaits
  <1>8. LinesAhead
    BY <1>2 DEF LinesAhead, Exists
  <1>9. Counted
    <2>1. ASSUME NEW s \in Sides
          PROVE  parser.count[s] = Cardinality({c \in changed : c[2] = s})
      <3>1. {c \in changed : c[2] = s} = {}
        BY <1>2
      <3> QED  BY <1>2, <3>1, FS_EmptySet
    <2> QED  BY <2>1 DEF Counted
  <1>10. Ranged
    <2>1. ASSUME NEW f \in Files, NEW s \in Sides
          PROVE  /\ Blocks(ranges[<<Printed(f), s>>])
                 /\ Covered(ranges[<<Printed(f), s>>]) = LinesOf(f, s)
      <3>1. ranges[<<Printed(f), s>>] = <<>> /\ LinesOf(f, s) = {}
        BY <1>2, PrintedIs DEF LinesOf
      <3> QED  BY <3>1, NothingCovered
    <2>2. \A s \in Sides : ranges[<<Spaced, s>>] = <<>>
      BY <1>2, PrintedIs
    <2> QED  BY <2>1, <2>2 DEF Ranged
  <1> QED  BY <1>1, <1>2, <1>6, <1>7, <1>8, <1>9, <1>10 DEF ResultInv, DiffInv

\* What is left of the ranges at the end of the diff covers what is left of the
\* changed lines.
LEMMA EndKeeps ==
    ASSUME DiffInv, splits = 0, DiffEnds
    PROVE  Ranged' /\ parser'.files = 0 /\ git'.files = 0
  <1>1. /\ changed' = {c \in changed : c[1] = "p"}
        /\ ranges' = [k \in DOMAIN ranges |-> IF k[1] = "p" THEN ranges[k] ELSE <<>>]
        /\ parser'.files = 0 /\ git'.files = 0
    BY DEF DiffEnds
  <1>2. DOMAIN ranges = Paths \X Sides
    BY DEF DiffInv, DiffTypes
  <1>3. ASSUME NEW f \in Files, NEW s \in Sides
        PROVE  /\ Blocks(ranges'[<<Printed(f), s>>])
               /\ Covered(ranges'[<<Printed(f), s>>]) = LinesOf(f, s)'
    <2>0. <<Printed(f), s>> \in DOMAIN ranges
      BY <1>2, PrintedIs
    <2>1. CASE f = "p"
      <3>1. ranges'[<<Printed(f), s>>] = ranges[<<Printed(f), s>>]
        BY <1>1, <2>0, <2>1, PrintedIs
      <3>2. LinesOf(f, s)' = LinesOf(f, s)
        BY <1>1, <2>1 DEF LinesOf
      <3> QED  BY <3>1, <3>2 DEF DiffInv, Ranged
    <2>2. CASE f # "p"
      <3>1. ranges'[<<Printed(f), s>>] = <<>>
        BY <1>1, <2>0, <2>2, PrintedIs
      <3>2. LinesOf(f, s)' = {}
        BY <1>1, <2>2 DEF LinesOf
      <3> QED  BY <3>1, <3>2, NothingCovered
    <2> QED  BY <2>1, <2>2
  <1>4. \A s \in Sides : ranges'[<<Spaced, s>>] = <<>>
    BY <1>1, <1>2, PrintedIs
  <1> QED  BY <1>1, <1>3, <1>4 DEF Ranged

\* Nothing changes.
LEMMA DiffInvKept ==
    ASSUME DiffInv, UNCHANGED diffVars
    PROVE  DiffInv'
  BY DEF DiffInv, DiffTypes, ParserFollows, LinesAhead, Counted, Ranged, LinesOf,
         Exists, diffVars

\* The ranges and the changed lines stay what they are.
LEMMA RangedKept ==
    ASSUME Ranged, UNCHANGED diffVars
    PROVE  Ranged'
  BY DEF Ranged, LinesOf, diffVars

\* Every line that git prints, and every step after the diff, keeps the invariant.
LEMMA ResultInvStep ==
    ASSUME ResultInv, [ResultNext]_reviewVars
    PROVE  ResultInv'
  <1>1. MaxLine \in Nat
    BY DiffAssumption
  <1>2. CASE ReadDiff
    <2>1. stage = "diff" /\ stage' = "diff" /\ DiffNext
      BY <1>2 DEF ReadDiff, resultVars
    <2>2. CASE SplitLine
      <3>1. splits \in Nat /\ splits' = splits + 1
        BY <2>2 DEF SplitLine, ResultInv
      <3>2. splits' \in Nat /\ splits' # 0
        BY <3>1
      <3> QED  BY <3>2 DEF ResultInv
    <2>3. ASSUME ~SplitLine PROVE splits' = splits /\ (DiffInv => DiffInv')
      BY <1>1, <2>1, <2>3, FileKeeps, OldKeeps, NewKeeps, HunkKeeps, ContextKeeps, ChangeKeeps
         DEF DiffNext, PrintFile, PrintOld, PrintNew, PrintHunk, PrintContext, PrintChange
    <2> QED  BY <2>1, <2>2, <2>3 DEF ResultInv
  <1>3. CASE DiffEnds
    <2>1. stage = "diff" /\ stage' = "review" /\ splits' = splits
      BY <1>3 DEF DiffEnds
    <2> QED  BY <1>3, <2>1, EndKeeps DEF ResultInv
  <1>4. CASE stage # "diff" /\ stage' # "diff" /\ UNCHANGED diffVars
    <2>1. parser' = parser /\ git' = git /\ splits' = splits
      BY <1>4 DEF diffVars
    <2> QED  BY <1>4, <2>1, RangedKept DEF ResultInv
  <1>5. CASE UNCHANGED reviewVars
    <2>1. /\ UNCHANGED diffVars /\ stage' = stage /\ splits' = splits
          /\ parser' = parser /\ git' = git
      BY <1>5 DEF reviewVars, resultVars, diffVars
    <2> QED  BY <2>1, RangedKept, DiffInvKept DEF ResultInv
  <1>6. ASSUME RunCommand \/ NativeReview \/ Convert \/ PublishReview
        PROVE  stage # "diff" /\ stage' # "diff" /\ UNCHANGED diffVars
    BY <1>6 DEF RunCommand, NativeReview, Convert, PublishReview, ReviewFails
  <1> QED  BY <1>2, <1>3, <1>4, <1>5, <1>6 DEF ResultNext

\* For any diff, of any length, the ranges that _parse_changed_ranges returns cover
\* exactly the lines that git printed as changed, with an unchanged line between two
\* of them, and files, removed and added lines are counted exactly, unless
\* str.splitlines has cut a line of the diff. A file whose name has a space has its
\* ranges under that name with a tab, and none under its own path.
THEOREM ParsedRangesAreChanges == ResultSpec => []RangesAreChanges
  <1>1. ResultInv => RangesAreChanges
    <2> SUFFICES ASSUME ResultInv, ~(splits > 0)
                 PROVE  RangesAreChanges
      BY DEF RangesAreChanges
    <2>1. splits = 0
      BY DEF ResultInv
    <2>2. Ranged
      BY <2>1 DEF ResultInv, DiffInv
    <2>3. /\ parser.files = git.files
          /\ parser.files > 0 => Counted
      BY <2>1 DEF ResultInv, DiffInv, ParserFollows
    <2> QED  BY <2>2, <2>3 DEF RangesAreChanges, Ranged, Blocks, Counted
  <1>2. ResultInit => ResultInv
    BY ResultInvInit
  <1>3. ResultInv /\ [ResultNext]_reviewVars => ResultInv'
    BY ResultInvStep
  <1> QED  BY <1>1, <1>2, <1>3, PTL DEF ResultSpec
-----------------------------------------------------------------------------
(***************************************************************************)
(* The loops over findings.                                                *)
(***************************************************************************)
\* What holds at 0 and at every next number holds up to N.
LEMMA UpTo ==
    ASSUME NEW N \in Nat, NEW G \in SUBSET Nat, 0 \in G,
           \A n \in Nat : n < N /\ n \in G => n + 1 \in G
    PROVE  0 .. N \subseteq G
  <1> SUFFICES ASSUME ~(0 .. N \subseteq G)
               PROVE  FALSE
    OBVIOUS
  <1> DEFINE T == (0 .. N) \ G
  <1>1. T \in SUBSET Nat /\ T # {}
    OBVIOUS
  <1>2. PICK m \in T : \A k \in T : m <= k
    BY <1>1, LeastNatural
  <1>3. m \in Nat /\ m # 0 /\ m <= N /\ m \notin G
    BY <1>2
  <1>4. m - 1 \in Nat /\ m - 1 < N /\ m - 1 \notin T
    BY <1>2, <1>3
  <1>5. m - 1 \in G
    BY <1>3, <1>4
  <1>6. (m - 1) + 1 \in G
    BY <1>4, <1>5
  <1> QED  BY <1>3, <1>6

\* The first n members.
First(s, n) == {s[k] : k \in 1 .. n}

\* The first so many members of a sequence.
LEMMA FirstIs ==
    ASSUME NEW s, NEW n \in Nat
    PROVE  First(s, 0) = {} /\ First(s, n + 1) = First(s, n) \cup {s[n + 1]}
  <1>1. First(s, 0) = {}
    BY DEF First
  <1>2. \A k \in 1 .. n + 1 : k \in 1 .. n \/ k = n + 1
    OBVIOUS
  <1>3. n + 1 \in 1 .. n + 1 /\ \A k \in 1 .. n : k \in 1 .. n + 1
    OBVIOUS
  <1>4. First(s, n + 1) = First(s, n) \cup {s[n + 1]}
    BY <1>2, <1>3 DEF First
  <1> QED  BY <1>1, <1>4

\* What append adds to the members.
LEMMA AppendSet ==
    ASSUME NEW X, NEW s \in Seq(X), NEW x \in X
    PROVE  /\ Append(s, x) \in Seq(X) /\ Len(Append(s, x)) = Len(s) + 1
           /\ ToSet(Append(s, x)) = ToSet(s) \cup {x}
  <1>0. PICK m \in Nat : m = Len(s)
    OBVIOUS
  <1> DEFINE t == Append(s, x)
  <1>1. /\ t \in Seq(X) /\ Len(t) = m + 1 /\ DOMAIN t = 1 .. m + 1 /\ t[m + 1] = x
        /\ DOMAIN s = 1 .. m /\ \A k \in 1 .. m : t[k] = s[k]
    BY <1>0
  <1> HIDE DEF t
  <1>2. ToSet(t) = First(t, m + 1) /\ ToSet(s) = First(s, m)
    BY <1>1 DEF ToSet, First
  <1>3. First(t, m + 1) = First(t, m) \cup {x}
    BY <1>1, FirstIs
  <1>4. First(t, m) = First(s, m)
    BY <1>1 DEF First
  <1> QED  BY <1>0, <1>1, <1>2, <1>3, <1>4 DEF t

\* Among is what its loop says: the members that are in S, and no other.
LEMMA AmongIs ==
    ASSUME NEW X, NEW s \in Seq(X), NEW S
    PROVE  Among(s, S) \in Seq(X) /\ ToSet(Among(s, S)) = ToSet(s) \cap S
  <1>0. PICK N \in Nat : N = Len(s)
    OBVIOUS
  <1> DEFINE Step(g, i) == IF i = 0 THEN <<>>
                           ELSE IF s[i] \in S THEN Append(g[i - 1], s[i]) ELSE g[i - 1]
             Loop(g, n) == g = [i \in 0 .. n |-> Step(g, i)]
             G == {n \in Nat : \E g : Loop(g, n)}
  <1>1. 0 \in G
    <2>1. Loop([i \in 0 .. 0 |-> <<>>], 0)
      OBVIOUS
    <2> QED  BY <2>1
  <1>2. ASSUME NEW n \in Nat, n \in G PROVE n + 1 \in G
    <2>1. PICK g : Loop(g, n)
      BY <1>2
    <2> DEFINE h == [i \in 0 .. n + 1 |-> IF i = n + 1 THEN Step(g, n + 1) ELSE g[i]]
    <2>2. \A i \in 0 .. n : i \in 0 .. n + 1 /\ i # n + 1 /\ h[i] = g[i]
      OBVIOUS
    <2>3. ASSUME NEW i \in 0 .. n + 1 PROVE h[i] = Step(h, i)
      <3>1. CASE i = 0
        BY <2>1, <3>1
      <3>2. CASE i # 0
        <4>1. i - 1 \in 0 .. n /\ h[i - 1] = g[i - 1]
          BY <2>2, <3>2
        <4>2. Step(h, i) = Step(g, i)
          BY <4>1
        <4>3. CASE i = n + 1
          BY <4>2, <4>3
        <4>4. CASE i # n + 1
          <5>1. i \in 0 .. n
            BY <4>4
          <5> QED  BY <2>1, <2>2, <4>2, <5>1
        <4> QED  BY <4>3, <4>4
      <3> QED  BY <3>1, <3>2
    <2>4. Loop(h, n + 1)
      BY <2>3
    <2> HIDE DEF h, Loop
    <2>5. \E f : Loop(f, n + 1)
      BY <2>4
    <2> QED  BY <2>5
  <1>3. N \in G
    <2>1. G \in SUBSET Nat
      OBVIOUS
    <2> HIDE DEF G
    <2>2. 0 .. N \subseteq G
      BY <1>1, <1>2, <2>1, UpTo
    <2> QED  BY <2>2
  <1> DEFINE kept == CHOOSE g : Loop(g, N)
  <1>4. Loop(kept, N)
    BY <1>3
  <1>5. Among(s, S) = kept[N]
    BY <1>0 DEF Among
  <1> HIDE DEF kept
  <1>6. /\ kept[0] = <<>>
        /\ \A n \in Nat : n < N =>
              kept[n + 1] = IF s[n + 1] \in S THEN Append(kept[n], s[n + 1]) ELSE kept[n]
    <2>1. \A i \in 0 .. N : kept[i] = Step(kept, i)
      BY <1>4
    <2>2. 0 \in 0 .. N
      OBVIOUS
    <2>3. ASSUME NEW n \in Nat, n < N
          PROVE  kept[n + 1] = IF s[n + 1] \in S THEN Append(kept[n], s[n + 1]) ELSE kept[n]
      <3>1. n + 1 \in 0 .. N /\ n + 1 # 0 /\ (n + 1) - 1 = n
        BY <2>3
      <3> QED  BY <2>1, <3>1
    <2> QED  BY <2>1, <2>2, <2>3
  <1> DEFINE K == {n \in Nat : kept[n] \in Seq(X) /\ ToSet(kept[n]) = First(s, n) \cap S}
  <1>7. 0 \in K
    <2>1. ToSet(<<>>) = {} /\ <<>> \in Seq(X) /\ First(s, 0) = {}
      BY FirstIs DEF ToSet
    <2> QED  BY <1>6, <2>1
  <1>8. ASSUME NEW n \in Nat, n < N, n \in K PROVE n + 1 \in K
    <2>1. First(s, n + 1) = First(s, n) \cup {s[n + 1]} /\ s[n + 1] \in X
      <3>1. n + 1 \in 1 .. Len(s)
        BY <1>0, <1>8
      <3> QED  BY <3>1, FirstIs
    <2>2. kept[n] \in Seq(X) /\ ToSet(kept[n]) = First(s, n) \cap S
      BY <1>8
    <2>3. kept[n + 1] = IF s[n + 1] \in S THEN Append(kept[n], s[n + 1]) ELSE kept[n]
      BY <1>6, <1>8
    <2>4. CASE s[n + 1] \in S
      <3>1. kept[n + 1] \in Seq(X) /\ ToSet(kept[n + 1]) = ToSet(kept[n]) \cup {s[n + 1]}
        BY <2>1, <2>2, <2>3, <2>4, AppendSet
      <3> QED  BY <2>1, <2>2, <2>4, <3>1
    <2>5. CASE s[n + 1] \notin S
      BY <2>1, <2>2, <2>3, <2>5
    <2> QED  BY <2>4, <2>5
  <1>9. N \in K
    <2>1. K \in SUBSET Nat
      OBVIOUS
    <2> HIDE DEF K
    <2>2. 0 .. N \subseteq K
      BY <1>7, <1>8, <2>1, UpTo
    <2> QED  BY <2>2
  <1>10. ToSet(s) = First(s, N)
    BY <1>0 DEF ToSet, First
  <1> QED  BY <1>5, <1>9, <1>10

\* Unique keeps every member, once.
LEMMA UniqueIs ==
    ASSUME NEW X, NEW s \in Seq(X)
    PROVE  /\ Unique(s) \in Seq(X) /\ ToSet(Unique(s)) = ToSet(s)
           /\ Cardinality(ToSet(Unique(s))) = Len(Unique(s))
  <1>0. PICK N \in Nat : N = Len(s)
    OBVIOUS
  <1> DEFINE Step(g, i) == IF i = 0 THEN <<>>
                           ELSE IF s[i] \in ToSet(g[i - 1]) THEN g[i - 1]
                           ELSE Append(g[i - 1], s[i])
             Loop(g, n) == g = [i \in 0 .. n |-> Step(g, i)]
             G == {n \in Nat : \E g : Loop(g, n)}
  <1>1. 0 \in G
    <2>1. Loop([i \in 0 .. 0 |-> <<>>], 0)
      OBVIOUS
    <2> QED  BY <2>1
  <1>2. ASSUME NEW n \in Nat, n \in G PROVE n + 1 \in G
    <2>1. PICK g : Loop(g, n)
      BY <1>2
    <2> DEFINE h == [i \in 0 .. n + 1 |-> IF i = n + 1 THEN Step(g, n + 1) ELSE g[i]]
    <2>2. \A i \in 0 .. n : i \in 0 .. n + 1 /\ i # n + 1 /\ h[i] = g[i]
      OBVIOUS
    <2>3. ASSUME NEW i \in 0 .. n + 1 PROVE h[i] = Step(h, i)
      <3>1. CASE i = 0
        BY <2>1, <3>1
      <3>2. CASE i # 0
        <4>1. i - 1 \in 0 .. n /\ h[i - 1] = g[i - 1]
          BY <2>2, <3>2
        <4>2. Step(h, i) = Step(g, i)
          BY <4>1
        <4>3. CASE i = n + 1
          BY <4>2, <4>3
        <4>4. CASE i # n + 1
          <5>1. i \in 0 .. n
            BY <4>4
          <5> QED  BY <2>1, <2>2, <4>2, <5>1
        <4> QED  BY <4>3, <4>4
      <3> QED  BY <3>1, <3>2
    <2>4. Loop(h, n + 1)
      BY <2>3
    <2> HIDE DEF h, Loop
    <2>5. \E f : Loop(f, n + 1)
      BY <2>4
    <2> QED  BY <2>5
  <1>3. N \in G
    <2>1. G \in SUBSET Nat
      OBVIOUS
    <2> HIDE DEF G
    <2>2. 0 .. N \subseteq G
      BY <1>1, <1>2, <2>1, UpTo
    <2> QED  BY <2>2
  <1> DEFINE unique == CHOOSE g : Loop(g, N)
  <1>4. Loop(unique, N)
    BY <1>3
  <1>5. Unique(s) = unique[N]
    BY <1>0 DEF Unique
  <1> HIDE DEF unique
  <1>6. /\ unique[0] = <<>>
        /\ \A n \in Nat : n < N =>
              unique[n + 1] = IF s[n + 1] \in ToSet(unique[n]) THEN unique[n]
                              ELSE Append(unique[n], s[n + 1])
    <2>1. \A i \in 0 .. N : unique[i] = Step(unique, i)
      BY <1>4
    <2>2. 0 \in 0 .. N
      OBVIOUS
    <2>3. ASSUME NEW n \in Nat, n < N
          PROVE  unique[n + 1] = IF s[n + 1] \in ToSet(unique[n]) THEN unique[n]
                              ELSE Append(unique[n], s[n + 1])
      <3>1. n + 1 \in 0 .. N /\ n + 1 # 0 /\ (n + 1) - 1 = n
        BY <2>3
      <3> QED  BY <2>1, <3>1
    <2> QED  BY <2>1, <2>2, <2>3
  <1> DEFINE Once(n) == /\ unique[n] \in Seq(X) /\ ToSet(unique[n]) = First(s, n)
                        /\ IsFiniteSet(ToSet(unique[n]))
                        /\ Cardinality(ToSet(unique[n])) = Len(unique[n])
             K == {n \in Nat : Once(n)}
  <1>7. 0 \in K
    <2>1. ToSet(<<>>) = {} /\ <<>> \in Seq(X) /\ First(s, 0) = {} /\ Len(<<>>) = 0
      BY FirstIs DEF ToSet
    <2> QED  BY <1>6, <2>1, FS_EmptySet
  <1>8. ASSUME NEW n \in Nat, n < N, n \in K PROVE n + 1 \in K
    <2>1. First(s, n + 1) = First(s, n) \cup {s[n + 1]} /\ s[n + 1] \in X
      <3>1. n + 1 \in 1 .. Len(s)
        BY <1>0, <1>8
      <3> QED  BY <3>1, FirstIs
    <2>2. Once(n)
      BY <1>8
    <2>3. unique[n + 1] = IF s[n + 1] \in ToSet(unique[n]) THEN unique[n]
                          ELSE Append(unique[n], s[n + 1])
      BY <1>6, <1>8
    <2>4. CASE s[n + 1] \in ToSet(unique[n])
      <3>1. unique[n + 1] = unique[n] /\ First(s, n + 1) = First(s, n)
        BY <2>1, <2>2, <2>3, <2>4
      <3>2. Once(n + 1)
        BY <2>2, <3>1
      <3> QED  BY <3>2
    <2>5. CASE s[n + 1] \notin ToSet(unique[n])
      <3>1. /\ unique[n + 1] \in Seq(X) /\ ToSet(unique[n + 1]) = ToSet(unique[n]) \cup {s[n + 1]}
            /\ Len(unique[n + 1]) = Len(unique[n]) + 1
        BY <2>1, <2>2, <2>3, <2>5, AppendSet
      <3>2. /\ IsFiniteSet(ToSet(unique[n]) \cup {s[n + 1]})
            /\ Cardinality(ToSet(unique[n]) \cup {s[n + 1]}) = Cardinality(ToSet(unique[n])) + 1
        BY <2>2, <2>5, FS_AddElement
      <3>3. Once(n + 1)
        BY <2>1, <2>2, <3>1, <3>2
      <3> QED  BY <3>3
    <2> QED  BY <2>4, <2>5
  <1>9. N \in K
    <2>1. K \in SUBSET Nat
      OBVIOUS
    <2> HIDE DEF K
    <2>2. 0 .. N \subseteq K
      BY <1>7, <1>8, <2>1, UpTo
    <2> QED  BY <2>2
  <1>10. ToSet(s) = First(s, N)
    BY <1>0 DEF ToSet, First
  <1> QED  BY <1>5, <1>9, <1>10
-----------------------------------------------------------------------------
(***************************************************************************)
(* The lines of a finding and the ranges.                                  *)
(***************************************************************************)
\* Ranges are apart, not only neighbours.
LEMMA RangesApart ==
    ASSUME NEW rs \in Seq(Nat \X Nat), Blocks(rs), NEW i \in 1 .. Len(rs),
           NEW j \in 1 .. Len(rs), i < j
    PROVE  rs[i][2] + 1 < rs[j][1]
  <1>0. PICK m \in Nat : m = Len(rs)
    OBVIOUS
  <1>1. \A k \in 1 .. m : rs[k][1] \in Nat /\ rs[k][2] \in Nat /\ rs[k][1] <= rs[k][2]
    <2>1. \A k \in 1 .. m : rs[k] \in Nat \X Nat
      BY <1>0
    <2> QED  BY <1>0, <2>1 DEF Blocks
  <1>2. \A k \in 1 .. m - 1 : rs[k][2] + 1 < rs[k + 1][1]
    BY <1>0 DEF Blocks
  <1> DEFINE G == {n \in Nat : i + n + 1 <= m => rs[i][2] + 1 < rs[i + n + 1][1]}
  <1>3. i \in Nat /\ j \in Nat /\ i >= 1 /\ j <= m
    BY <1>0
  <1>4. 0 \in G
    <2>1. i + 1 <= m => i \in 1 .. m - 1
      BY <1>3
    <2> QED  BY <1>2, <1>3, <2>1
  <1>5. ASSUME NEW n \in Nat, n \in G PROVE n + 1 \in G
    <2>1. SUFFICES ASSUME i + (n + 1) + 1 <= m
                   PROVE  rs[i][2] + 1 < rs[i + (n + 1) + 1][1]
      OBVIOUS
    <2> DEFINE k == i + n + 1
    <2>2. k \in 1 .. m - 1 /\ k \in 1 .. m /\ k + 1 = i + (n + 1) + 1 /\ k <= m
          /\ k + 1 \in 1 .. m /\ i \in 1 .. m
      BY <1>3, <2>1
    <2>3. rs[i][2] + 1 < rs[k][1]
      BY <1>5, <2>2
    <2>4. rs[k][2] + 1 < rs[k + 1][1] /\ rs[k][1] <= rs[k][2]
      BY <1>1, <1>2, <2>2
    <2>5. /\ rs[i][2] \in Nat /\ rs[k][1] \in Nat /\ rs[k][2] \in Nat
          /\ rs[k + 1][1] \in Nat
      BY <1>1, <2>2
    <2> HIDE DEF k
    <2>6. rs[i][2] + 1 < rs[k + 1][1]
      <3>1. \A t, u, v, z \in Nat : t + 1 < u /\ u <= v /\ v + 1 < z => t + 1 < z
        OBVIOUS
      <3> QED  BY <2>3, <2>4, <2>5, <3>1
    <2> QED  BY <2>2, <2>6
  <1>6. PICK n \in Nat : j = i + n + 1
    <2>1. j - i - 1 \in Nat /\ j = i + (j - i - 1) + 1
      BY <1>3
    <2> QED  BY <2>1
  <1>7. n \in G
    <2>1. G \in SUBSET Nat
      OBVIOUS
    <2> HIDE DEF G
    <2>2. 0 .. n \subseteq G
      BY <1>4, <1>5, <2>1, UpTo
    <2> QED  BY <2>2
  <1> QED  BY <1>3, <1>6, <1>7

\* What the lines from a to b have in common with each of the ranges.
Common(rs, a, b) ==
    {<<IF a > r[1] THEN a ELSE r[1], IF b < r[2] THEN b ELSE r[2]>> :
        r \in {r \in ToSet(rs) : r[1] <= b /\ a <= r[2]}}

\* It is lines of both, whatever the ranges.
LEMMA CommonBounds ==
    ASSUME NEW rs \in Seq(Nat \X Nat), NEW a \in Nat, NEW b \in Nat, NEW l \in Common(rs, a, b)
    PROVE  l[1] \in Nat /\ l[2] \in Nat /\ a <= l[1] /\ l[2] <= b
  <1>1. PICK k \in 1 .. Len(rs) :
          l = <<IF a > rs[k][1] THEN a ELSE rs[k][1], IF b < rs[k][2] THEN b ELSE rs[k][2]>>
    BY DEF Common, ToSet
  <1>2. rs[k] \in Nat \X Nat
    OBVIOUS
  <1>3. rs[k][1] \in Nat /\ rs[k][2] \in Nat
    BY <1>2
  <1> QED  BY <1>1, <1>3

\* The lines a range and a finding have in common.
LEMMA CommonIs ==
    ASSUME NEW rs \in Seq(Nat \X Nat), Blocks(rs), NEW a \in Nat, NEW b \in Nat, a <= b
    PROVE  /\ \A l \in Common(rs, a, b) :
                 l[1] <= l[2] /\ l[1] .. l[2] \subseteq (a .. b) \cap Covered(rs)
           /\ \A x \in (a .. b) \cap Covered(rs) :
                 \E l \in Common(rs, a, b) : x \in l[1] .. l[2]
  <1>0. PICK m \in Nat : m = Len(rs)
    OBVIOUS
  <1>1. \A k \in 1 .. m : rs[k][1] \in Nat /\ rs[k][2] \in Nat /\ rs[k][1] <= rs[k][2]
    <2>1. \A k \in 1 .. m : rs[k] \in Nat \X Nat
      BY <1>0
    <2> QED  BY <1>0, <2>1 DEF Blocks
  <1>2. DOMAIN rs = 1 .. m
    BY <1>0
  <1> DEFINE Both(k) == <<IF a > rs[k][1] THEN a ELSE rs[k][1],
                          IF b < rs[k][2] THEN b ELSE rs[k][2]>>
  <1>3. ASSUME NEW l \in Common(rs, a, b)
        PROVE  l[1] <= l[2] /\ l[1] .. l[2] \subseteq (a .. b) \cap Covered(rs)
    <2>1. PICK k \in 1 .. m : rs[k][1] <= b /\ a <= rs[k][2] /\ l = Both(k)
      BY <1>2 DEF Common, ToSet
    <2>2. PICK u \in Nat, v \in Nat : u = rs[k][1] /\ v = rs[k][2] /\ u <= v
      BY <1>1
    <2>3. l[1] = (IF a > u THEN a ELSE u) /\ l[2] = (IF b < v THEN b ELSE v)
      BY <2>1, <2>2
    <2>4. l[1] <= l[2] /\ l[1] .. l[2] \subseteq a .. b /\ l[1] .. l[2] \subseteq u .. v
      <3>1. u <= b /\ a <= v /\ u <= v /\ u \in Nat /\ v \in Nat
        BY <2>1, <2>2
      <3>2. /\ l[1] \in Nat /\ l[2] \in Nat /\ l[1] <= l[2]
            /\ a <= l[1] /\ u <= l[1] /\ l[2] <= b /\ l[2] <= v
        BY <2>3, <3>1
      <3>3. ASSUME NEW x \in l[1] .. l[2] PROVE x \in a .. b /\ x \in u .. v
        <4>1. PICK n \in Nat, q \in Nat : n = l[1] /\ q = l[2]
          BY <3>2
        <4>2. x \in n .. q /\ a <= n /\ u <= n /\ q <= b /\ q <= v
          BY <3>2, <3>3, <4>1
        <4> QED  BY <3>1, <4>2
      <3> QED  BY <3>2, <3>3
    <2>5. u .. v \subseteq Covered(rs)
      BY <1>2, <2>2 DEF Covered
    <2> QED  BY <2>4, <2>5
  <1>4. ASSUME NEW x \in (a .. b) \cap Covered(rs)
        PROVE  \E l \in Common(rs, a, b) : x \in l[1] .. l[2]
    <2>1. PICK k \in 1 .. m : x \in rs[k][1] .. rs[k][2]
      BY <1>2 DEF Covered
    <2>2. PICK u \in Nat, v \in Nat : u = rs[k][1] /\ v = rs[k][2] /\ u <= v
      BY <1>1
    <2>3. u <= b /\ a <= v
      BY <2>1, <2>2
    <2>4. Both(k) \in Common(rs, a, b)
      BY <1>2, <2>2, <2>3 DEF Common, ToSet
    <2>5. Both(k)[1] = (IF a > u THEN a ELSE u) /\ Both(k)[2] = (IF b < v THEN b ELSE v)
      BY <2>2
    <2>6. x \in Both(k)[1] .. Both(k)[2]
      BY <2>1, <2>2, <2>5
    <2> QED  BY <2>4, <2>6
  <1> QED  BY <1>3, <1>4

\* Lines that changed as one block are in one range.
LEMMA OneBlock ==
    ASSUME NEW rs \in Seq(Nat \X Nat), Blocks(rs), NEW a \in Nat, NEW b \in Nat, a <= b,
           \A u, v \in (a .. b) \cap Covered(rs) : u .. v \subseteq (a .. b) \cap Covered(rs)
    PROVE  \A k, l \in Common(rs, a, b) : k = l
  <1>0. PICK m \in Nat : m = Len(rs)
    OBVIOUS
  <1>1. \A k \in 1 .. m : rs[k][1] \in Nat /\ rs[k][2] \in Nat /\ rs[k][1] <= rs[k][2]
    <2>1. \A k \in 1 .. m : rs[k] \in Nat \X Nat
      BY <1>0
    <2> QED  BY <1>0, <2>1 DEF Blocks
  <1>2. DOMAIN rs = 1 .. m
    BY <1>0
  <1> DEFINE on == (a .. b) \cap Covered(rs)
             Both(k) == <<IF a > rs[k][1] THEN a ELSE rs[k][1],
                          IF b < rs[k][2] THEN b ELSE rs[k][2]>>
             Meets(k) == rs[k][1] <= b /\ a <= rs[k][2]
  <1>3. \A i, j \in 1 .. m : i < j => rs[i][2] + 1 < rs[j][1]
    BY <1>0, RangesApart
  <1>4. ASSUME NEW i \in 1 .. m, NEW j \in 1 .. m, Meets(i), Meets(j), i < j
        PROVE  FALSE
    <2>1. PICK u \in Nat : u = rs[i][2]
      BY <1>1
    <2>2. PICK v \in Nat : v = rs[j][1]
      BY <1>1
    <2>3. u + 1 < v /\ a <= u /\ v <= b
      BY <1>3, <1>4, <2>1, <2>2
    <2>4. u \in Covered(rs) /\ v \in Covered(rs)
      <3>1. u \in rs[i][1] .. rs[i][2]
        <4>1. rs[i][1] \in Nat /\ rs[i][1] <= u
          BY <1>1, <2>1
        <4> QED  BY <2>1, <4>1
      <3>2. v \in rs[j][1] .. rs[j][2]
        <4>1. rs[j][2] \in Nat /\ v <= rs[j][2]
          BY <1>1, <2>2
        <4> QED  BY <2>2, <4>1
      <3> QED  BY <1>2, <3>1, <3>2 DEF Covered
    <2>5. u \in on /\ v \in on
      BY <2>3, <2>4
    <2>6. u + 1 \in u .. v
      BY <2>3
    <2>7. u + 1 \in Covered(rs)
      BY <2>5, <2>6
    <2>8. PICK k \in 1 .. m : u + 1 \in rs[k][1] .. rs[k][2]
      BY <1>2, <2>7 DEF Covered
    <2>9. PICK c \in Nat, d \in Nat : c = rs[k][1] /\ d = rs[k][2] /\ c <= u + 1 /\ u + 1 <= d
      BY <1>1, <2>8
    <2>10. CASE k = i
      BY <2>1, <2>9, <2>10
    <2>11. CASE i < k
      BY <1>3, <2>1, <2>9, <2>11, SMTT(30)
    <2>12. CASE k < i
      <3>1. d + 1 < rs[i][1] /\ rs[i][1] <= u /\ rs[i][1] \in Nat
        BY <1>1, <1>3, <2>1, <2>9, <2>12
      <3> QED  BY <2>9, <3>1, SMTT(30)
    <2> QED  BY <2>10, <2>11, <2>12
  <1>5. ASSUME NEW k \in Common(rs, a, b), NEW l \in Common(rs, a, b)
        PROVE  k = l
    <2>1. PICK i \in 1 .. m : Meets(i) /\ k = Both(i)
      BY <1>2 DEF Common, ToSet
    <2>2. PICK j \in 1 .. m : Meets(j) /\ l = Both(j)
      BY <1>2 DEF Common, ToSet
    <2>3. i = j
      <3> HIDE DEF Meets
      <3>1. ~(i < j) /\ ~(j < i)
        BY <1>4, <2>1, <2>2
      <3> QED  BY <3>1
    <2> QED  BY <2>1, <2>2, <2>3
  <1> QED  BY <1>5

\* If the lines from a to b meet one range only, what changed of them is what they
\* have in common with it, and the rest is counted.
LEMMA OneCommon ==
    ASSUME NEW rs \in Seq(Nat \X Nat), Blocks(rs), NEW a \in Nat, NEW b \in Nat, a <= b,
           NEW l, Common(rs, a, b) = {l}
    PROVE  /\ l[1] \in Nat /\ l[2] \in Nat /\ a <= l[1] /\ l[1] <= l[2] /\ l[2] <= b
           /\ (a .. b) \cap Covered(rs) = l[1] .. l[2]
           /\ Cardinality((a .. b) \ ((a .. b) \cap Covered(rs))) = l[1] - a + b - l[2]
  <1>0. l \in Common(rs, a, b)
    OBVIOUS
  <1>1. PICK u \in Nat, v \in Nat : u = l[1] /\ v = l[2] /\ a <= u /\ v <= b
    BY <1>0, CommonBounds
  <1> DEFINE on == (a .. b) \cap Covered(rs)
  <1>2. u <= v /\ u .. v \subseteq on
    BY <1>0, <1>1, CommonIs
  <1>3. \A x \in on : x \in u .. v
    BY <1>0, <1>1, CommonIs
  <1>4. on = u .. v
    BY <1>2, <1>3
  <1> HIDE DEF on
  <1>5. a \in Int /\ b \in Int /\ u \in Int /\ v \in Int
    OBVIOUS
  <1>6. /\ IsFiniteSet(a .. b) /\ Cardinality(a .. b) = b - a + 1
        /\ Cardinality(u .. v) = v - u + 1
    BY <1>2, <1>5, FS_Interval
  <1>7. (a .. b) \cap (u .. v) = u .. v
    BY <1>1
  <1>8. Cardinality((a .. b) \ (u .. v)) = Cardinality(a .. b) - Cardinality(u .. v)
    <2> DEFINE S == a .. b
               T == u .. v
    <2>1. IsFiniteSet(S) /\ S \cap T = T
      BY <1>6, <1>7
    <2> HIDE DEF S, T
    <2>2. Cardinality(S \ T) = Cardinality(S) - Cardinality(T)
      BY <2>1, FS_Difference, ZenonT(40)
    <2> QED  BY <2>2 DEF S, T
  <1>9. Cardinality((a .. b) \ on) = u - a + b - v
    BY <1>4, <1>5, <1>6, <1>8
  <1> QED  BY <1>1, <1>2, <1>4, <1>9 DEF on

\* There are finitely many, one per range at most.
LEMMA CommonFinite ==
    ASSUME NEW rs \in Seq(Nat \X Nat), Blocks(rs), NEW a \in Nat, NEW b \in Nat, a <= b
    PROVE  IsFiniteSet(Common(rs, a, b))
  <1>1. IsFiniteSet((a .. b) \X (a .. b))
    <2>1. IsFiniteSet(a .. b)
      BY FS_Interval
    <2> QED  BY <2>1, FS_Product
  <1>2. ASSUME NEW l \in Common(rs, a, b) PROVE l \in (a .. b) \X (a .. b)
    <2>1. l[1] \in Nat /\ l[2] \in Nat /\ a <= l[1] /\ l[2] <= b /\ l[1] <= l[2]
      BY CommonBounds, CommonIs
    <2>2. l = <<l[1], l[2]>>
      BY DEF Common
    <2>3. l[1] \in a .. b /\ l[2] \in a .. b
      BY <2>1
    <2> QED  BY <2>2, <2>3
  <1> QED  BY <1>1, <1>2, FS_Subset
-----------------------------------------------------------------------------
(***************************************************************************)
(* Findings.                                                               *)
(***************************************************************************)
Written == [title : {"a", "b", "latin"}, path : {"p", "outside", "workspace/p", Spaced},
            start : Nat, end : Nat, side : Sides \cup {"unsaid"}]

\* What an agent writes is a finding with lines and a side, which may be unsaid.
LEMMA AgentsWrite == AgentFindings \subseteq Written
  <1>1. MaxLine \in Nat
    BY DiffAssumption
  <1>2. ASSUME NEW m \in 1 .. MaxLine, NEW n \in 1 .. MaxLine, NEW s \in Sides
        PROVE  Finding("a", "p", m, n, s) \in Written
    BY <1>1 DEF Finding, Written
  <1>3. {Finding("b", "p", 1, 1, "RIGHT"), Finding("a", "p", 1, 2, "unsaid"),
         Finding("latin", "p", 1, 1, "RIGHT"), Finding("a", "outside", 1, 1, "RIGHT"),
         Finding("a", "p", 0, 1, "RIGHT"), Finding("a", "p", 2, 1, "RIGHT"),
         Finding("a", "workspace/p", 1, 1, "RIGHT"), Finding("a", Spaced, 1, 1, "RIGHT")} \subseteq Written
    BY DEF Finding, Written, Sides
  <1> QED  BY <1>2, <1>3 DEF AgentFindings

\* The finding as a faithful conversion has it.
Converted(f) == [f EXCEPT !.path = ExpectedPath(f), !.side = ExpectedSide(f)]

\* What is expected of the conversion of a finding.
LEMMA ConvertedIs ==
    ASSUME NEW f \in Written
    PROVE  /\ Converted(f) \in Written /\ Converted(f).title = f.title
           /\ Converted(f).path = ExpectedPath(f) /\ Converted(f).side = ExpectedSide(f)
           /\ Converted(f).start = f.start /\ Converted(f).end = f.end
           /\ ExpectedPath(f) \in {"p", "outside", Spaced} /\ ExpectedSide(f) \in Sides
  <1>1. ExpectedPath(f) \in {"p", "outside", Spaced}
    BY DEF Written, ExpectedPath
  <1>2. ExpectedSide(f) \in Sides
    BY DEF Written, ExpectedSide, Sides
  <1> QED  BY <1>1, <1>2 DEF Converted, Written

\* What the ranges cover of the path that is kept, once the diff has been read.
Kept ==
    /\ ranges \in [Paths \X Sides -> Seq(Nat \X Nat)]
    /\ splits \in Nat
    /\ splits = 0 => Ranged /\ \A c \in changed : c[3] \in 1 .. MaxLine

\* A finding that is clipped keeps within its lines.
LEMMA ClipBounds ==
    ASSUME Kept, NEW f \in Written, Schema(Converted(f)), NEW l \in Clip(Converted(f))
    PROVE  l[1] \in Nat /\ l[2] \in Nat /\ f.start <= l[1] /\ l[2] <= f.end
  <1> DEFINE g == Converted(f)
             rs == ranges[<<g.path, ExpectedSide(f)>>]
  <1>1. /\ g.path \in Paths /\ g.side = ExpectedSide(f) /\ g.start = f.start /\ g.end = f.end
        /\ ExpectedSide(f) \in Sides
    BY ConvertedIs, PrintedIs DEF Schema
  <1>2. rs \in Seq(Nat \X Nat)
    BY <1>1 DEF Kept
  <1>3. f.start \in Nat /\ f.end \in Nat
    BY DEF Written
  <1> HIDE DEF g
  <1>4. Overlaps(g) = Common(rs, f.start, f.end)
    BY <1>1 DEF Overlaps, Common
  <1>5. l \in Overlaps(g)
    BY DEF Clip, g
  <1> HIDE DEF rs
  <1> QED  BY <1>2, <1>3, <1>4, <1>5, CommonBounds

\* A finding in the file whose name has a space is not located.
LEMMA SpacedIsNot ==
    ASSUME Kept, splits = 0, NEW f \in Written, Schema(Converted(f)), ExpectedPath(f) = Spaced
    PROVE  Clip(Converted(f)) = {} /\ ~Locatable(f)
  <1>1. Converted(f).path = Spaced /\ Converted(f).side \in Sides
    BY ConvertedIs
  <1>2. ranges[<<Converted(f).path, Converted(f).side>>] = <<>>
    BY <1>1 DEF Kept, Ranged
  <1>3. ToSet(<<>>) = {}
    BY DEF ToSet
  <1>4. Overlaps(Converted(f)) = {}
    BY <1>2, <1>3 DEF Overlaps
  <1> QED  BY <1>4 DEF Clip, Locatable

\* ChangedRanges.clip locates exactly the findings whose changed lines are one block
\* with one line around it at most, and there, in a file whose name has no space.
LEMMA ClipIs ==
    ASSUME Kept, splits = 0, NEW f \in Written, Schema(Converted(f)), ExpectedPath(f) # Spaced
    PROVE  /\ Clip(Converted(f)) # {} <=> Locatable(f)
           /\ \A l \in Clip(Converted(f)) : l[1] .. l[2] = ChangedWithin(f)
  <1> DEFINE g == Converted(f)
             rs == ranges[<<"p", ExpectedSide(f)>>]
             a == f.start
             b == f.end
             on == (a .. b) \cap Covered(rs)
  <1>1. /\ g.path = "p" /\ g.side = ExpectedSide(f) /\ g.start = a /\ g.end = b
        /\ ExpectedSide(f) \in Sides /\ a <= b
    BY ConvertedIs DEF Schema
  <1>2. rs \in Seq(Nat \X Nat) /\ Blocks(rs) /\ Covered(rs) = LinesOf("p", ExpectedSide(f))
    <2>1. <<"p", ExpectedSide(f)>> \in Paths \X Sides
      BY <1>1, PrintedIs
    <2> QED BY <1>1, <2>1, PrintedIs DEF Kept, Ranged
  <1>3. a \in Nat /\ b \in Nat
    BY DEF Written
  <1>4. ChangedWithin(f) = on
    <2>1. \A n : <<"p", ExpectedSide(f), n>> \in changed => n \in 1 .. MaxLine
      BY DEF Kept
    <2> QED  BY <1>2, <2>1 DEF ChangedWithin, LinesOf
  <1> HIDE DEF g
  <1>5. Overlaps(g) = Common(rs, a, b)
    BY <1>1 DEF Overlaps, Common
  <1>6. \A l : ContextLines(g, l) = l[1] - a + b - l[2]
    BY <1>1 DEF ContextLines
  <1> HIDE DEF rs, a, b
  <1>7. IsFiniteSet(Common(rs, a, b))
    BY <1>1, <1>2, <1>3, CommonFinite
  <1>8. ASSUME NEW l \in Clip(g)
        PROVE  Locatable(f) /\ l[1] .. l[2] = ChangedWithin(f)
    <2>1. l \in Common(rs, a, b) /\ Cardinality(Common(rs, a, b)) = 1 /\ ContextLines(g, l) <= 1
      BY <1>5, <1>8 DEF Clip
    <2>2. Common(rs, a, b) = {l}
      BY <1>7, <2>1, FS_Singleton
    <2>3. /\ l[1] \in Nat /\ l[2] \in Nat /\ a <= l[1] /\ l[1] <= l[2] /\ l[2] <= b
          /\ on = l[1] .. l[2]
          /\ Cardinality((a .. b) \ on) = l[1] - a + b - l[2]
      <3>1. a <= b
        BY <1>1
      <3>2. l[1] \in Nat /\ l[2] \in Nat /\ a <= l[1] /\ l[1] <= l[2] /\ l[2] <= b
        BY <1>2, <1>3, <2>2, <3>1, OneCommon
      <3>3. on = l[1] .. l[2]
        <4>1. l[1] .. l[2] \subseteq on
          BY <1>2, <1>3, <2>2, <3>1, CommonIs
        <4>2. ASSUME NEW x \in on PROVE x \in l[1] .. l[2]
          <5>1. PICK k \in Common(rs, a, b) : x \in k[1] .. k[2]
            BY <1>2, <1>3, <3>1, CommonIs
          <5> QED  BY <2>2, <5>1
        <4> QED  BY <4>1, <4>2
      <3>4. Cardinality((a .. b) \ on) = l[1] - a + b - l[2]
        BY <1>2, <1>3, <2>2, <3>1, OneCommon
      <3> QED  BY <3>2, <3>3, <3>4
    <2>4. on # {} /\ \A m, n \in on : m .. n \subseteq on
      BY <2>3
    <2>5. Cardinality((a .. b) \ on) <= 1
      BY <1>6, <2>1, <2>3
    <2> HIDE DEF on
    <2> QED  BY <1>4, <2>3, <2>4, <2>5 DEF Locatable, a, b
  <1>9. ASSUME Locatable(f)
        PROVE  Clip(g) # {}
    <2>1. /\ on # {} /\ \A m, n \in on : m .. n \subseteq on
          /\ Cardinality((a .. b) \ on) <= 1
      BY <1>4, <1>9 DEF Locatable, a, b
    <2>2. PICK l : l \in Common(rs, a, b)
      BY <1>1, <1>2, <1>3, <2>1, CommonIs
    <2>3. Common(rs, a, b) = {l}
      <3>1. a <= b
        BY <1>1
      <3>2. \A j, k \in Common(rs, a, b) : j = k
        BY <1>2, <1>3, <2>1, <3>1, OneBlock, Zenon
      <3> QED  BY <2>2, <3>2
    <2>4. Cardinality(Common(rs, a, b)) = 1
      BY <2>3, FS_Singleton
    <2>5. Cardinality((a .. b) \ on) = l[1] - a + b - l[2]
      <3>1. a <= b
        BY <1>1
      <3> HIDE DEF on
      <3>2. Cardinality((a .. b) \ ((a .. b) \cap Covered(rs))) = l[1] - a + b - l[2]
        BY <1>2, <1>3, <2>3, <3>1, OneCommon
      <3> QED  BY <3>2 DEF on
    <2>6. ContextLines(g, l) <= 1
      BY <1>6, <2>1, <2>5
    <2> QED  BY <1>5, <2>2, <2>4, <2>6 DEF Clip
  <1> QED  BY <1>8, <1>9 DEF g
-----------------------------------------------------------------------------
(***************************************************************************)
(* The comment.                                                            *)
(***************************************************************************)
\* A located finding, on the lines of its range.
LocatedAt(g) ==
    LET lines == CHOOSE l \in Clip(g) : TRUE IN
    [g EXCEPT !.start = lines[1], !.end = lines[2]]

\* A valid conversion of a native review is published.
Valid ==
    /\ native.findings \in Seq(Written)
    /\ output = Faithful(native.findings)
    /\ \A n \in DOMAIN output : Schema(output[n])

\* The converted findings are those of the native review.
LEMMA OutputIs ==
    ASSUME Valid
    PROVE  /\ output \in Seq(Written) /\ DOMAIN output = DOMAIN native.findings
           /\ \A n \in DOMAIN output : output[n] = Converted(native.findings[n])
           /\ \A f \in ToSet(native.findings) :
                 f \in Written /\ Schema(Converted(f)) /\ Converted(f) \in ToSet(output)
           /\ \A g \in ToSet(output) : \E f \in ToSet(native.findings) : g = Converted(f)
  <1> DEFINE F == native.findings
  <1>1. PICK m \in Nat : m = Len(F) /\ DOMAIN F = 1 .. m /\ \A n \in 1 .. m : F[n] \in Written
    BY DEF Valid
  <1>2. output = [n \in 1 .. m |-> Converted(F[n])]
    BY <1>1 DEF Valid, Faithful, Converted
  <1>3. \A n \in 1 .. m : Converted(F[n]) \in Written
    BY <1>1, ConvertedIs
  <1>4. output \in [1 .. m -> Written]
    BY <1>2, <1>3
  <1>5. output \in Seq(Written) /\ DOMAIN output = 1 .. m
    BY <1>4
  <1>6. \A n \in 1 .. m : output[n] = Converted(F[n]) /\ Schema(Converted(F[n]))
    BY <1>2, <1>5 DEF Valid
  <1> QED  BY <1>1, <1>5, <1>6 DEF ToSet

\* A finding with a range on the changed lines is shown by what is located of it.
LEMMA LocatedShows ==
    ASSUME Kept, NEW f \in Written, Schema(Converted(f)), Clip(Converted(f)) # {}
    PROVE  LocatedAt(Converted(f)) \in Written /\ Shows(LocatedAt(Converted(f)), f)
  <1> DEFINE g == Converted(f)
             lines == CHOOSE l \in Clip(g) : TRUE
  <1>1. lines \in Clip(g)
    OBVIOUS
  <1>2. LocatedAt(g) = [g EXCEPT !.start = lines[1], !.end = lines[2]]
    BY DEF LocatedAt
  <1> HIDE DEF lines
  <1>3. lines[1] \in Nat /\ lines[2] \in Nat /\ f.start <= lines[1] /\ lines[2] <= f.end
    BY <1>1, ClipBounds
  <1>4. /\ g \in Written /\ g.title = f.title /\ g.path = ExpectedPath(f)
        /\ g.side = ExpectedSide(f)
    BY ConvertedIs
  <1>5. splits = 0 => Locatable(f) /\ lines[1] .. lines[2] = ChangedWithin(f)
    BY <1>1, ClipIs, SpacedIsNot
  <1> HIDE DEF g
  <1>6. /\ LocatedAt(g) \in Written /\ LocatedAt(g).title = f.title
        /\ LocatedAt(g).path = ExpectedPath(f) /\ LocatedAt(g).side = ExpectedSide(f)
        /\ LocatedAt(g).start = lines[1] /\ LocatedAt(g).end = lines[2]
    BY <1>2, <1>3, <1>4 DEF Written
  <1>7. Shows(LocatedAt(g), f)
    BY <1>3, <1>5, <1>6 DEF Shows, Kept
  <1> QED  BY <1>6, <1>7 DEF g

\* What is located, and what is not, shows a finding each.
LEMMA LocatedIs ==
    ASSUME Kept, Valid
    PROVE  /\ Located \in Seq(Written)
           /\ \A f \in ToSet(native.findings) : Clip(Converted(f)) # {} =>
                 \E l \in ToSet(Located) : Shows(l, f)
           /\ \A l \in ToSet(Located) : \E f \in ToSet(native.findings) : Shows(l, f)
  <1> DEFINE S == {g \in ToSet(output) : Clip(g) # {}}
             kept == Among(output, S)
  <1>1. kept \in Seq(Written) /\ ToSet(kept) = S
    BY OutputIs, AmongIs
  <1>2. Located = [n \in DOMAIN kept |-> LocatedAt(kept[n])]
    BY DEF Located, LocatedAt
  <1> HIDE DEF kept
  <1>3. PICK m \in Nat : DOMAIN kept = 1 .. m
    BY <1>1
  <1>4. \A n \in 1 .. m : kept[n] \in S
    BY <1>1, <1>3 DEF ToSet
  <1>5. \A g \in S : \E n \in 1 .. m : kept[n] = g
    BY <1>1, <1>3 DEF ToSet
  <1>6. ASSUME NEW g \in S
        PROVE  /\ LocatedAt(g) \in Written
               /\ \E f \in ToSet(native.findings) : Shows(LocatedAt(g), f)
    BY OutputIs, LocatedShows
  <1> DEFINE at == [n \in 1 .. m |-> LocatedAt(kept[n])]
  <1>7. Located = at
    BY <1>2, <1>3
  <1>8. at \in [1 .. m -> Written]
    BY <1>4, <1>6
  <1>9. Located \in Seq(Written) /\ DOMAIN Located = 1 .. m
    BY <1>7, <1>8
  <1>10. \A n \in 1 .. m : Located[n] = LocatedAt(kept[n])
    BY <1>7
  <1> HIDE DEF at
  <1>11. ToSet(Located) = {LocatedAt(g) : g \in S}
    BY <1>4, <1>5, <1>9, <1>10 DEF ToSet
  <1>12. ASSUME NEW f \in ToSet(native.findings), Clip(Converted(f)) # {}
         PROVE  \E l \in ToSet(Located) : Shows(l, f)
    <2>1. f \in Written /\ Schema(Converted(f)) /\ Converted(f) \in S
      BY <1>12, OutputIs
    <2>2. Shows(LocatedAt(Converted(f)), f)
      BY <1>12, <2>1, LocatedShows
    <2>3. LocatedAt(Converted(f)) \in ToSet(Located)
      BY <1>11, <2>1
    <2> QED  BY <2>2, <2>3
  <1>13. ASSUME NEW l \in ToSet(Located)
         PROVE  \E f \in ToSet(native.findings) : Shows(l, f)
    BY <1>6, <1>11
  <1> QED  BY <1>9, <1>12, <1>13

\* unlocated_findings lists the findings without a range, and only them.
LEMMA PendingIs ==
    ASSUME Kept, Valid
    PROVE  /\ \A f \in ToSet(native.findings) : Clip(Converted(f)) = {} =>
                 \E n \in DOMAIN Pending : Lists(Pending[n], f)
           /\ \A n \in DOMAIN Pending : \E f \in ToSet(native.findings) : Lists(Pending[n], f)
           /\ output = <<>> => Pending = <<>>
  <1> DEFINE S == {g \in ToSet(output) : Clip(g) = {}}
             rest == Among(output, S)
  <1>1. rest \in Seq(Written) /\ ToSet(rest) = S
    BY OutputIs, AmongIs
  <1>2. Pending = [n \in DOMAIN rest |->
                     [finding |-> rest[n], reason |-> RejectionReason(rest[n])]]
    BY DEF Pending
  <1> HIDE DEF rest
  <1>3. DOMAIN Pending = DOMAIN rest /\ \A n \in DOMAIN rest : Pending[n].finding = rest[n]
    BY <1>2
  <1>4. ASSUME NEW f \in ToSet(native.findings), NEW n \in DOMAIN rest, rest[n] = Converted(f),
               Clip(Converted(f)) = {}
        PROVE  Lists(Pending[n], f)
    <2>1. f \in Written /\ Schema(Converted(f))
      BY OutputIs
    <2>2. Faithful(<<f>>)[1] = Converted(f)
      <3>1. PICK s \in Seq({f}) : s = <<f>> /\ Len(s) = 1 /\ s[1] = f
        <4>1. <<f>> \in Seq({f})
          OBVIOUS
        <4>2. Len(<<f>>) = 1 /\ <<f>>[1] = f
          OBVIOUS
        <4> QED  BY <4>1, <4>2
      <3>2. 1 \in DOMAIN s
        BY <3>1
      <3>3. Faithful(s)[1] = Converted(s[1])
        BY <3>2 DEF Faithful, Converted
      <3> QED  BY <3>1, <3>3
    <2>3. splits = 0 => ~Locatable(f)
      BY <1>4, <2>1, ClipIs, SpacedIsNot
    <2> QED  BY <1>3, <1>4, <2>2, <2>3 DEF Lists, Kept
  <1>5. ASSUME NEW f \in ToSet(native.findings), Clip(Converted(f)) = {}
        PROVE  \E n \in DOMAIN Pending : Lists(Pending[n], f)
    <2>1. Converted(f) \in S
      BY <1>5, OutputIs
    <2>2. PICK n \in DOMAIN rest : rest[n] = Converted(f)
      BY <1>1, <2>1 DEF ToSet
    <2> QED  BY <1>3, <1>4, <1>5, <2>2
  <1>6. ASSUME NEW n \in DOMAIN Pending
        PROVE  \E f \in ToSet(native.findings) : Lists(Pending[n], f)
    <2>1. n \in DOMAIN rest /\ rest[n] \in S
      BY <1>1, <1>3 DEF ToSet
    <2>2. PICK f \in ToSet(native.findings) : rest[n] = Converted(f)
      BY <2>1, OutputIs
    <2> QED  BY <1>4, <2>1, <2>2
  <1>7. ASSUME output = <<>> PROVE Pending = <<>>
    <2>1. ToSet(rest) = {}
      BY <1>1, <1>7 DEF ToSet
    <2>2. rest = <<>>
      BY <1>1, <2>1 DEF ToSet
    <2>3. DOMAIN rest = {}
      BY <2>2
    <2> QED  BY <1>2, <2>3
  <1> QED  BY <1>5, <1>6, <1>7
-----------------------------------------------------------------------------
(***************************************************************************)
(* From the command and the native review to the output.                   *)
(***************************************************************************)
\* A command that counts as evidence has compared the change with the fixed base.
LEMMA EvidenceRan ==
    ASSUME NEW c \in Commands, NEW ok \in [DOMAIN c.segments -> BOOLEAN],
           ExitsZero(c, ok), FixedBaseDiff(c)
    PROVE  Compared(c, ok)
  <1> DEFINE seg == c.segments
             S == {"target", "status", "other diff", "unsafe"}
  <1>1. c.shell \in {"git", "sh"} /\ c.joint \in {"&&", ";", "|", "&"} /\ seg # <<>>
    BY DEF Commands, FixedBaseDiff
  <1>2. PICK m \in Nat : /\ m = Len(seg) /\ DOMAIN seg = 1 .. m /\ seg \in Seq(S)
                         /\ ok \in [1 .. m -> BOOLEAN]
    <2>1. seg \in UNION {[1 .. k -> S] : k \in 0 .. 2}
      BY DEF Commands, SeqOf
    <2> HIDE DEF S, seg
    <2>2. PICK k \in 0 .. 2 : seg \in [1 .. k -> S]
      BY <2>1
    <2>3. k \in Nat /\ seg \in Seq(S)
      BY <2>2
    <2>4. Len(seg) \in Nat /\ DOMAIN seg = 1 .. Len(seg)
      BY <2>3
    <2> QED  BY <2>3, <2>4 DEF seg
  <1> HIDE DEF S
  <1>3. m > 0
    <2> HIDE DEF seg
    <2>1. m # 0
      BY <1>1, <1>2, EmptySeq
    <2> QED  BY <2>1
  <1>4. /\ m > 1 => c.joint = "&&"
        /\ \A n \in 1 .. m : seg[n] # "unsafe"
        /\ \E n \in 1 .. m : seg[n] = "target"
    BY <1>2, <1>3 DEF FixedBaseDiff, ToSet
  <1>5. \A n \in 1 .. m : ok[n]
    <2>1. CASE m > 1
      BY <1>2, <1>3, <1>4, <2>1 DEF ExitsZero
    <2>2. CASE m = 1
      <3>1. \A n \in 1 .. m : n = m
        BY <2>2
      <3>2. IF c.joint = "&&" THEN \A n \in 1 .. m : ok[n] ELSE ok[m]
        <4>1. ~(Len(c.segments) > 1) /\ Len(c.segments) = m /\ DOMAIN ok = 1 .. m
          BY <1>2, <2>2
        <4> QED  BY <4>1 DEF ExitsZero
      <3> QED  BY <3>1, <3>2
    <2> QED  BY <1>3, <2>1, <2>2
  <1>6. PICK n \in 1 .. m : seg[n] = "target"
    BY <1>4
  <1>7. \A k \in 1 .. n - 1 : k \in 1 .. m
    OBVIOUS
  <1> QED  BY <1>1, <1>2, <1>4, <1>5, <1>6, <1>7 DEF Compared

\* A finding is what its fields are.
LEMMA WrittenFields ==
    \A f \in Written :
        f = [title |-> f.title, path |-> f.path, start |-> f.start, end |-> f.end,
             side |-> f.side]
  BY DEF Written

\* A conversion that validate_conversion accepts is the faithful one.
LEMMA AcceptedIsFaithful ==
    ASSUME NEW findings \in Seq(Written), NEW converted \in Conversions(findings),
           SameInventory(findings, converted), SameLocations(findings, converted)
    PROVE  converted = Faithful(findings)
  <1> DEFINE all == Faithful(findings)
  <1>1. PICK m \in Nat : /\ m = Len(findings) /\ DOMAIN findings = 1 .. m
                         /\ \A n \in 1 .. m : findings[n] \in Written
    OBVIOUS
  <1>2. all = [n \in 1 .. m |-> Converted(findings[n])]
    BY <1>1 DEF Faithful, Converted
  <1>3. \A n \in 1 .. m : Converted(findings[n]) \in Written
    BY <1>1, ConvertedIs
  <1>4. all \in [1 .. m -> Written]
    BY <1>2, <1>3
  <1>5. all \in Seq(Written) /\ Len(all) = m /\ DOMAIN all = 1 .. m
    BY <1>4
  <1>6. \A n \in 1 .. m : all[n] = Converted(findings[n])
    BY <1>2
  <1> HIDE DEF all
  <1>7. CASE \E n \in DOMAIN all, f \in AgentFindings : converted = [all EXCEPT ![n] = f]
    <2>1. PICK n \in 1 .. m, f \in AgentFindings : converted = [all EXCEPT ![n] = f]
      BY <1>5, <1>7
    <2>2. f \in Written
      BY AgentsWrite
    <2>3. converted \in [1 .. m -> Written]
      BY <1>4, <2>1, <2>2
    <2>4. ASSUME NEW k \in 1 .. m PROVE converted[k] = all[k]
      <3>1. converted[k] \in Written /\ all[k] \in Written
        BY <1>4, <2>3
      <3>2. /\ converted[k].title = findings[k].title
            /\ converted[k].path = ExpectedPath(findings[k])
            /\ converted[k].side = ExpectedSide(findings[k])
            /\ converted[k].start = findings[k].start /\ converted[k].end = findings[k].end
        BY <1>1 DEF SameInventory, SameLocations
      <3>3. /\ all[k].title = findings[k].title /\ all[k].path = ExpectedPath(findings[k])
            /\ all[k].side = ExpectedSide(findings[k])
            /\ all[k].start = findings[k].start /\ all[k].end = findings[k].end
        BY <1>1, <1>6, ConvertedIs
      <3> QED  BY <3>1, <3>2, <3>3, WrittenFields
    <2>5. converted = all
      BY <1>4, <2>3, <2>4
    <2> QED  BY <2>5 DEF all
  <1>8. ASSUME NEW n \in DOMAIN all, converted = RemoveAt(all, n)
        PROVE  FALSE
    <2>1. n \in 1 .. m
      BY <1>5
    <2>2. /\ SubSeq(all, 1, n - 1) \in Seq(Written) /\ Len(SubSeq(all, 1, n - 1)) = n - 1
          /\ SubSeq(all, n + 1, m) \in Seq(Written) /\ Len(SubSeq(all, n + 1, m)) = m - n
      BY <1>5, <2>1
    <2>3. Len(converted) = (n - 1) + (m - n)
      BY <1>5, <1>8, <2>2 DEF RemoveAt
    <2> QED  BY <1>1, <2>1, <2>3 DEF SameInventory
  <1>9. ASSUME NEW f, converted = Append(all, f)
        PROVE  FALSE
    <2>1. Len(converted) = m + 1
      BY <1>5, <1>9
    <2> QED  BY <1>1, <2>1 DEF SameInventory
  <1> QED  BY <1>7, <1>8, <1>9 DEF Conversions, all
-----------------------------------------------------------------------------
(***************************************************************************)
(* Types, also after a line was cut.                                       *)
(***************************************************************************)
Scanned ==
    git \in Diffs /\ parser \in Parsers /\ ranges \in [Paths \X Sides -> Seq(Nat \X Nat)]

\* record keeps the type of the ranges, whatever the line.
LEMMA WithLineTyped ==
    ASSUME NEW rs \in Seq(Nat \X Nat), NEW n \in Nat
    PROVE  WithLine(rs, n) \in Seq(Nat \X Nat)
  <1>0. PICK m \in Nat : m = Len(rs) /\ DOMAIN rs = 1 .. m
    OBVIOUS
  <1>1. CASE Extends(rs, n)
    <2>1. m \in 1 .. m
      BY <1>0, <1>1 DEF Extends
    <2>2. rs[m] \in Nat \X Nat
      BY <1>0, <2>1
    <2> DEFINE r == <<rs[m][1], IF n > rs[m][2] THEN n ELSE rs[m][2]>>
    <2>3. r \in Nat \X Nat
      BY <2>2
    <2>4. WithLine(rs, n) = [rs EXCEPT ![m] = r]
      BY <1>0, <1>1 DEF WithLine
    <2> HIDE DEF r
    <2> QED  BY <1>0, <2>1, <2>3, <2>4
  <1>2. CASE ~Extends(rs, n)
    BY <1>2 DEF WithLine
  <1> QED  BY <1>1, <1>2

\* So it does within a hunk.
LEMMA RecordTyped ==
    ASSUME Scanned, NEW side \in Sides, Record(side)
    PROVE  parser' \in Parsers /\ ranges' \in [Paths \X Sides -> Seq(Nat \X Nat)]
  <1> DEFINE path == parser.path[side]
             n == parser.line[side]
  <1>1. /\ path \in Paths \cup {None} /\ n \in Nat /\ parser.line \in [Sides -> Nat]
        /\ parser.count \in [Sides -> Nat]
    BY DEF Scanned, Parsers
  <1>2. parser' = [parser EXCEPT !.line[side] = @ + 1, !.count[side] = @ + 1]
    BY DEF Record
  <1>3. parser' \in Parsers
    <2>1. PICK line \in [Sides -> Nat] : line = [parser.line EXCEPT ![side] = @ + 1]
      <3>1. [parser.line EXCEPT ![side] = @ + 1] \in [Sides -> Nat]
        BY <1>1
      <3> QED  BY <3>1
    <2>2. PICK count \in [Sides -> Nat] : count = [parser.count EXCEPT ![side] = @ + 1]
      <3>1. parser.count[side] + 1 \in Nat
        BY <1>1
      <3>2. [parser.count EXCEPT ![side] = @ + 1] \in [Sides -> Nat]
        BY <1>1, <3>1
      <3> QED  BY <3>2
    <2>3. parser' = [parser EXCEPT !.line = line, !.count = count]
      BY <1>2, <2>1, <2>2 DEF Scanned, Parsers
    <2> QED  BY <2>1, <2>2, <2>3 DEF Scanned, Parsers
  <1>4. CASE path = None \/ n < 1
    BY <1>3, <1>4 DEF Record, Scanned
  <1>5. CASE ~(path = None \/ n < 1)
    <2>1. <<path, side>> \in Paths \X Sides
      BY <1>1, <1>5
    <2>2. ranges[<<path, side>>] \in Seq(Nat \X Nat)
      BY <2>1 DEF Scanned
    <2>3. ranges' = [ranges EXCEPT ![<<path, side>>] = WithLine(ranges[<<path, side>>], n)]
      BY <1>5 DEF Record
    <2>4. WithLine(ranges[<<path, side>>], n) \in Seq(Nat \X Nat)
      BY <1>1, <2>2, WithLineTyped
    <2> QED  BY <1>3, <2>1, <2>3, <2>4 DEF Scanned
  <1> QED  BY <1>4, <1>5

\* One line, whatever it is.
LEMMA ParseTyped ==
    ASSUME Scanned, NEW l, l.line \in [Sides -> Nat], Parse(l)
    PROVE  parser' \in Parsers /\ ranges' \in [Paths \X Sides -> Seq(Nat \X Nat)]
  <1>1. CASE ParseFile(l)
    <2> DEFINE none == [s \in Sides |-> None]
    <2>1. none \in [Sides -> Paths \cup {None}]
      OBVIOUS
    <2>2. PICK k \in Nat : k = parser.files + 1
      BY DEF Scanned, Parsers
    <2> HIDE DEF none
    <2>3. parser' = [parser EXCEPT !.state = "header", !.files = k, !.path = none]
      BY <1>1, <2>2 DEF ParseFile, none
    <2>4. parser' \in Parsers
      BY <2>1, <2>3 DEF Scanned, Parsers
    <2> QED  BY <1>1, <2>4 DEF ParseFile, Scanned
  <1>2. ASSUME NEW shape, NEW from, NEW to \in {"old_path", "ready"}, NEW side \in Sides,
               ParseName(l, shape, from, to, side)
        PROVE  parser' \in Parsers /\ ranges' = ranges
    <2>1. parser' = [parser EXCEPT !.state = to, !.path[side] = PathOf(l.name)]
      BY <1>2 DEF ParseName
    <2>2. PathOf(l.name) \in Paths \cup {None}
      BY PathsOf
    <2>3. parser' \in Parsers
      BY <2>1, <2>2 DEF Scanned, Parsers
    <2> QED  BY <1>2, <2>3 DEF ParseName
  <1>3. CASE ParseOld(l) \/ ParseNew(l)
    BY <1>2, <1>3, SideCases DEF ParseOld, ParseNew, Scanned
  <1>4. CASE ParseHunk(l)
    BY <1>4 DEF ParseHunk, Scanned, Parsers
  <1>5. CASE Record("LEFT") \/ Record("RIGHT")
    BY <1>5, RecordTyped, SideCases
  <1>6. CASE /\ parser' = [parser EXCEPT !.line = [s \in Sides |-> @[s] + 1]]
             /\ UNCHANGED ranges
    <2> DEFINE line == [s \in Sides |-> parser.line[s] + 1]
    <2>1. line \in [Sides -> Nat]
      BY DEF Scanned, Parsers
    <2>2. parser' = [parser EXCEPT !.line = line]
      BY <1>6
    <2> HIDE DEF line
    <2> QED  BY <1>6, <2>1, <2>2 DEF Scanned, Parsers
  <1>7. CASE Skip(l)
    BY <1>7 DEF Skip, Scanned
  <1> QED  BY <1>1, <1>3, <1>4, <1>5, <1>6, <1>7 DEF Parse, ParseBody

\* Every line that is printed has line numbers.
LEMMA LineTyped ==
    ASSUME NEW shape, NEW name
    PROVE  /\ Line(shape).line \in [Sides -> Nat]
           /\ [Line(shape) EXCEPT !.name = name].line \in [Sides -> Nat]
  BY DEF Line

\* Whatever git prints, and however it is cut, types are kept.
LEMMA ScanTyped ==
    ASSUME Scanned, DiffNext
    PROVE  Scanned'
  <1>1. git \in Diffs /\ MaxLine \in Nat
    BY DiffAssumption DEF Scanned
  <1>2. CASE PrintFile
    <2>1. git' \in Diffs
      BY <1>1, <1>2, FileTyped
    <2> QED  BY <1>2, <2>1, ParseTyped, LineTyped DEF PrintFile, Scanned
  <1>3. CASE PrintOld \/ PrintNew
    <2>1. git' \in Diffs
      BY <1>1, <1>3 DEF PrintOld, PrintNew, Diffs
    <2>2. \E shape, name : Parse([Line(shape) EXCEPT !.name = name])
      BY <1>3 DEF PrintOld, PrintNew
    <2> QED  BY <2>1, <2>2, ParseTyped, LineTyped DEF Scanned
  <1>4. CASE PrintHunk
    <2>1. PICK skip \in (IF git.at = "new" THEN 0 ELSE 1) .. MaxLine :
            LET line == [s \in Sides |-> IF Exists(s) THEN git.line[s] + skip ELSE 0] IN
            /\ git' = [git EXCEPT !.at = "hunk", !.line = line]
            /\ Parse([Line("@@") EXCEPT !.line = line])
      BY <1>4 DEF PrintHunk
    <2> DEFINE line == [s \in Sides |-> IF Exists(s) THEN git.line[s] + skip ELSE 0]
               l == [Line("@@") EXCEPT !.line = line]
    <2>2. skip \in Nat /\ \A s \in Sides : git.line[s] \in Nat
      BY <1>1 DEF Diffs
    <2>3. line \in [Sides -> Nat] /\ l.line = line
      BY <2>2 DEF Line
    <2> HIDE DEF line
    <2>4. git' = [git EXCEPT !.at = "hunk", !.line = line] /\ Parse(l)
      BY <2>1 DEF line
    <2>5. git' \in Diffs
      BY <1>1, <2>3, <2>4 DEF Diffs
    <2> HIDE DEF l
    <2> QED  BY <2>3, <2>4, <2>5, ParseTyped DEF Scanned
  <1>5. CASE PrintContext
    <2> DEFINE line == [s \in Sides |-> git.line[s] + 1]
    <2>1. line \in [Sides -> Nat]
      BY <1>1 DEF Diffs
    <2>2. git' = [git EXCEPT !.line = line] /\ Parse(Line(" "))
      BY <1>5 DEF PrintContext
    <2> HIDE DEF line
    <2>3. git' \in Diffs
      BY <1>1, <2>1, <2>2 DEF Diffs
    <2> QED  BY <2>2, <2>3, ParseTyped, LineTyped DEF Scanned
  <1>6. CASE SplitLine
    <2>1. git' = git /\ \E shape : Parse(Line(shape))
      BY <1>6 DEF SplitLine
    <2> QED  BY <2>1, ParseTyped, LineTyped DEF Scanned
  <1>7. ASSUME NEW side \in Sides, NEW shapes, PrintChange(side, shapes)
        PROVE  Scanned'
    <2>1. git' = [git EXCEPT !.line[side] = @ + 1] /\ \E shape : Parse(Line(shape))
      BY <1>7 DEF PrintChange
    <2>2. PICK line \in [Sides -> Nat] : line = [git.line EXCEPT ![side] = @ + 1]
      <3>1. git.line \in [Sides -> Nat] /\ git.line[side] + 1 \in Nat
        BY <1>1 DEF Diffs
      <3>2. [git.line EXCEPT ![side] = @ + 1] \in [Sides -> Nat]
        BY <3>1
      <3> QED  BY <3>2
    <2>3. git' = [git EXCEPT !.line = line]
      BY <1>1, <2>1, <2>2 DEF Diffs
    <2>4. git' \in Diffs
      BY <1>1, <2>2, <2>3 DEF Diffs
    <2> QED  BY <2>1, <2>4, ParseTyped, LineTyped DEF Scanned
  <1> QED  BY <1>2, <1>3, <1>4, <1>5, <1>6, <1>7, SideCases DEF DiffNext
-----------------------------------------------------------------------------
(***************************************************************************)
(* The comment that is published.                                          *)
(***************************************************************************)
\* What a comment shall say of the native review.
Says(located, pending) ==
    /\ \A f \in ToSet(native.findings) : \/ \E n \in DOMAIN located : Shows(located[n], f)
                                         \/ \E n \in DOMAIN pending : Lists(pending[n], f)
    /\ \A n \in DOMAIN located : \E f \in ToSet(native.findings) : Shows(located[n], f)
    /\ \A n \in DOMAIN pending : \E f \in ToSet(native.findings) : Lists(pending[n], f)
    /\ Cardinality(ToSet(located)) = Len(located)

\* The comment says all of the native review and nothing else.
LEMMA CommentSays ==
    ASSUME Kept, Valid
    PROVE  /\ Says(Unique(Located), Pending)
           /\ native.findings = <<>> <=> output = <<>>
           /\ output = <<>> => Unique(Located) = <<>> /\ Pending = <<>>
  <1> DEFINE located == Unique(Located)
  <1>1. /\ located \in Seq(Written) /\ ToSet(located) = ToSet(Located)
        /\ Cardinality(ToSet(located)) = Len(located)
    BY LocatedIs, UniqueIs
  <1> HIDE DEF located
  <1>2. ASSUME NEW f \in ToSet(native.findings)
        PROVE  \/ \E n \in DOMAIN located : Shows(located[n], f)
               \/ \E n \in DOMAIN Pending : Lists(Pending[n], f)
    <2>1. CASE Clip(Converted(f)) # {}
      <3>1. PICK l \in ToSet(located) : Shows(l, f)
        BY <1>1, <2>1, LocatedIs
      <3>2. PICK n \in DOMAIN located : located[n] = l
        BY DEF ToSet
      <3> QED  BY <3>1, <3>2
    <2>2. CASE Clip(Converted(f)) = {}
      BY <2>2, PendingIs
    <2> QED  BY <2>1, <2>2
  <1>3. ASSUME NEW n \in DOMAIN located
        PROVE  \E f \in ToSet(native.findings) : Shows(located[n], f)
    <2>1. located[n] \in ToSet(located)
      BY DEF ToSet
    <2> QED  BY <1>1, <2>1, LocatedIs
  <1>4. Says(located, Pending)
    BY <1>1, <1>2, <1>3, PendingIs DEF Says
  <1>5. DOMAIN output = DOMAIN native.findings /\ output \in Seq(Written)
        /\ native.findings \in Seq(Written)
    BY OutputIs DEF Valid
  <1>6. native.findings = <<>> <=> output = <<>>
    BY <1>5
  <1>7. ASSUME output = <<>> PROVE located = <<>> /\ Pending = <<>>
    <2>1. ToSet(native.findings) = {}
      BY <1>6, <1>7 DEF ToSet
    <2>2. DOMAIN located = {}
      BY <1>3, <2>1
    <2> QED  BY <1>1, <1>7, <2>2, PendingIs
  <1> QED  BY <1>4, <1>6, <1>7 DEF located

\* The comment that is published is faithful.
LEMMA PublishedIsFaithful ==
    ASSUME Kept, Valid, native.confirmed <=> native.findings = <<>>, evidence.ran,
           UNCHANGED <<diffVars, evidence, native>>,
           comment' = [located |-> Unique(Located), pending |-> Pending,
                       approves |-> output = <<>>]
    PROVE  CommentIsFaithful'
  <1> DEFINE located == Unique(Located)
             pending == Pending
  <1>1. /\ Says(located, pending) /\ (native.confirmed <=> output = <<>>)
        /\ output = <<>> => located = <<>> /\ pending = <<>>
    BY CommentSays
  <1>2. /\ comment'.located = located /\ comment'.pending = pending
        /\ comment'.approves = (output = <<>>)
    OBVIOUS
  <1> HIDE DEF located, pending
  <1>3. changed' = changed /\ splits' = splits /\ native' = native /\ evidence' = evidence
    BY DEF diffVars
  <1>4. \A l, f : Shows(l, f)' <=> Shows(l, f)
    BY <1>3 DEF Shows, Locatable, ChangedWithin, ExpectedSide, ExpectedPath
  <1>5. \A item, f : Lists(item, f)' <=> Lists(item, f)
    BY <1>3 DEF Lists, Locatable, ChangedWithin, ExpectedSide, Faithful, ExpectedPath
  <1> QED  BY <1>1, <1>2, <1>3, <1>4, <1>5 DEF CommentIsFaithful, Says

\* The comment stays what it is.
LEMMA FaithfulKept ==
    ASSUME CommentIsFaithful, UNCHANGED reviewVars
    PROVE  CommentIsFaithful'
  <1>1. /\ changed' = changed /\ splits' = splits /\ native' = native /\ evidence' = evidence
        /\ comment' = comment /\ stage' = stage
    BY DEF reviewVars, resultVars, diffVars
  <1>2. \A l, f : Shows(l, f)' <=> Shows(l, f)
    BY <1>1 DEF Shows, Locatable, ChangedWithin, ExpectedSide, ExpectedPath
  <1>3. \A item, f : Lists(item, f)' <=> Lists(item, f)
    BY <1>1 DEF Lists, Locatable, ChangedWithin, ExpectedSide, Faithful, ExpectedPath
  <1> QED  BY <1>1, <1>2, <1>3 DEF CommentIsFaithful

\* The ranges that a review keeps stay what they are.
LEMMA KeptKept ==
    ASSUME Kept, UNCHANGED diffVars
    PROVE  Kept'
  BY RangedKept DEF Kept, diffVars
-----------------------------------------------------------------------------
(***************************************************************************)
(* The inductive invariant of the review.                                  *)
(***************************************************************************)
EvidenceKnown == evidence.recognised => evidence.ran

NativeKnown ==
    stage \in {"convert", "publish"} =>
        native.findings \in Seq(Written) /\ (native.confirmed <=> native.findings = <<>>)

OutputKnown == stage = "publish" => output = Faithful(native.findings)

DiffKnown == ResultInv /\ IF stage = "diff" THEN Scanned ELSE Kept

CommentInv == DiffKnown /\ EvidenceKnown /\ NativeKnown /\ OutputKnown /\ CommentIsFaithful

\* What the diff leaves behind.
LEMMA DiffKnownStep ==
    ASSUME DiffKnown, [ResultNext]_reviewVars
    PROVE  DiffKnown'
  <1>1. ResultInv'
    BY ResultInvStep DEF DiffKnown
  <1>2. CASE ReadDiff
    <2>1. stage = "diff" /\ stage' = "diff" /\ DiffNext
      BY <1>2 DEF ReadDiff, resultVars
    <2> QED  BY <1>1, <2>1, ScanTyped DEF DiffKnown
  <1>3. CASE DiffEnds
    <2>1. /\ stage = "diff" /\ stage' = "review" /\ splits' = splits
          /\ ranges' = [k \in DOMAIN ranges |-> IF k[1] = "p" THEN ranges[k] ELSE <<>>]
          /\ changed' \subseteq changed
      BY <1>3 DEF DiffEnds
    <2>2. ranges' \in [Paths \X Sides -> Seq(Nat \X Nat)]
      BY <2>1 DEF DiffKnown, Scanned
    <2>3. splits' = 0 => Ranged' /\ \A c \in changed' : c[3] \in 1 .. MaxLine
      BY <1>1, <2>1 DEF DiffKnown, ResultInv, DiffInv, LinesAhead
    <2>4. splits' \in Nat
      BY <1>1 DEF ResultInv
    <2> QED  BY <1>1, <2>1, <2>2, <2>3, <2>4 DEF DiffKnown, Kept
  <1>4. CASE UNCHANGED <<diffVars, stage>>
    <2>1. UNCHANGED <<git, parser, ranges, stage>> /\ UNCHANGED diffVars
      BY <1>4 DEF diffVars
    <2> QED  BY <1>1, <2>1, KeptKept DEF DiffKnown, Scanned
  <1>5. ASSUME RunCommand \/ NativeReview \/ Convert \/ PublishReview
        PROVE  stage # "diff" /\ stage' # "diff" /\ UNCHANGED diffVars
    BY <1>5 DEF RunCommand, NativeReview, Convert, PublishReview, ReviewFails
  <1>6. CASE RunCommand \/ NativeReview \/ Convert \/ PublishReview
    BY <1>1, <1>5, <1>6, KeptKept DEF DiffKnown
  <1>7. CASE UNCHANGED reviewVars
    BY <1>4, <1>7 DEF reviewVars, resultVars
  <1> QED  BY <1>2, <1>3, <1>6, <1>7 DEF ResultNext

\* The native review is taken as it was written.
LEMMA NativeStep ==
    ASSUME NativeReview
    PROVE  \/ ReviewFails
           \/ /\ stage' = "convert" /\ evidence' = evidence
              /\ native'.findings \in Seq(Written)
              /\ native'.confirmed <=> native'.findings = <<>>
  <1>1. PICK findings \in SeqOf(AgentFindings, MaxFindings), odd \in BOOLEAN, whole \in BOOLEAN,
             marker \in {"none", "within", "last"} :
          IF whole /\ Inventory(findings, odd, marker)
          THEN /\ stage' = "convert"
               /\ native' = [findings  |-> findings,
                             confirmed |-> findings = <<>> /\ ~odd /\ marker = "last"]
               /\ UNCHANGED <<diffVars, evidence, output, comment>>
          ELSE ReviewFails
    BY DEF NativeReview
  <1>2. findings \in Seq(Written)
    <2>1. PICK m \in 0 .. MaxFindings : findings \in [1 .. m -> AgentFindings]
      BY DEF SeqOf
    <2>2. m \in Nat /\ findings \in [1 .. m -> Written]
      BY <2>1, FindingsAssumption, AgentsWrite
    <2> QED  BY <2>2
  <1> QED  BY <1>1, <1>2 DEF Inventory

\* Every step of a review keeps the invariant.
LEMMA CommentInvStep ==
    ASSUME CommentInv, [ResultNext]_reviewVars
    PROVE  CommentInv'
  <1>1. DiffKnown'
    BY DiffKnownStep DEF CommentInv
  <1>2. CASE ReviewFails
    <2>1. stage' = "failed" /\ evidence'.recognised = FALSE
      BY <1>2 DEF ReviewFails
    <2> QED  BY <1>1, <2>1 DEF CommentInv, EvidenceKnown, NativeKnown, OutputKnown, CommentIsFaithful
  <1>3. CASE ReadDiff \/ DiffEnds
    <2>1. stage' \in {"diff", "review"} /\ evidence' = evidence
      BY <1>3 DEF ReadDiff, DiffEnds, resultVars
    <2> QED  BY <1>1, <2>1 DEF CommentInv, EvidenceKnown, NativeKnown, OutputKnown, CommentIsFaithful
  <1>4. CASE RunCommand
    <2>1. stage' = "review"
      BY <1>4 DEF RunCommand
    <2>2. EvidenceKnown'
      <3>1. PICK c \in Commands : \E ok \in [DOMAIN c.segments -> BOOLEAN] :
              evidence' = [ran        |-> evidence.ran \/ Compared(c, ok),
                           recognised |-> evidence.recognised
                                              \/ (ExitsZero(c, ok) /\ FixedBaseDiff(c))]
        BY <1>4 DEF RunCommand
      <3>2. PICK ok \in [DOMAIN c.segments -> BOOLEAN] :
              evidence' = [ran        |-> evidence.ran \/ Compared(c, ok),
                           recognised |-> evidence.recognised
                                              \/ (ExitsZero(c, ok) /\ FixedBaseDiff(c))]
        BY <3>1
      <3>3. ExitsZero(c, ok) /\ FixedBaseDiff(c) => Compared(c, ok)
        BY EvidenceRan
      <3>4. /\ evidence'.ran <=> evidence.ran \/ Compared(c, ok)
            /\ evidence'.recognised
                 <=> evidence.recognised \/ (ExitsZero(c, ok) /\ FixedBaseDiff(c))
        BY <3>2
      <3> QED  BY <3>3, <3>4 DEF CommentInv, EvidenceKnown
    <2> QED  BY <1>1, <2>1, <2>2 DEF CommentInv, NativeKnown, OutputKnown, CommentIsFaithful
  <1>5. CASE NativeReview
    BY <1>1, <1>2, <1>5, NativeStep
       DEF CommentInv, EvidenceKnown, NativeKnown, OutputKnown, CommentIsFaithful
  <1>6. CASE Convert
    <2>1. stage = "convert"
      BY <1>6 DEF Convert
    <2>2. native.findings \in Seq(Written) /\ (native.confirmed <=> native.findings = <<>>)
      BY <2>1 DEF CommentInv, NativeKnown
    <2>3. \/ ReviewFails
          \/ /\ stage' = "publish" /\ native' = native /\ evidence' = evidence
             /\ output' = Faithful(native.findings)
      BY <1>6, <2>2, AcceptedIsFaithful DEF Convert
    <2>4. CASE /\ stage' = "publish" /\ native' = native /\ evidence' = evidence
               /\ output' = Faithful(native.findings)
      <3>1. OutputKnown'
        BY <2>4 DEF OutputKnown, Faithful, ExpectedPath, ExpectedSide
      <3> QED  BY <1>1, <2>2, <2>4, <3>1 DEF CommentInv, EvidenceKnown, NativeKnown, CommentIsFaithful
    <2> QED  BY <1>2, <2>3, <2>4
  <1>7. CASE PublishReview
    <2>1. stage = "publish"
      BY <1>7 DEF PublishReview
    <2>2. /\ native.findings \in Seq(Written) /\ (native.confirmed <=> native.findings = <<>>)
          /\ output = Faithful(native.findings)
      BY <2>1 DEF CommentInv, NativeKnown, OutputKnown
    <2>3. CASE /\ evidence.recognised /\ \A n \in DOMAIN output : Schema(output[n])
               /\ stage' = "published" /\ UNCHANGED <<diffVars, evidence, native>>
               /\ comment' = [located |-> Unique(Located), pending |-> Pending,
                              approves |-> output = <<>>]
      <3>1. Kept /\ Valid /\ evidence.ran
        BY <2>1, <2>2, <2>3 DEF CommentInv, DiffKnown, EvidenceKnown, Valid
      <3>2. CommentIsFaithful'
        BY <2>2, <2>3, <3>1, PublishedIsFaithful
      <3> QED  BY <1>1, <2>3, <3>2 DEF CommentInv, EvidenceKnown, NativeKnown, OutputKnown
    <2>4. \/ ReviewFails
          \/ /\ evidence.recognised /\ \A n \in DOMAIN output : Schema(output[n])
             /\ stage' = "published" /\ UNCHANGED <<diffVars, evidence, native>>
             /\ comment' = [located |-> Unique(Located), pending |-> Pending,
                            approves |-> output = <<>>]
      BY <1>7 DEF PublishReview
    <2> QED  BY <1>2, <2>3, <2>4
  <1>8. CASE UNCHANGED reviewVars
    <2>1. CommentIsFaithful'
      BY <1>8, FaithfulKept DEF CommentInv
    <2>2. EvidenceKnown' /\ NativeKnown' /\ OutputKnown'
      BY <1>8 DEF CommentInv, EvidenceKnown, NativeKnown, OutputKnown, reviewVars, resultVars,
                  Faithful, ExpectedPath, ExpectedSide
    <2> QED  BY <1>1, <2>1, <2>2 DEF CommentInv
  <1> QED  BY <1>3, <1>4, <1>5, <1>6, <1>7, <1>8 DEF ResultNext

\* For any diff, any number of findings and whatever the agents write: a comment
\* shows every finding of the native review and nothing else, located exactly where
\* ChangedRanges.clip may locate it (never in a file whose name has a space, which
\* git prints with a tab that _parse_diff_path keeps), no located finding twice (an
\* unverified one as often as the review repeats it), approves exactly what the
\* agent confirmed, and only after the change was compared with the fixed base.
THEOREM CommentsAreFaithful == ResultSpec => []CommentIsFaithful
  <1>1. ResultInit => CommentInv
    <2> SUFFICES ASSUME ResultInit
                 PROVE  CommentInv
      OBVIOUS
    <2>1. ResultInv /\ stage = "diff" /\ splits = 0 /\ evidence.recognised = FALSE
      BY ResultInvInit DEF ResultInit, DiffInit
    <2>2. Scanned
      BY <2>1 DEF ResultInv, DiffInv, DiffTypes, Scanned
    <2> QED  BY <2>1, <2>2 DEF CommentInv, DiffKnown, EvidenceKnown, NativeKnown, OutputKnown,
                               CommentIsFaithful
  <1>2. CommentInv /\ [ResultNext]_reviewVars => CommentInv'
    BY CommentInvStep
  <1>3. CommentInv => CommentIsFaithful
    BY DEF CommentInv
  <1> QED  BY <1>1, <1>2, <1>3, PTL DEF ResultSpec
=============================================================================
