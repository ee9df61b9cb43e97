----------------------------- MODULE ForgeCalls -----------------------------
(***************************************************************************)
(* The calls by which Coderus writes to a forge: publish (find or create   *)
(* the fork, push the branch, find or open the pull request) and           *)
(* publish_pr_comment (find the comment with the marker, rewrite it or     *)
(* post it). Every call runs in a thread that nothing cancels, so that the *)
(* call of a worker that has lost its claim may overlap with the call of   *)
(* its successor. A call is a sequence of requests; the forge may answer   *)
(* late, wrongly or not at all, and a request without an answer may have   *)
(* taken effect, take effect later, or never.                              *)
(*                                                                         *)
(* Both publishers are modelled; `provider' says which one a behaviour is  *)
(* about, `job' which of the two calls it makes.                           *)
(***************************************************************************)
EXTENDS Forges, Sequences, FiniteSets

CONSTANTS
    NCalls,             \* calls, in the order in which they start
    FORK_POLL_ATTEMPTS,
    MaxCommit,          \* commits of the workspace
    MaxOthers,          \* comments of other users
    MaxDeleted          \* comments of other users that are deleted

ASSUME ForgeAssumption ==
    /\ {NCalls, FORK_POLL_ATTEMPTS, MaxCommit, MaxOthers, MaxDeleted} \subseteq Nat
    /\ MaxCommit > 0

Calls == 1 .. NCalls

VARIABLES
    job,        \* what the calls are about: "publish" or "comment"
    call,       \* per call: its place, and what it has read so far
    repo,       \* the repository at the place of the fork
    registered, \* repositories.fork_url is set
    head,       \* last commit of the workspace
    branch,     \* commit at the branch of the fork, 0 for no branch
    pull,       \* the pull request of the branch
    comments,   \* comments of the pull request, oldest first
    late,       \* calls whose POST the forge has received and not yet done
    raced,      \* a comment was posted on a listing that was overtaken
    deleted     \* comments deleted so far

remote == <<repo, branch, pull, comments>>
vars == <<provider, job, call, repo, registered, head, branch, pull, comments,
          late, raced, deleted>>

\* Comments: the call that posted it, 0 for another user; with or without the
\* marker of the review; its text, two of which the properties tell apart.
Bodies  == {1, 2}
Comment == [by : 0 .. NCalls, marked : BOOLEAN, body : Bodies]
Stranger(m) == [by |-> 0, marked |-> m, body |-> 1]
OwnComment(c) == [by |-> c, marked |-> TRUE, body |-> call[c].body]

IdleCall == [pc |-> "idle", boot |-> FALSE, polls |-> 0, commit |-> 0, body |-> 1,
             page |-> 1, target |-> 0, found |-> "none", disturbed |-> FALSE]

Init ==
    /\ provider \in {"github", "gitcode"}
    /\ job \in {"publish", "comment"}
    /\ call = [c \in Calls |-> IdleCall]
    /\ repo \in IF job = "publish" THEN {"absent", "fork", "stranger"} ELSE {"fork"}
    /\ registered \in IF job = "publish" THEN BOOLEAN ELSE {TRUE}
    /\ head = 1 /\ branch = 0 /\ pull = "none"
    /\ comments \in IF job = "comment"
                    THEN UNION {[1 .. n -> {Stranger(m) : m \in BOOLEAN}] :
                                n \in 0 .. PER_PAGE}
                    ELSE {<<>>}
    /\ late = {} /\ raced = FALSE /\ deleted = 0

At(c, pc) == call[c].pc = pc
Go(c, pc) == [call EXCEPT ![c].pc = pc]

\* The answers of a POST with what they may mean: a good answer, one that is
\* not what was asked for and one with odd fields say that it was done, 409 and
\* 429 that it was not, a refusal that it never will be; no answer and a server
\* error say nothing.
Answers == [answer : {"ok", "garbled", "odd"}, effect : {"now"}]
           \cup [answer : {"conflict", "refused"}, effect : {"never"}]
           \cup [answer : {"lost"}, effect : {"now", "later", "never"}]

\* _request, _post_json and _validate_created_comment: the answers after which
\* the call looks for what it asked for. GitHubPublisher never does.
Uncertain(answer) ==
    provider = "gitcode" /\ answer \in {"garbled", "lost", "conflict"}

\* Where a POST leaves the call: on, to the reconciliation, or to an error.
AfterPost(answer, good, reconcile) ==
    CASE answer = "ok" -> good
      [] Uncertain(answer) -> reconcile
      [] OTHER -> "failed"
-----------------------------------------------------------------------------
(***************************************************************************)
(* publish.                                                                *)
(***************************************************************************)
\* Forge._publish: without a registered fork the publisher is first asked to
\* find or create one (boot), then the fork is registered.
StartPublish(c) ==
    /\ job = "publish" /\ At(c, "idle") /\ (c > 1 => ~At(c - 1, "idle"))
    /\ call' = [call EXCEPT ![c].pc = "user", ![c].boot = ~registered]
    /\ UNCHANGED <<provider, job, registered, head, late, raced, deleted, remote>>

\* ensure_fork: the account, ...
GetUser(c) ==
    /\ At(c, "user") /\ call' = Go(c, IF job = "publish" THEN "lookup" ELSE "list")
    /\ UNCHANGED <<provider, job, registered, head, late, raced, deleted, remote>>

\* _fork_result: the repository is the public fork of the upstream.
ExpectedFork == {"fork"}

\* What ensure_fork makes of a repository it has been given.
ForkFound(c) ==
    IF repo \notin ExpectedFork
    THEN call' = Go(c, "failed") /\ UNCHANGED registered
    ELSE IF call[c].boot
         THEN /\ call' = [call EXCEPT ![c].pc = "user", ![c].boot = FALSE]
              /\ registered' = TRUE
         ELSE call' = Go(c, "source") /\ UNCHANGED registered

\* ... the repository, if there is one, ...
LookupFork(c) ==
    /\ At(c, "lookup")
    /\ IF repo \in {"fork", "stranger"}
       THEN ForkFound(c)
       ELSE call' = Go(c, "fork") /\ UNCHANGED registered
    /\ UNCHANGED <<provider, job, head, late, raced, deleted, remote>>

\* ... the request for a fork, whose answer is not read, and of which a late one is no different: a fork
\* appears some time after it was asked for, ...
CreateFork(c) ==
    /\ At(c, "fork")
    /\ \E a \in Answers :
        /\ call' = [call EXCEPT ![c].polls = 0,
             ![c].pc = IF a.answer \in {"garbled", "odd"} THEN "poll"
                       ELSE AfterPost(a.answer, "poll", "poll")]
        /\ repo' = IF repo = "absent" /\ a.effect # "never" THEN "pending" ELSE repo
    /\ UNCHANGED <<provider, job, registered, head, branch, pull, comments, late,
                   raced, deleted>>

\* Mutant: the polling has no end.
BugPollForever(c) ==
    /\ At(c, "poll")
    /\ IF repo \in {"fork", "stranger"}
       THEN ForkFound(c)
       ELSE UNCHANGED <<call, registered>>
    /\ UNCHANGED <<provider, job, head, late, raced, deleted, remote>>

\* ... and the polling.
PollFork(c) ==
    /\ At(c, "poll")
    /\ \/ /\ call[c].polls < FORK_POLL_ATTEMPTS
          /\ repo \in {"fork", "stranger"}
          /\ ForkFound(c)
       \/ /\ call[c].polls < FORK_POLL_ATTEMPTS
          /\ repo \notin {"fork", "stranger"}
          /\ call' = [call EXCEPT ![c].polls = @ + 1]
          /\ UNCHANGED registered
       \/ /\ call[c].polls = FORK_POLL_ATTEMPTS
          /\ call' = Go(c, "failed")
          /\ UNCHANGED registered
    /\ UNCHANGED <<provider, job, head, late, raced, deleted, remote>>

\* HttpsGitPusher._resolve_source: the commit of the branch in the workspace.
ResolveSource(c) ==
    /\ At(c, "source")
    /\ call' = [call EXCEPT ![c].pc = "push", ![c].commit = head]
    /\ UNCHANGED <<provider, job, registered, head, late, raced, deleted, remote>>

\* The remote takes a push that extends its branch, and no other.
FastForward(c) == call[c].commit >= branch

\* git push of that commit, without force; its answer may be lost.
Push(c) ==
    /\ At(c, "push")
    /\ \/ /\ FastForward(c) /\ branch' = call[c].commit
          /\ call' \in {Go(c, "find"), Go(c, "failed")}
       \/ /\ call' = Go(c, "failed") /\ UNCHANGED branch
    /\ UNCHANGED <<provider, job, registered, head, late, raced, deleted, repo,
                   pull, comments>>

\* The pull requests the forge lists for the base branch, open or not: GitHub's list
\* is filtered by fork and branch, GitCode's holds one from another fork, too, whose
\* branch has the same name.
ListedPulls ==
    (IF pull # "none" THEN {"own"} ELSE {})
        \cup (IF provider = "gitcode" THEN {"foreign"} ELSE {})

\* The comparison of owner and name of the repository of the head.
FromFork(p) == p = "own"

\* _find_pull_request, or the first of the list of GitHub.
FoundPull ==
    IF \E p \in ListedPulls : FromFork(p)
    THEN CHOOSE p \in ListedPulls : FromFork(p) ELSE "none"

FindPull(c) ==
    /\ At(c, "find")
    /\ call' = [call EXCEPT ![c].found = FoundPull,
                            ![c].pc = IF FoundPull = "none" THEN "open" ELSE "done"]
    /\ UNCHANGED <<provider, job, registered, head, late, raced, deleted, remote>>

\* The POST. The forge refuses a second open pull request of a branch.
OpenPull(c) ==
    /\ At(c, "open")
    /\ \E a \in Answers :
        /\ a.answer \in {"ok", "garbled", "odd"} => pull # "open"
        /\ pull' = IF a.effect = "now" THEN "open" ELSE pull
        /\ late' = IF a.effect = "later" THEN late \cup {c} ELSE late
        /\ call' = [call EXCEPT
             ![c].pc = AfterPost(a.answer, "done", "reconcile"),
             ![c].found = IF a.answer = "ok" THEN "own" ELSE @]
    /\ UNCHANGED <<provider, job, registered, head, repo, branch, comments, raced,
                   deleted>>

\* Mutant: the reconciliation takes the request for done.
BugReconcileIsDone(c) ==
    /\ At(c, "reconcile")
    /\ call' = [call EXCEPT ![c].found = FoundPull, ![c].pc = "done"]
    /\ UNCHANGED <<provider, job, registered, head, late, raced, deleted, remote>>

\* After an uncertain POST: the pull request, or the error of the POST.
ReconcilePull(c) ==
    /\ At(c, "reconcile")
    /\ call' = [call EXCEPT ![c].found = FoundPull,
                            ![c].pc = IF FoundPull = "none" THEN "failed" ELSE "done"]
    /\ UNCHANGED <<provider, job, registered, head, late, raced, deleted, remote>>
-----------------------------------------------------------------------------
(***************************************************************************)
(* publish_pr_comment.                                                     *)
(***************************************************************************)
StartComment(c) ==
    /\ job = "comment" /\ At(c, "idle") /\ (c > 1 => ~At(c - 1, "idle"))
    /\ \E b \in Bodies :
        call' = [call EXCEPT ![c].pc = IF provider = "github" THEN "user" ELSE "list",
                             ![c].body = b]
    /\ UNCHANGED <<provider, job, registered, head, late, raced, deleted, remote>>

\* Mutant: a comment of anybody with the marker is taken for ours.
BugAnyAuthor(m) == m.marked

\* The comment this call is looking for: its marker, and its own account.
IsOurs(m) == m.by # 0 /\ m.marked

PageOf(n) == {i \in DOMAIN comments : i > (n - 1) * PER_PAGE /\ i <= n * PER_PAGE}

\* Mutant: only the first page is read.
BugOnePage(n) == FALSE

\* _get_list_pages: a full page is followed by another one.
MorePages(n) == Cardinality(PageOf(n)) = PER_PAGE

\* What the search of c does with the comment it has found: GitHubPublisher
\* leaves it as it is, GitCodePublisher rewrites it if the text is another (but
\* not after an uncertain POST).
OnFound(c, m) ==
    IF provider = "gitcode" /\ At(c, "list") /\ m.body # call[c].body THEN "patch" ELSE "done"

\* One page of _find_comment. The first comment on the page ends the search.
ListPage(c, list, missing) ==
    LET ours == {i \in PageOf(call[c].page) : IsOurs(comments[i])}
    IN  /\ At(c, list)
        /\ IF ours # {}
           THEN LET m == comments[CHOOSE i \in ours : \A j \in ours : i <= j]
                IN  call' = [call EXCEPT ![c].target = m.by, ![c].pc = OnFound(c, m),
                                         ![c].found = "own", ![c].page = 1]
           ELSE IF MorePages(call[c].page)
                THEN call' = [call EXCEPT ![c].page = @ + 1]
                ELSE call' = [call EXCEPT ![c].pc = missing, ![c].page = 1]
        /\ UNCHANGED <<provider, job, registered, head, late, raced, deleted, remote>>

FindComment(c) == ListPage(c, "list", "post")

\* After an uncertain POST: the comment, or the error of the POST.
ReconcileComment(c) == ListPage(c, "relist", "failed")

\* History: the calls that a change of the comments overtakes are those that
\* are listing, or have listed and not posted, or are looking for their post.
Listing(d) == call[d].pc \in {"list", "post", "relist"} \/ d \in late
Overtake(calls, ds) ==
    [d \in Calls |-> [calls[d] EXCEPT !.disturbed = @ \/ (d \in ds /\ Listing(d))]]

\* The PATCH, by the identifier of the comment; its answer may be lost.
PatchComment(c) ==
    /\ At(c, "patch")
    /\ \/ /\ comments' = [i \in DOMAIN comments |->
             IF comments[i].by = call[c].target
             THEN [comments[i] EXCEPT !.body = call[c].body] ELSE comments[i]]
          /\ call' \in {Overtake(Go(c, pc), Calls \ {c}) : pc \in {"done", "failed"}}
       \/ /\ call' = Go(c, "failed") /\ UNCHANGED comments
    /\ UNCHANGED <<provider, job, registered, head, late, raced, deleted, repo,
                   branch, pull>>

PostComment(c) ==
    /\ At(c, "post")
    /\ \E a \in Answers :
        /\ comments' = IF a.effect = "now" THEN Append(comments, OwnComment(c))
                       ELSE comments
        /\ raced' = (raced \/ (a.effect = "now" /\ call[c].disturbed))
        /\ late' = IF a.effect = "later" THEN late \cup {c} ELSE late
        /\ LET after == [call EXCEPT
                 ![c].pc = AfterPost(a.answer, "done", "relist"),
                 ![c].found = IF a.answer = "ok" THEN "own" ELSE @]
           IN  call' = IF a.effect = "now" THEN Overtake(after, Calls \ {c}) ELSE after
    /\ UNCHANGED <<provider, job, registered, head, repo, branch, pull, deleted>>
-----------------------------------------------------------------------------
(***************************************************************************)
(* Failures and the rest of the world.                                     *)
(***************************************************************************)
Reading == {"user", "lookup", "poll", "source", "find", "reconcile", "list", "relist"}

\* request_with_backoff: a GET is repeated until the attempts or the time are
\* used up, then the call fails; so it does on an answer it cannot read, and
\* when the workspace has no commit to push.
ReadFails(c) ==
    /\ call[c].pc \in Reading
    /\ call' = Go(c, "failed")
    /\ UNCHANGED <<provider, job, registered, head, late, raced, deleted, remote>>

\* A POST nobody waits for takes effect.
LatePost(c) ==
    /\ c \in late
    /\ late' = late \ {c}
    /\ IF job = "publish"
       THEN pull' = "open" /\ UNCHANGED <<comments, raced, call>>
       ELSE /\ comments' = Append(comments, OwnComment(c))
            /\ raced' = (raced \/ call[c].disturbed)
            /\ call' = Overtake(call, Calls \ {c})
            /\ UNCHANGED pull
    /\ UNCHANGED <<provider, job, registered, head, repo, branch, deleted>>

ForkAppears ==
    /\ repo = "pending" /\ repo' = "fork"
    /\ UNCHANGED <<provider, job, call, registered, head, branch, pull, comments,
                   late, raced, deleted>>

\* A maintainer closes or merges the pull request.
PullCloses ==
    /\ pull = "open" /\ pull' = "closed"
    /\ UNCHANGED <<provider, job, call, registered, head, repo, branch, comments,
                   late, raced, deleted>>

\* The next revision is committed in the workspace.
Commit ==
    /\ job = "publish" /\ head < MaxCommit /\ head' = head + 1
    /\ UNCHANGED <<provider, job, call, registered, late, raced, deleted, remote>>

Others == {i \in DOMAIN comments : comments[i].by = 0}

SomebodyComments ==
    /\ job = "comment" /\ Cardinality(Others) + deleted < MaxOthers
    /\ \E m \in BOOLEAN : comments' = Append(comments, Stranger(m))
    /\ UNCHANGED <<provider, job, call, registered, head, repo, branch, pull, late,
                   raced, deleted>>

\* Somebody deletes a comment: what follows moves up, also to earlier pages.
CommentDeleted ==
    /\ deleted < MaxDeleted /\ deleted' = deleted + 1
    /\ \E i \in Others :
        comments' = SubSeq(comments, 1, i - 1) \o SubSeq(comments, i + 1, Len(comments))
    /\ call' = Overtake(call, Calls)
    /\ UNCHANGED <<provider, job, registered, head, repo, branch, pull, late, raced>>

PublishStep(c) ==
    \/ GetUser(c) \/ LookupFork(c) \/ CreateFork(c) \/ PollFork(c)
    \/ ResolveSource(c) \/ Push(c) \/ FindPull(c) \/ OpenPull(c) \/ ReconcilePull(c)

CommentStep(c) ==
    \/ FindComment(c) \/ ReconcileComment(c) \/ PatchComment(c) \/ PostComment(c)

CallStep(c) == PublishStep(c) \/ CommentStep(c) \/ ReadFails(c)

Next ==
    \/ \E c \in Calls : StartPublish(c) \/ StartComment(c) \/ CallStep(c) \/ LatePost(c)
    \/ ForkAppears \/ PullCloses \/ Commit \/ SomebodyComments \/ CommentDeleted

Spec == Init /\ [][Next]_vars

\* Every request ends, with an answer or without: the HTTP client has a timeout
\* of 10 s and git one of 120 s. Nothing says that a request fails, that a fork
\* appears or that a late POST is done.
FairSpec == Spec /\ \A c \in Calls : WF_vars(PublishStep(c) \/ CommentStep(c))
-----------------------------------------------------------------------------
(***************************************************************************)
(* Properties.                                                             *)
(***************************************************************************)
Pcs == {"idle", "user", "lookup", "fork", "poll", "source", "push", "find", "open",
        "reconcile", "list", "patch", "post", "relist", "done", "failed"}

\* Every variable keeps its type.
TypeOK ==
    /\ provider \in {"github", "gitcode"} /\ job \in {"publish", "comment"}
    /\ call \in [Calls -> [pc : Pcs, boot : BOOLEAN, polls : 0 .. FORK_POLL_ATTEMPTS,
                           commit : 0 .. MaxCommit, body : Bodies, page : Nat \ {0}, target : 0 .. NCalls,
                           found : {"none", "own"}, disturbed : BOOLEAN]]
    /\ repo \in {"absent", "pending", "fork", "stranger"} /\ registered \in BOOLEAN
    /\ head \in 0 .. MaxCommit /\ branch \in 0 .. MaxCommit
    /\ pull \in {"none", "open", "closed"}
    /\ comments \in Seq(Comment)
    /\ late \subseteq Calls /\ raced \in BOOLEAN /\ deleted \in 0 .. MaxDeleted

\* A publish that reports success has happened: the branch of the fork of the
\* upstream holds the commit the call pushed or one that follows it, and the
\* pull request is the one of that branch, whatever other calls, lost answers
\* and late requests did in between (GitHubPublisher.publish,
\* GitCodePublisher.publish).
PublishedIsReal ==
    \A c \in Calls : job = "publish" /\ At(c, "done") =>
        /\ repo = "fork" /\ registered
        /\ call[c].commit > 0 /\ branch >= call[c].commit
        /\ pull # "none" /\ call[c].found = "own"

\* Repeating the call after any failure leaves one comment, not two: a second
\* one takes a POST that was done after the list it relied on was overtaken,
\* by the comment of an overlapping call, by an earlier POST done late, or by a
\* deletion that moved comments to pages already read.
SecondCommentWasRaced ==
    Cardinality({i \in DOMAIN comments : comments[i].by # 0}) > 1
        => raced

\* When publish_pr_comment reports success, the pull request has a comment of the
\* account itself, and not just the copy of its marker by another user; that of
\* GitCodePublisher shows the text of this very call, in place of an earlier
\* review's, unless the comments changed under it.
CommentIsShown ==
    [][\A c \in Calls :
         job = "comment" /\ ~At(c, "done") /\ call'[c].pc = "done" =>
           \E i \in DOMAIN comments' :
              /\ comments'[i].by # 0
              /\ provider = "gitcode" /\ ~call[c].disturbed
                   => comments'[i].body = call[c].body]_vars

\* Every call ends, also when the fork never appears.
EveryCallEnds == \A c \in Calls : ~At(c, "idle") ~> call[c].pc \in {"done", "failed"}
=============================================================================
