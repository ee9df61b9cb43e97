---------------------------- MODULE Forge_proofs ----------------------------
(***************************************************************************)
(* Theorems about what passes between the service and a forge: ForgeCalls, *)
(* for any number of calls, commits, comments and deletions, any size of a *)
(* page and any number of polls; and IssueSync, in the second half, for    *)
(* any number of issues, changes and disturbances and any size of a page.  *)
(***************************************************************************)
EXTENDS ForgeCalls, IssueSync, FiniteSetTheorems, SequenceTheorems,
        WellFoundedInduction, NaturalsInduction, TLAPS

-----------------------------------------------------------------------------
(***************************************************************************)
(* The inductive invariant.                                                *)
(***************************************************************************)
PublishPlaces == {"idle", "user", "lookup", "fork", "poll", "source", "push", "find",
                  "open", "reconcile", "done", "failed"}
CommentPlaces == {"idle", "user", "list", "patch", "post", "relist", "done", "failed"}

\* A call is where its job takes it, and what is still to be done late was asked
\* for by a call that has posted.
PlaceKnown(c) ==
    /\ call[c].pc \in IF job = "publish" THEN PublishPlaces ELSE CommentPlaces
    /\ c \in late => call[c].pc \in {"reconcile", "relist", "done", "failed"}

\* What a publish has found or done by the time it is at its place; nobody takes
\* it back.
PublishTraced(c) ==
    job = "publish" =>
        /\ call[c].pc # "idle" => call[c].boot \/ registered
        /\ call[c].pc \in {"source", "push", "find", "open", "reconcile", "done"} =>
              repo = "fork" /\ registered
        /\ call[c].pc \in {"push", "find", "open", "reconcile", "done"} => call[c].commit > 0
        /\ call[c].pc \in {"find", "open", "reconcile", "done"} => branch >= call[c].commit
        /\ call[c].pc = "done" => pull # "none" /\ call[c].found = "own"

\* Places of our comments.
Ours(cs) == {i \in DOMAIN cs : cs[i].by # 0}

\* Unless the comments cs changed under its search, a call c in the state r knows
\* them: none of ours on the pages it has read, none at all when it posts or its
\* POST is still to be done, none but its own once it looks for it. The comment
\* it is going to rewrite is there in any case.
Searched(c, r, waits, cs) ==
    /\ r.pc \in {"idle", "user"} => r.page = 1
    /\ ~r.disturbed =>
          /\ r.pc = "list" => \A i \in Ours(cs) : i > (r.page - 1) * PER_PAGE
          /\ r.pc = "post" \/ waits => Ours(cs) = {}
          /\ r.pc = "relist" => \A i \in Ours(cs) : cs[i].by = c /\ cs[i].body = r.body
    /\ r.pc = "patch" => \E i \in Ours(cs) : cs[i].by = r.target

SearchTraced(c) == job = "comment" => Searched(c, call[c], c \in late, comments)

\* Our comments have the marker, and there is one unless a POST was overtaken.
OursKnown ==
    /\ \A i \in Ours(comments) : comments[i].marked
    /\ ~raced => \A i, j \in Ours(comments) : i = j

ForgeInv ==
    /\ TypeOK
    /\ head > 0
    /\ \A c \in Calls : PlaceKnown(c) /\ PublishTraced(c) /\ SearchTraced(c)
    /\ OursKnown
-----------------------------------------------------------------------------
(***************************************************************************)
(* The states of a call.                                                   *)
(***************************************************************************)
CallState == [pc : Pcs, boot : BOOLEAN, polls : 0 .. FORK_POLL_ATTEMPTS,
              commit : 0 .. MaxCommit, body : Bodies, page : Nat \ {0},
              target : 0 .. NCalls, found : {"none", "own"}, disturbed : BOOLEAN]

\* The calls after c has come to the state r.
Moved(c, r) == [call EXCEPT ![c] = r]

LEMMA MovedIs ==
    ASSUME call \in [Calls -> CallState], NEW c \in Calls, NEW r \in CallState
    PROVE  /\ Moved(c, r) \in [Calls -> CallState]
           /\ Moved(c, r)[c] = r
           /\ \A d \in Calls \ {c} : Moved(c, r)[d] = call[d]
  BY DEF Moved

LEMMA GoIs ==
    ASSUME call \in [Calls -> CallState], NEW c \in Calls, NEW pc \in Pcs
    PROVE  /\ Go(c, pc) = Moved(c, [call[c] EXCEPT !.pc = pc])
           /\ [call[c] EXCEPT !.pc = pc] \in CallState
           /\ Go(c, pc) \in [Calls -> CallState]
  <1>1. [call[c] EXCEPT !.pc = pc] \in CallState
    BY DEF CallState
  <1>2. Go(c, pc) = Moved(c, [call[c] EXCEPT !.pc = pc])
    BY DEF Go, Moved
  <1>3. Moved(c, [call[c] EXCEPT !.pc = pc]) \in [Calls -> CallState]
    BY <1>1, MovedIs
  <1> QED  BY <1>1, <1>2, <1>3, Zenon

\* A change of the comments leaves the calls where they are, and is noticed by
\* those it overtakes.
LEMMA OvertakeIs ==
    ASSUME NEW calls \in [Calls -> CallState], NEW ds
    PROVE  /\ Overtake(calls, ds) \in [Calls -> CallState]
           /\ \A d \in Calls :
                 /\ Overtake(calls, ds)[d].pc = calls[d].pc
                 /\ Overtake(calls, ds)[d].boot = calls[d].boot
                 /\ Overtake(calls, ds)[d].commit = calls[d].commit
                 /\ Overtake(calls, ds)[d].body = calls[d].body
                 /\ Overtake(calls, ds)[d].page = calls[d].page
                 /\ Overtake(calls, ds)[d].target = calls[d].target
                 /\ Overtake(calls, ds)[d].found = calls[d].found
                 /\ ~Overtake(calls, ds)[d].disturbed =>
                       ~calls[d].disturbed /\ ~(d \in ds /\ Listing(d))
  <1> DEFINE v(d) == calls[d].disturbed \/ (d \in ds /\ Listing(d))
             o == Overtake(calls, ds)
  <1>1. o = [d \in Calls |-> [calls[d] EXCEPT !.disturbed = v(d)]]
    BY DEF Overtake
  <1>2. \A d \in Calls : v(d) \in BOOLEAN
    OBVIOUS
  <1>3. ASSUME NEW d \in Calls
        PROVE  ~v(d) => ~calls[d].disturbed /\ ~(d \in ds /\ Listing(d))
    OBVIOUS
  <1> HIDE DEF v, o
  <1>4. ASSUME NEW d \in Calls
        PROVE  /\ o[d] = [calls[d] EXCEPT !.disturbed = v(d)]
               /\ o[d] \in CallState
               /\ o[d].disturbed = v(d)
               /\ o[d].pc = calls[d].pc /\ o[d].body = calls[d].body
               /\ o[d].page = calls[d].page /\ o[d].target = calls[d].target
               /\ o[d].boot = calls[d].boot /\ o[d].commit = calls[d].commit
               /\ o[d].found = calls[d].found
    <2>1. o[d] = [calls[d] EXCEPT !.disturbed = v(d)]
      BY <1>1
    <2>2. calls[d] \in CallState
      OBVIOUS
    <2> QED  BY <2>1, <2>2, <1>2 DEF CallState
  <1>5. o \in [Calls -> CallState]
    BY <1>1, <1>4
  <1>6. \A d \in Calls : ~o[d].disturbed => ~calls[d].disturbed /\ ~(d \in ds /\ Listing(d))
    BY <1>3, <1>4, Zenon
  <1> QED  BY <1>4, <1>5, <1>6 DEF o

-----------------------------------------------------------------------------
(***************************************************************************)
(* Types.                                                                  *)
(***************************************************************************)
LEMMA TypesInitially ==
    Init => TypeOK
  <1> SUFFICES ASSUME Init PROVE TypeOK
    OBVIOUS
  <1> USE ForgeAssumption
  <1>1. call \in [Calls -> CallState]
    BY DEF Init, IdleCall, CallState, Pcs, Bodies
  <1>2. comments \in Seq(Comment)
    <2>1. \A m \in BOOLEAN : Stranger(m) \in Comment
      BY DEF Stranger, Comment, Bodies
    <2>2. \A n \in Nat : [1 .. n -> {Stranger(m) : m \in BOOLEAN}] \subseteq Seq(Comment)
      BY <2>1
    <2>3. <<>> \in Seq(Comment)
      OBVIOUS
    <2>4. \A n \in 0 .. PER_PAGE : n \in Nat
      OBVIOUS
    <2> QED  BY <2>2, <2>3, <2>4, Zenon DEF Init
  <1>3. registered \in BOOLEAN /\ raced \in BOOLEAN
    BY Zenon DEF Init
  <1>4. /\ provider \in {"github", "gitcode"} /\ job \in {"publish", "comment"}
        /\ repo \in {"absent", "pending", "fork", "stranger"}
        /\ head \in 0 .. MaxCommit /\ branch \in 0 .. MaxCommit
        /\ pull \in {"none", "open", "closed"}
        /\ late \subseteq Calls /\ deleted \in 0 .. MaxDeleted
    BY DEF Init
  <1> QED  BY <1>1, <1>2, <1>3, <1>4 DEF TypeOK, CallState

LEMMA Posted ==
    ASSUME TypeOK, NEW c \in Calls
    PROVE  /\ OwnComment(c) \in Comment
           /\ OwnComment(c).by = c /\ OwnComment(c).by # 0
           /\ OwnComment(c).marked
           /\ OwnComment(c).body = call[c].body
  BY ForgeAssumption, PageAssumption DEF TypeOK, OwnComment, Comment, Calls

\* Where the answer of a POST may leave the call.
LEMMA PostLeads ==
    ASSUME NEW a \in Answers, NEW good, NEW again
    PROVE  /\ AfterPost(a.answer, good, again) \in {good, again, "failed"}
           /\ AfterPost(a.answer, good, again) = good =>
                 a.answer = "ok" \/ good \in {again, "failed"}
           /\ a.answer = "ok" => a.effect = "now"
           /\ a.effect = "later" => a.answer = "lost"
           /\ a.answer \in {"ok", "garbled", "odd", "conflict", "refused", "lost"}
           /\ a.effect \in {"now", "later", "never"}
  BY DEF AfterPost, Answers
-----------------------------------------------------------------------------
(***************************************************************************)
(* What each operation makes of its call; the other calls stay as they are *)
(* or, when it changes the comments, are overtaken.                        *)
(***************************************************************************)
Steps(c) ==
    /\ call' \in [Calls -> CallState]
    /\ \A d \in Calls \ {c} : call'[d] = call[d]

LEMMA CallTypes ==
    TypeOK => call \in [Calls -> CallState]
  BY DEF TypeOK, CallState

LEMMA WhenMoved ==
    ASSUME TypeOK, NEW c \in Calls, NEW r \in CallState, call' = Moved(c, r)
    PROVE  Steps(c) /\ call'[c] = r
  BY CallTypes, MovedIs DEF Steps

LEMMA WhenGone ==
    ASSUME TypeOK, NEW c \in Calls, NEW pc \in Pcs, call' = Go(c, pc)
    PROVE  /\ Steps(c)
           /\ call'[c] = [call[c] EXCEPT !.pc = pc]
           /\ call'[c].pc = pc
           /\ call'[c].boot = call[c].boot
           /\ call'[c].commit = call[c].commit
           /\ call'[c].body = call[c].body
           /\ call'[c].page = call[c].page
           /\ call'[c].found = call[c].found
           /\ call'[c].target = call[c].target
           /\ call'[c].disturbed = call[c].disturbed
  <1>1. call \in [Calls -> CallState]
    BY CallTypes
  <1>2. Steps(c) /\ call'[c] = [call[c] EXCEPT !.pc = pc]
    BY <1>1, GoIs, WhenMoved
  <1>3. call[c] \in CallState
    BY <1>1
  <1> QED  BY <1>2, <1>3 DEF CallState

LEMMA StartPublishIs ==
    ASSUME TypeOK, NEW c \in Calls, StartPublish(c)
    PROVE  /\ Steps(c)
           /\ call'[c].pc = "user"
           /\ call'[c].boot \/ registered
  <1> DEFINE b == ~registered
             r == [call[c] EXCEPT !.pc = "user", !.boot = b]
  <1>1. b \in BOOLEAN /\ (b \/ registered)
    OBVIOUS
  <1>2. call \in [Calls -> CallState]
    BY CallTypes
  <1> HIDE DEF b
  <1>3. call' = Moved(c, r)
    <2>1. call' = [call EXCEPT ![c].pc = "user", ![c].boot = b]
      BY DEF StartPublish, b
    <2> QED  BY <2>1, <1>2 DEF Moved
  <1>4. r \in CallState /\ r.pc = "user" /\ r.boot = b
    BY <1>1, <1>2 DEF CallState, Pcs
  <1> HIDE DEF r
  <1>5. Steps(c) /\ call'[c] = r
    BY <1>3, <1>4, WhenMoved
  <1> QED  BY <1>1, <1>4, <1>5, Zenon

LEMMA ForkFoundIs ==
    ASSUME TypeOK, NEW c \in Calls, ForkFound(c)
    PROVE  /\ Steps(c)
           /\ \/ call'[c].pc = "failed" /\ registered' = registered
              \/ call'[c].pc = "user" /\ repo = "fork" /\ registered' = TRUE
              \/ /\ call'[c].pc = "source" /\ repo = "fork" /\ ~call[c].boot
                 /\ registered' = registered
           /\ call'[c].boot = call[c].boot \/ registered' = TRUE
  <1> USE DEF ForkFound, ExpectedFork
  <1>1. CASE repo # "fork"
    <2>1. call' = Go(c, "failed") /\ registered' = registered
      BY <1>1
    <2> QED  BY <2>1, WhenGone DEF Pcs
  <1>2. CASE repo = "fork" /\ call[c].boot
    <2> DEFINE r == [call[c] EXCEPT !.pc = "user", !.boot = FALSE]
    <2>1. call \in [Calls -> CallState]
      BY CallTypes
    <2>2. call' = Moved(c, r) /\ registered' = TRUE
      BY <1>2, <2>1 DEF Moved
    <2>3. r \in CallState /\ r.pc = "user"
      BY <2>1, ZenonT(40) DEF CallState, Pcs
    <2> HIDE DEF r
    <2>4. Steps(c) /\ call'[c] = r
      BY <2>2, <2>3, WhenMoved
    <2> QED  BY <1>2, <2>2, <2>3, <2>4
  <1>3. CASE repo = "fork" /\ ~call[c].boot
    <2>1. call' = Go(c, "source") /\ registered' = registered
      BY <1>3
    <2> QED  BY <1>3, <2>1, WhenGone DEF Pcs
  <1> QED  BY <1>1, <1>2, <1>3

LEMMA CreateForkIs ==
    ASSUME TypeOK, NEW c \in Calls, CreateFork(c)
    PROVE  /\ Steps(c)
           /\ call'[c].pc \in {"poll", "failed"}
           /\ call'[c].boot = call[c].boot
           /\ repo' = repo \/ (repo = "absent" /\ repo' = "pending")
  <1> PICK a \in Answers :
        /\ call' = [call EXCEPT ![c].polls = 0,
             ![c].pc = IF a.answer \in {"garbled", "odd"} THEN "poll"
                       ELSE AfterPost(a.answer, "poll", "poll")]
        /\ repo' = IF repo = "absent" /\ a.effect # "never" THEN "pending" ELSE repo
    BY DEF CreateFork
  <1> DEFINE p == IF a.answer \in {"garbled", "odd"} THEN "poll"
                  ELSE AfterPost(a.answer, "poll", "poll")
             r == [call[c] EXCEPT !.polls = 0, !.pc = p]
  <1>1. p \in {"poll", "failed"}
    BY PostLeads
  <1>2. call \in [Calls -> CallState]
    BY CallTypes
  <1> HIDE DEF p
  <1>3. call' = Moved(c, r)
    <2>1. call' = [call EXCEPT ![c].polls = 0, ![c].pc = p]
      BY DEF p
    <2> QED  BY <2>1, <1>2 DEF Moved
  <1>4. r \in CallState /\ r.pc = p /\ r.boot = call[c].boot
    <2>1. 0 \in 0 .. FORK_POLL_ATTEMPTS
      BY ForgeAssumption
    <2>2. p \in Pcs
      BY <1>1 DEF Pcs
    <2>3. call[c] \in CallState
      BY <1>2
    <2> QED  BY <2>1, <2>2, <2>3 DEF CallState
  <1> HIDE DEF r
  <1>5. Steps(c) /\ call'[c] = r
    BY <1>3, <1>4, WhenMoved
  <1> QED  BY <1>1, <1>4, <1>5

LEMMA PollForkIs ==
    ASSUME TypeOK, NEW c \in Calls, PollFork(c)
    PROVE  \/ ForkFound(c)
           \/ /\ Steps(c) /\ registered' = registered
              /\ call'[c].pc \in {"poll", "failed"} /\ call'[c].boot = call[c].boot
  <1>1. CASE ForkFound(c)
    BY <1>1
  <1>2. CASE /\ call[c].polls < FORK_POLL_ATTEMPTS
             /\ call' = [call EXCEPT ![c].polls = @ + 1]
             /\ UNCHANGED registered
    <2> DEFINE n == call[c].polls + 1
               r == [call[c] EXCEPT !.polls = n]
    <2>1. call \in [Calls -> CallState]
      BY CallTypes
    <2>2. n \in 0 .. FORK_POLL_ATTEMPTS
      BY <1>2, <2>1, ForgeAssumption DEF CallState
    <2>3. call' = [call EXCEPT ![c].polls = n]
      BY <1>2
    <2> HIDE DEF n
    <2>4. call' = Moved(c, r)
      BY <2>1, <2>3 DEF Moved
    <2>5. r \in CallState /\ r.pc = call[c].pc /\ r.boot = call[c].boot
      BY <2>1, <2>2 DEF CallState
    <2> HIDE DEF r
    <2>6. Steps(c) /\ call'[c] = r
      BY <2>4, <2>5, WhenMoved
    <2> QED  BY <1>2, <2>5, <2>6 DEF PollFork, At
  <1>3. CASE call' = Go(c, "failed") /\ UNCHANGED registered
    BY <1>3, WhenGone DEF Pcs
  <1> QED  BY <1>1, <1>2, <1>3 DEF PollFork

LEMMA ResolveSourceIs ==
    ASSUME TypeOK, NEW c \in Calls, ResolveSource(c)
    PROVE  /\ Steps(c)
           /\ call'[c].pc = "push" /\ call'[c].commit = head
           /\ call'[c].boot = call[c].boot
  <1> DEFINE r == [call[c] EXCEPT !.pc = "push", !.commit = head]
  <1>1. call \in [Calls -> CallState]
    BY CallTypes
  <1>2. call' = Moved(c, r)
    BY <1>1 DEF ResolveSource, Moved
  <1>3. r \in CallState /\ r.pc = "push" /\ r.commit = head /\ r.boot = call[c].boot
    BY <1>1, ZenonT(40) DEF TypeOK, CallState, Pcs
  <1> HIDE DEF r
  <1>4. Steps(c) /\ call'[c] = r
    BY <1>2, <1>3, WhenMoved
  <1> QED  BY <1>3, <1>4

\* What is found is from the fork: the pull request of the branch, if there is one.
LEMMA FoundPullIs ==
    \/ FoundPull = "own" /\ pull # "none"
    \/ FoundPull = "none" /\ pull = "none"
  <1>1. \A p \in ListedPulls : FromFork(p) <=> p = "own"
    BY DEF FromFork
  <1>2. "own" \in ListedPulls <=> pull # "none"
    BY DEF ListedPulls
  <1> QED  BY <1>1, <1>2 DEF FoundPull

\* The end of the search for the pull request.
LEMMA PullSought ==
    ASSUME TypeOK, NEW c \in Calls, NEW missing \in Pcs,
           call' = [call EXCEPT ![c].found = FoundPull,
                                ![c].pc = IF FoundPull = "none" THEN missing ELSE "done"]
    PROVE  /\ Steps(c)
           /\ \/ call'[c].pc = missing
              \/ call'[c].pc = "done" /\ pull # "none" /\ call'[c].found = "own"
           /\ call'[c].commit = call[c].commit /\ call'[c].boot = call[c].boot
  <1> DEFINE f == FoundPull
             p == IF FoundPull = "none" THEN missing ELSE "done"
             r == [call[c] EXCEPT !.found = f, !.pc = p]
  <1>1. call \in [Calls -> CallState]
    BY CallTypes
  <1>2. /\ f \in {"none", "own"} /\ p \in Pcs
        /\ p = missing \/ (p = "done" /\ pull # "none" /\ f = "own")
    BY FoundPullIs DEF Pcs
  <1> HIDE DEF f, p
  <1>3. call' = Moved(c, r)
    <2>1. call' = [call EXCEPT ![c].found = f, ![c].pc = p]
      BY DEF f, p
    <2> QED  BY <2>1, <1>1 DEF Moved
  <1>4. /\ r \in CallState /\ r.pc = p /\ r.found = f
        /\ r.commit = call[c].commit /\ r.boot = call[c].boot
    BY <1>1, <1>2 DEF CallState
  <1> HIDE DEF r
  <1>5. Steps(c) /\ call'[c] = r
    BY <1>3, <1>4, WhenMoved
  <1> QED  BY <1>2, <1>4, <1>5

\* The calls after the answer a to a POST of c.
Answered(c, a, again) ==
    [call EXCEPT ![c].pc = AfterPost(a.answer, "done", again),
                 ![c].found = IF a.answer = "ok" THEN "own" ELSE @]

LEMMA PostMoves ==
    ASSUME TypeOK, NEW c \in Calls, NEW a \in Answers, NEW again \in {"reconcile", "relist"}
    PROVE  LET calls == Answered(c, a, again) IN
           /\ calls \in [Calls -> CallState]
           /\ \A d \in Calls \ {c} : calls[d] = call[d]
           /\ calls[c].pc \in {"done", again, "failed"}
           /\ calls[c].pc = "done" => a.answer = "ok" /\ calls[c].found = "own"
           /\ calls[c].commit = call[c].commit /\ calls[c].boot = call[c].boot
           /\ calls[c].body = call[c].body /\ calls[c].disturbed = call[c].disturbed
  <1> DEFINE calls == Answered(c, a, again)
             f == IF a.answer = "ok" THEN "own" ELSE call[c].found
             p == AfterPost(a.answer, "done", again)
             r == [call[c] EXCEPT !.pc = p, !.found = f]
  <1>1. call \in [Calls -> CallState]
    BY CallTypes
  <1>2. /\ p \in {"done", again, "failed"} /\ p \in Pcs
        /\ p = "done" => a.answer = "ok" /\ f = "own"
    BY PostLeads DEF Pcs
  <1>3. f \in {"none", "own"}
    BY <1>1 DEF CallState
  <1> HIDE DEF f, p, calls
  <1>4. calls = Moved(c, r)
    <2>1. calls = [call EXCEPT ![c].pc = p, ![c].found = f]
      BY <1>1 DEF f, p, calls, Answered
    <2> QED  BY <2>1, <1>1 DEF Moved
  <1>5. /\ r \in CallState /\ r.pc = p /\ r.found = f
        /\ r.commit = call[c].commit /\ r.boot = call[c].boot
        /\ r.body = call[c].body /\ r.disturbed = call[c].disturbed
    BY <1>1, <1>2, <1>3 DEF CallState
  <1> HIDE DEF r
  <1>6. /\ calls \in [Calls -> CallState] /\ calls[c] = r
        /\ \A d \in Calls \ {c} : calls[d] = call[d]
    <2>1. /\ Moved(c, r) \in [Calls -> CallState] /\ Moved(c, r)[c] = r
          /\ \A d \in Calls \ {c} : Moved(c, r)[d] = call[d]
      BY <1>1, <1>5, MovedIs
    <2> QED  BY <1>4, <2>1, Zenon
  <1> QED  BY <1>2, <1>5, <1>6 DEF calls
-----------------------------------------------------------------------------
(***************************************************************************)
(* Comments and pages.                                                     *)
(***************************************************************************)
LEMMA Added ==
    ASSUME NEW cs \in Seq(Comment), NEW m \in Comment, NEW new, new = Append(cs, m)
    PROVE  /\ new \in Seq(Comment)
           /\ Len(cs) \in Nat
           /\ DOMAIN cs = 1 .. Len(cs) /\ DOMAIN new = 1 .. Len(cs) + 1
           /\ \A i \in DOMAIN cs : i \in DOMAIN new /\ new[i] = cs[i]
           /\ new[Len(cs) + 1] = m
  BY AppendProperties

\* A comment of another user leaves ours where they are.
LEMMA AddedByAnother ==
    ASSUME NEW cs \in Seq(Comment), NEW m \in Comment, m.by = 0
    PROVE  /\ Append(cs, m) \in Seq(Comment)
           /\ Ours(Append(cs, m)) = Ours(cs)
           /\ \A i \in Ours(cs) : Append(cs, m)[i] = cs[i]
  <1> DEFINE new == Append(cs, m)
  <1>1. /\ new \in Seq(Comment)
        /\ Len(cs) \in Nat
        /\ DOMAIN cs = 1 .. Len(cs) /\ DOMAIN new = 1 .. Len(cs) + 1
        /\ \A i \in DOMAIN cs : i \in DOMAIN new /\ new[i] = cs[i]
        /\ new[Len(cs) + 1] = m
    BY Added
  <1> HIDE DEF new
  <1>2. \A i \in DOMAIN new : i \in DOMAIN cs \/ i = Len(cs) + 1
    BY <1>1
  <1>3. Ours(new) = Ours(cs)
    BY <1>1, <1>2 DEF Ours
  <1>4. \A i \in Ours(cs) : new[i] = cs[i]
    BY <1>1 DEF Ours
  <1> QED  BY <1>1, <1>3, <1>4 DEF new

\* A comment of ours joins those there are.
LEMMA AddedByUs ==
    ASSUME NEW cs \in Seq(Comment), NEW m \in Comment, m.by # 0
    PROVE  /\ Append(cs, m) \in Seq(Comment)
           /\ Len(cs) + 1 \in Ours(Append(cs, m))
           /\ Append(cs, m)[Len(cs) + 1] = m
           /\ \A i \in Ours(Append(cs, m)) : i \in Ours(cs) \/ i = Len(cs) + 1
           /\ \A i \in Ours(cs) : i \in Ours(Append(cs, m)) /\ Append(cs, m)[i] = cs[i]
  <1> DEFINE new == Append(cs, m)
  <1>1. /\ new \in Seq(Comment)
        /\ Len(cs) \in Nat
        /\ DOMAIN cs = 1 .. Len(cs) /\ DOMAIN new = 1 .. Len(cs) + 1
        /\ \A i \in DOMAIN cs : i \in DOMAIN new /\ new[i] = cs[i]
        /\ new[Len(cs) + 1] = m
    BY Added
  <1> HIDE DEF new
  <1>2. \A i \in DOMAIN new : i \in DOMAIN cs \/ i = Len(cs) + 1
    BY <1>1
  <1>3. Len(cs) + 1 \in DOMAIN new
    BY <1>1
  <1>4. \A i \in Ours(new) : i \in Ours(cs) \/ i = Len(cs) + 1
    BY <1>1, <1>2 DEF Ours
  <1>5. \A i \in Ours(cs) : i \in Ours(new) /\ new[i] = cs[i]
    BY <1>1 DEF Ours
  <1> QED  BY <1>1, <1>3, <1>4, <1>5 DEF new, Ours

\* The comments without that at k, and where the one at j was before.
Without(cs, k) == SubSeq(cs, 1, k - 1) \o SubSeq(cs, k + 1, Len(cs))
Before(j, k) == IF j < k THEN j ELSE j + 1

LEMMA Deleted ==
    ASSUME NEW cs \in Seq(Comment), NEW k \in DOMAIN cs, NEW new,
           new = Without(cs, k)
    PROVE  /\ new \in Seq(Comment)
           /\ \A j \in DOMAIN new :
                 Before(j, k) \in DOMAIN cs /\ new[j] = cs[Before(j, k)]
           /\ \A i \in DOMAIN cs \ {k} :
                 \E j \in DOMAIN new : Before(j, k) = i /\ new[j] = cs[i]
  <1>1. Len(cs) \in Nat /\ DOMAIN cs = 1 .. Len(cs) /\ k \in 1 .. Len(cs)
    OBVIOUS
  <1> DEFINE s == SubSeq(cs, 1, k - 1)
             t == SubSeq(cs, k + 1, Len(cs))
  <1>2. /\ s \in Seq(Comment) /\ Len(s) = k - 1
        /\ \A j \in 1 .. k - 1 : s[j] = cs[j]
    <2>1. \A j \in 1 .. k - 1 : j \in 1 .. Len(cs)
      BY <1>1
    <2>2. 1 \in 1 .. Len(cs) + 1 /\ k - 1 \in 0 .. Len(cs)
      BY <1>1
    <2> QED  BY <1>1, <2>1, <2>2, SubSeqProperties
  <1>3. /\ t \in Seq(Comment) /\ Len(t) = Len(cs) - k
        /\ \A j \in 1 .. Len(cs) - k : t[j] = cs[j + k]
    <2>1. \A j \in k + 1 .. Len(cs) : cs[j] \in Comment
      BY <1>1
    <2>2. k + 1 \in Int /\ Len(cs) \in Int
      BY <1>1
    <2>3. /\ t \in Seq(Comment)
          /\ Len(t) = IF k + 1 <= Len(cs) THEN Len(cs) - (k + 1) + 1 ELSE 0
          /\ \A j \in 1 .. Len(cs) - (k + 1) + 1 : t[j] = cs[k + 1 + j - 1]
      BY <2>1, <2>2, SubSeqProperties
    <2>4. Len(t) = Len(cs) - k /\ Len(cs) - (k + 1) + 1 = Len(cs) - k
      BY <1>1, <2>3
    <2>5. \A j \in 1 .. Len(cs) - k : k + 1 + j - 1 = j + k
      BY <1>1
    <2> QED  BY <2>3, <2>4, <2>5
  <1>4. new = s \o t
    BY DEF Without
  <1> HIDE DEF s, t
  <1>5. /\ new \in Seq(Comment) /\ Len(new) = Len(cs) - 1
        /\ \A j \in 1 .. Len(cs) - 1 :
              new[j] = IF j <= k - 1 THEN s[j] ELSE t[j - (k - 1)]
    <2>1. /\ s \o t \in Seq(Comment)
          /\ Len(s \o t) = Len(s) + Len(t)
          /\ \A j \in 1 .. Len(s) + Len(t) :
                (s \o t)[j] = IF j <= Len(s) THEN s[j] ELSE t[j - Len(s)]
      BY <1>2, <1>3, ConcatProperties
    <2>2. Len(s) + Len(t) = Len(cs) - 1
      BY <1>1, <1>2, <1>3
    <2> QED  BY <1>2, <1>4, <2>1, <2>2
  <1>6. DOMAIN new = 1 .. Len(cs) - 1
    BY <1>5
  <1>7. ASSUME NEW j \in DOMAIN new
        PROVE  Before(j, k) \in DOMAIN cs /\ new[j] = cs[Before(j, k)]
    <2>1. CASE j < k
      BY <1>1, <1>2, <1>5, <1>6, <2>1 DEF Before
    <2>2. CASE ~(j < k)
      <3>1. j - (k - 1) \in 1 .. Len(cs) - k
        BY <1>1, <1>6, <2>2
      <3>2. t[j - (k - 1)] = cs[j - (k - 1) + k]
        BY <1>3, <3>1
      <3>3. j - (k - 1) + k = j + 1
        BY <1>1, <1>6
      <3>4. j \in 1 .. Len(cs) - 1 /\ ~(j <= k - 1) /\ j + 1 \in 1 .. Len(cs)
        BY <1>1, <1>6, <2>2
      <3>5. new[j] = t[j - (k - 1)]
        BY <1>5, <3>4
      <3>6. Before(j, k) = j + 1
        BY <2>2 DEF Before
      <3> QED  BY <1>1, <3>2, <3>3, <3>4, <3>5, <3>6
    <2> QED  BY <2>1, <2>2
  <1>8. ASSUME NEW i \in DOMAIN cs \ {k}
        PROVE  \E j \in DOMAIN new : Before(j, k) = i /\ new[j] = cs[i]
    <2> DEFINE j == IF i < k THEN i ELSE i - 1
    <2>1. j \in DOMAIN new /\ Before(j, k) = i
      BY <1>1, <1>6 DEF Before
    <2> QED  BY <1>7, <2>1
  <1> QED  BY <1>5, <1>7, <1>8

\* The deletion of a comment that is not ours leaves ours, in their order.
LEMMA DeletedByAnother ==
    ASSUME NEW cs \in Seq(Comment), NEW k \in DOMAIN cs, cs[k].by = 0, NEW new,
           new = Without(cs, k)
    PROVE  /\ new \in Seq(Comment)
           /\ \A j \in Ours(new) :
                 Before(j, k) \in Ours(cs) /\ new[j] = cs[Before(j, k)]
           /\ \A i \in Ours(cs) : \E j \in Ours(new) : new[j] = cs[i]
           /\ \A i, j \in DOMAIN new : Before(i, k) = Before(j, k) => i = j
  <1>1. /\ new \in Seq(Comment)
        /\ \A j \in DOMAIN new :
              Before(j, k) \in DOMAIN cs /\ new[j] = cs[Before(j, k)]
        /\ \A i \in DOMAIN cs \ {k} :
              \E j \in DOMAIN new : Before(j, k) = i /\ new[j] = cs[i]
    BY Deleted
  <1>2. k \in Nat /\ DOMAIN new \subseteq Nat
    BY <1>1
  <1>3. \A i, j \in DOMAIN new : Before(i, k) = Before(j, k) => i = j
    BY <1>2 DEF Before
  <1>4. \A j \in Ours(new) : Before(j, k) \in Ours(cs) /\ new[j] = cs[Before(j, k)]
    BY <1>1 DEF Ours
  <1>5. ASSUME NEW i \in Ours(cs) PROVE \E j \in Ours(new) : new[j] = cs[i]
    <2>1. i \in DOMAIN cs \ {k} /\ cs[i].by # 0
      BY DEF Ours
    <2>2. PICK j \in DOMAIN new : new[j] = cs[i]
      BY <1>1, <2>1
    <2> QED  BY <2>1, <2>2 DEF Ours
  <1> QED  BY <1>1, <1>3, <1>4, <1>5

\* A page that is not full is the last one.
LEMMA LastCommentPage ==
    ASSUME comments \in Seq(Comment), NEW n \in Nat \ {0}, ~MorePages(n),
           NEW i \in DOMAIN comments
    PROVE  i <= n * PER_PAGE
  <1> SUFFICES ASSUME ~(i <= n * PER_PAGE) PROVE FALSE
    OBVIOUS
  <1> DEFINE a == (n - 1) * PER_PAGE
             b == n * PER_PAGE
  <1>1. PER_PAGE \in Nat \ {0}
    BY PageAssumption
  <1>2. a \in Nat /\ b \in Nat /\ b = a + PER_PAGE
    BY <1>1
  <1>3. Len(comments) \in Nat /\ DOMAIN comments = 1 .. Len(comments)
    OBVIOUS
  <1>4. PageOf(n) = {j \in DOMAIN comments : j > a /\ j <= b}
    BY DEF PageOf
  <1>5. i \in Nat /\ i > b /\ i <= Len(comments)
    BY <1>2, <1>3
  <1> HIDE DEF a, b
  <1>6. PageOf(n) = a + 1 .. b
    BY <1>2, <1>3, <1>4, <1>5
  <1>7. Cardinality(a + 1 .. b) = PER_PAGE
    <2>1. Cardinality(a + 1 .. b) = IF a + 1 > b THEN 0 ELSE b - (a + 1) + 1
      <3>1. a + 1 \in Int /\ b \in Int
        BY <1>2
      <3> HIDE DEF a, b
      <3> DEFINE e == a + 1
      <3>2. e \in Int
        BY <3>1
      <3> HIDE DEF e
      <3>3. Cardinality(e .. b) = IF e > b THEN 0 ELSE b - e + 1
        BY <3>1, <3>2, FS_Interval
      <3> QED  BY <3>3 DEF e
    <2> QED  BY <2>1, <1>1, <1>2
  <1> QED  BY <1>6, <1>7 DEF MorePages

\* Every page but the last one is followed by the next one.
LEMMA PageIs ==
    ASSUME comments \in Seq(Comment), NEW n \in Nat \ {0}, NEW i \in DOMAIN comments
    PROVE  /\ i \in Nat /\ (n - 1) * PER_PAGE \in Nat /\ n * PER_PAGE \in Nat
           /\ (n + 1 - 1) * PER_PAGE = n * PER_PAGE
           /\ i > (n - 1) * PER_PAGE /\ i <= n * PER_PAGE => i \in PageOf(n)
  <1>1. PER_PAGE \in Nat
    BY PageAssumption
  <1>2. (n - 1) * PER_PAGE \in Nat /\ n * PER_PAGE \in Nat /\ n + 1 - 1 = n
    BY <1>1
  <1> QED  BY <1>2 DEF PageOf

\* A set of places has a first one.
LEMMA FirstIs ==
    ASSUME comments \in Seq(Comment), NEW S, S \subseteq DOMAIN comments, S # {}
    PROVE  (CHOOSE i \in S : \A j \in S : i <= j) \in S
  <1> DEFINE R == {ij \in Nat \X Nat : ij[1] < ij[2]}
  <1>1. S \subseteq Nat
    OBVIOUS
  <1>2. IsWellFoundedOn(R, Nat)
    BY NatLessThanWellFounded DEF OpToRel
  <1>3. \A i, j \in Nat : i < j => <<i, j>> \in R
    OBVIOUS
  <1> HIDE DEF R
  <1>4. PICK i \in S : \A j \in S : ~(<<j, i>> \in R)
    BY <1>1, <1>2, WFMin
  <1>5. \A j \in S : ~(j < i) /\ i \in Nat /\ j \in Nat
    BY <1>1, <1>3, <1>4
  <1>6. \A j \in S : i <= j
    BY <1>5
  <1> QED  BY <1>6
-----------------------------------------------------------------------------
(***************************************************************************)
(* What the operations of publish_pr_comment make of their call.           *)
(***************************************************************************)
LEMMA StartCommentIs ==
    ASSUME TypeOK, NEW c \in Calls, StartComment(c)
    PROVE  /\ Steps(c)
           /\ call'[c].pc \in {"user", "list"}
           /\ call'[c].page = call[c].page
  <1> PICK b \in Bodies :
        call' = [call EXCEPT ![c].pc = IF provider = "github" THEN "user" ELSE "list",
                             ![c].body = b]
    BY DEF StartComment
  <1> DEFINE p == IF provider = "github" THEN "user" ELSE "list"
             r == [call[c] EXCEPT !.pc = p, !.body = b]
  <1>1. call \in [Calls -> CallState]
    BY CallTypes
  <1>2. p \in {"user", "list"} /\ p \in Pcs
    BY DEF Pcs
  <1> HIDE DEF p
  <1>3. call' = Moved(c, r)
    <2>1. call' = [call EXCEPT ![c].pc = p, ![c].body = b]
      BY DEF p
    <2> QED  BY <2>1, <1>1 DEF Moved
  <1>4. r \in CallState /\ r.pc = p /\ r.page = call[c].page
    BY <1>1, <1>2 DEF CallState
  <1> HIDE DEF r
  <1>5. Steps(c) /\ call'[c] = r
    BY <1>3, <1>4, WhenMoved
  <1> QED  BY <1>2, <1>4, <1>5

\* One page of the search: it ends with a comment of ours, goes on, or ends after
\* the last page.
LEMMA ListPageIs ==
    ASSUME TypeOK, OursKnown, NEW c \in Calls, NEW list, NEW missing \in Pcs,
           ListPage(c, list, missing)
    PROVE  /\ Steps(c)
           /\ call'[c].disturbed = call[c].disturbed
           /\ call'[c].body = call[c].body
           /\ \/ \E k \in Ours(comments) :
                   /\ call'[c].pc = OnFound(c, comments[k])
                   /\ call'[c].target = comments[k].by
              \/ /\ \A i \in Ours(comments) : i \notin PageOf(call[c].page)
                 /\ call'[c].pc = call[c].pc
                 /\ call'[c].page = call[c].page + 1
              \/ /\ \A i \in Ours(comments) : i \notin PageOf(call[c].page)
                 /\ ~MorePages(call[c].page)
                 /\ call'[c].pc = missing
  <1> DEFINE n == call[c].page
             ours == {i \in PageOf(n) : IsOurs(comments[i])}
             first == CHOOSE i \in ours : \A j \in ours : i <= j
  <1>1. call \in [Calls -> CallState] /\ call[c] \in CallState
    BY CallTypes
  <1>2. /\ n \in Nat \ {0} /\ n + 1 \in Nat \ {0} /\ 1 \in Nat \ {0}
        /\ comments \in Seq(Comment)
    BY <1>1 DEF TypeOK, CallState
  <1>3. PageOf(n) \subseteq DOMAIN comments
    BY DEF PageOf
  <1>4. ours = {i \in Ours(comments) : i \in PageOf(n)}
    BY <1>3 DEF IsOurs, Ours, OursKnown
  <1>5. CASE ours # {}
    <2> DEFINE m == comments[first]
               p == OnFound(c, m)
               r == [call[c] EXCEPT !.target = m.by, !.pc = p, !.found = "own", !.page = 1]
    <2>1. first \in ours
      <3>1. ours \subseteq DOMAIN comments
        BY <1>3
      <3> HIDE DEF ours
      <3> QED  BY <1>2, <1>5, <3>1, FirstIs
    <2>2. first \in Ours(comments) /\ m.by \in 0 .. NCalls
      <3>1. first \in Ours(comments)
        BY <2>1, <1>4
      <3>2. m \in Comment
        BY <3>1, <1>2 DEF Ours
      <3> QED  BY <3>1, <3>2 DEF Comment
    <2>3. p \in Pcs
      BY DEF OnFound, Pcs
    <2>4. call' = [call EXCEPT ![c].target = m.by, ![c].pc = p,
                               ![c].found = "own", ![c].page = 1]
      BY <1>5 DEF ListPage
    <2> HIDE DEF first, m, p
    <2>5. call' = Moved(c, r)
      BY <2>4, <1>1 DEF Moved
    <2>6. /\ r \in CallState /\ r.pc = p /\ r.target = m.by
          /\ r.body = call[c].body /\ r.disturbed = call[c].disturbed
      BY <1>1, <1>2, <2>2, <2>3 DEF CallState
    <2> HIDE DEF r
    <2>7. Steps(c) /\ call'[c] = r
      BY <2>5, <2>6, WhenMoved
    <2> QED  BY <2>2, <2>6, <2>7 DEF m, p
  <1>6. CASE ours = {} /\ MorePages(n)
    <2> DEFINE k == n + 1
               r == [call[c] EXCEPT !.page = k]
    <2>1. call' = [call EXCEPT ![c].page = k]
      BY <1>6, <1>1 DEF ListPage
    <2>2. k \in Nat \ {0}
      BY <1>2
    <2> HIDE DEF k
    <2>3. call' = Moved(c, r)
      BY <2>1, <1>1 DEF Moved
    <2>4. /\ r \in CallState /\ r.pc = call[c].pc /\ r.page = k
          /\ r.body = call[c].body /\ r.disturbed = call[c].disturbed
      BY <1>1, <2>2 DEF CallState
    <2> HIDE DEF r
    <2>5. Steps(c) /\ call'[c] = r
      BY <2>3, <2>4, WhenMoved
    <2>6. \A i \in Ours(comments) : i \notin PageOf(n)
      BY <1>4, <1>6
    <2> QED  BY <2>4, <2>5, <2>6 DEF k
  <1>7. CASE ours = {} /\ ~MorePages(n)
    <2> DEFINE r == [call[c] EXCEPT !.pc = missing, !.page = 1]
    <2>1. call' = [call EXCEPT ![c].pc = missing, ![c].page = 1]
      BY <1>7 DEF ListPage
    <2>2. call' = Moved(c, r)
      BY <2>1, <1>1 DEF Moved
    <2>3. /\ r \in CallState /\ r.pc = missing
          /\ r.body = call[c].body /\ r.disturbed = call[c].disturbed
      BY <1>1, <1>2 DEF CallState
    <2> HIDE DEF r
    <2>4. Steps(c) /\ call'[c] = r
      BY <2>2, <2>3, WhenMoved
    <2>5. \A i \in Ours(comments) : i \notin PageOf(n)
      BY <1>4, <1>7
    <2> QED  BY <2>3, <2>4, <2>5, <1>7
  <1> QED  BY <1>5, <1>6, <1>7

\* The comments that c has rewritten in the list.
Rewritten(c) ==
    [i \in DOMAIN comments |->
        IF comments[i].by = call[c].target
        THEN [comments[i] EXCEPT !.body = call[c].body] ELSE comments[i]]

\* A rewriting leaves all comments at their places with their authors.
LEMMA RewrittenIs ==
    ASSUME TypeOK, NEW c \in Calls
    PROVE  /\ Rewritten(c) \in Seq(Comment)
           /\ DOMAIN Rewritten(c) = DOMAIN comments
           /\ Ours(Rewritten(c)) = Ours(comments)
           /\ \A i \in DOMAIN comments :
                 /\ Rewritten(c)[i].by = comments[i].by
                 /\ Rewritten(c)[i].marked = comments[i].marked
                 /\ comments[i].by = call[c].target =>
                       Rewritten(c)[i].body = call[c].body
  <1> DEFINE new == Rewritten(c)
             b == call[c].body
             t == call[c].target
  <1>1. comments \in Seq(Comment) /\ b \in Bodies
    BY DEF TypeOK
  <1>2. /\ DOMAIN new = DOMAIN comments
        /\ \A i \in DOMAIN comments :
              new[i] = IF comments[i].by = t
                       THEN [comments[i] EXCEPT !.body = b] ELSE comments[i]
    BY DEF Rewritten
  <1> HIDE DEF new, b, t
  <1>3. ASSUME NEW i \in DOMAIN comments
        PROVE  /\ new[i] \in Comment
               /\ new[i].by = comments[i].by
               /\ new[i].marked = comments[i].marked
               /\ comments[i].by = t => new[i].body = b
    <2>1. comments[i] \in Comment
      BY <1>1
    <2> QED  BY <1>1, <1>2, <2>1 DEF Comment
  <1>4. new \in Seq(Comment)
    <2>1. Len(comments) \in Nat /\ DOMAIN comments = 1 .. Len(comments)
      BY <1>1
    <2>2. new = [i \in 1 .. Len(comments) |-> new[i]]
      BY <1>2, <2>1 DEF new, Rewritten
    <2>3. \A i \in 1 .. Len(comments) : new[i] \in Comment
      BY <1>3, <2>1
    <2>4. new \in [1 .. Len(comments) -> Comment]
      BY <2>2, <2>3
    <2> QED  BY <2>1, <2>4
  <1>5. Ours(new) = Ours(comments)
    BY <1>2, <1>3 DEF Ours
  <1> QED  BY <1>2, <1>3, <1>4, <1>5 DEF new, b, t
-----------------------------------------------------------------------------
(***************************************************************************)
(* What is found or done on the forge stays so, and what a call that does  *)
(* not move knows of it stays true.                                        *)
(***************************************************************************)
Grew ==
    /\ job' = job
    /\ registered => registered'
    /\ repo = "fork" => repo' = "fork"
    /\ branch' >= branch
    /\ pull # "none" => pull' # "none"

\* A call that has at most been overtaken.
Overtaken(d) ==
    /\ call'[d].pc = call[d].pc /\ call'[d].boot = call[d].boot
    /\ call'[d].commit = call[d].commit /\ call'[d].body = call[d].body
    /\ call'[d].page = call[d].page /\ call'[d].target = call[d].target
    /\ call'[d].found = call[d].found
    /\ ~call'[d].disturbed => ~call[d].disturbed

LEMMA PublishStays ==
    ASSUME TypeOK, TypeOK', Grew, NEW d \in Calls, Overtaken(d), PublishTraced(d)
    PROVE  PublishTraced(d)'
  <1> SUFFICES ASSUME job = "publish"
               PROVE  PublishTraced(d)'
    BY DEF Grew, PublishTraced
  <1>1. call[d].pc # "idle" => call[d].boot \/ registered
    BY DEF PublishTraced
  <1>2. call'[d].pc # "idle" => call'[d].boot \/ registered'
    BY <1>1, Zenon DEF Grew, Overtaken
  <1>3. call[d].pc \in {"source", "push", "find", "open", "reconcile", "done"} =>
            repo = "fork" /\ registered
    BY DEF PublishTraced
  <1>4. call'[d].pc \in {"source", "push", "find", "open", "reconcile", "done"} =>
            repo' = "fork" /\ registered'
    BY <1>3, Zenon DEF Grew, Overtaken
  <1>5. call'[d].pc \in {"push", "find", "open", "reconcile", "done"} =>
            call'[d].commit > 0
    BY DEF PublishTraced, Overtaken
  <1>6. /\ branch \in Nat /\ branch' \in Nat /\ call[d].commit \in Nat
        /\ branch' >= branch
    BY DEF TypeOK, Grew
  <1>7. call'[d].pc \in {"find", "open", "reconcile", "done"} =>
            branch' >= call'[d].commit
    BY <1>6 DEF PublishTraced, Overtaken
  <1>8. call'[d].pc = "done" => pull' # "none" /\ call'[d].found = "own"
    BY DEF PublishTraced, Overtaken, Grew
  <1> QED  BY <1>2, <1>4, <1>5, <1>7, <1>8 DEF PublishTraced

\* An operation of c that leaves the comments and the other calls alone.
LEMMA AloneKeeps ==
    ASSUME ForgeInv, NEW c \in Calls, Steps(c), Grew, TypeOK',
           comments' = comments, raced => raced', head' = head,
           \A d \in Calls \ {c} : (d \in late') <=> (d \in late),
           (PlaceKnown(c) /\ PublishTraced(c) /\ SearchTraced(c))'
    PROVE  ForgeInv'
  <1>1. ASSUME NEW d \in Calls \ {c}
        PROVE  (PlaceKnown(d) /\ PublishTraced(d) /\ SearchTraced(d))'
    <2>1. call'[d] = call[d] /\ Overtaken(d)
      BY DEF Steps, Overtaken
    <2>2. PlaceKnown(d)'
      BY <2>1 DEF ForgeInv, PlaceKnown, Grew
    <2>3. PublishTraced(d)'
      BY <2>1, PublishStays DEF ForgeInv
    <2>4. SearchTraced(d)'
      BY <2>1 DEF ForgeInv, SearchTraced, Searched, Grew
    <2> QED  BY <2>2, <2>3, <2>4
  <1>2. OursKnown'
    <2>1. ~raced' => ~raced
      BY Zenon
    <2> QED  BY <2>1 DEF ForgeInv, OursKnown
  <1> QED  BY <1>1, <1>2 DEF ForgeInv

\* One of publish.
LEMMA PublishKeeps ==
    ASSUME ForgeInv, NEW c \in Calls, Steps(c), Grew, TypeOK', job = "publish",
           comments' = comments, raced' = raced, head' = head,
           \A d \in Calls \ {c} : (d \in late') <=> (d \in late),
           call'[c].pc \in PublishPlaces,
           c \in late' => call'[c].pc \in {"reconcile", "done", "failed"},
           PublishTraced(c)'
    PROVE  ForgeInv'
  <1>1. PlaceKnown(c)'
    BY DEF PlaceKnown, Grew
  <1>2. SearchTraced(c)'
    BY DEF SearchTraced, Grew
  <1> QED  BY <1>1, <1>2, AloneKeeps

-----------------------------------------------------------------------------
(***************************************************************************)
(* The operations of publish.                                              *)
(***************************************************************************)
LEMMA StartPublishKeeps ==
    ASSUME ForgeInv, NEW c \in Calls, StartPublish(c)
    PROVE  ForgeInv'
  <1>1. /\ Steps(c) /\ call'[c].pc = "user"
        /\ call'[c].boot \/ registered
    BY StartPublishIs DEF ForgeInv
  <1>2. TypeOK' /\ Grew
    BY <1>1 DEF StartPublish, ForgeInv, TypeOK, Steps, CallState, Grew, remote
  <1>3. job' = job /\ job = "publish" /\ late' = late /\ registered' = registered
    BY DEF StartPublish
  <1>4. c \notin late
    BY DEF ForgeInv, PlaceKnown, StartPublish, At
  <1>5. call'[c].boot \/ registered'
    BY <1>1, <1>3, Zenon
  <1>6. PublishTraced(c)'
    BY <1>1, <1>5 DEF PublishTraced
  <1> QED  BY <1>1, <1>2, <1>3, <1>4, <1>6, PublishKeeps DEF StartPublish, remote, PublishPlaces
\* A call that fails knows nothing more.
LEMMA FailureKeeps ==
    ASSUME ForgeInv, NEW c \in Calls, call' = Go(c, "failed"), Grew, TypeOK', call[c].pc # "idle",
           comments' = comments, raced' = raced, head' = head, late' = late
    PROVE  ForgeInv'
  <1>1. /\ Steps(c) /\ call'[c].pc = "failed" /\ call'[c].boot = call[c].boot
        /\ call'[c].disturbed = call[c].disturbed
    BY WhenGone DEF ForgeInv, Pcs
  <1>2. PlaceKnown(c)'
    BY <1>1 DEF PlaceKnown, PublishPlaces, CommentPlaces
  <1>3. PublishTraced(c)'
    <2>1. job = "publish" => call[c].boot \/ registered
      BY DEF ForgeInv, PublishTraced
    <2>2. job' = "publish" => call'[c].boot \/ registered'
      BY <1>1, <2>1, Zenon DEF Grew
    <2> QED  BY <1>1, <2>2 DEF PublishTraced
  <1>4. SearchTraced(c)'
    BY <1>1 DEF SearchTraced, Searched, ForgeInv, Grew
  <1> QED  BY <1>1, <1>2, <1>3, <1>4, AloneKeeps

LEMMA ReadFailsKeeps ==
    ASSUME ForgeInv, NEW c \in Calls, ReadFails(c)
    PROVE  ForgeInv'
  <1>1. call' = Go(c, "failed") /\ call[c].pc # "idle"
    BY DEF ReadFails, Reading
  <1>2. Steps(c)
    BY <1>1, WhenGone DEF ForgeInv, Pcs
  <1>3. TypeOK' /\ Grew
    BY <1>2 DEF ReadFails, ForgeInv, TypeOK, Steps, CallState, Grew, remote
  <1> QED  BY <1>1, <1>3, FailureKeeps DEF ReadFails, remote

LEMMA GetUserKeeps ==
    ASSUME ForgeInv, NEW c \in Calls, GetUser(c)
    PROVE  ForgeInv'
  <1>1. CASE job = "publish"
    <2>1. call' = Go(c, "lookup") /\ call[c].pc = "user"
      BY <1>1 DEF GetUser, At
    <2>2. Steps(c) /\ call'[c].pc = "lookup" /\ call'[c].boot = call[c].boot
      BY <2>1, WhenGone DEF ForgeInv, Pcs
    <2>3. TypeOK' /\ Grew
      BY <2>2 DEF GetUser, ForgeInv, TypeOK, Steps, CallState, Grew, remote
    <2>4. c \notin late
      BY <2>1 DEF ForgeInv, PlaceKnown
    <2>5. call[c].boot \/ registered
      BY <1>1, <2>1 DEF ForgeInv, PublishTraced
    <2>6. call'[c].boot \/ registered'
      BY <2>2, <2>3, <2>5, Zenon DEF Grew
    <2>7. PublishTraced(c)'
      BY <2>2, <2>6 DEF PublishTraced
    <2> QED  BY <1>1, <2>2, <2>3, <2>4, <2>7, PublishKeeps DEF GetUser, remote, PublishPlaces
  <1>2. CASE job = "comment"
    <2>1. call' = Go(c, "list") /\ call[c].pc = "user"
      BY <1>2 DEF GetUser, At
    <2>2. Steps(c) /\ call'[c].pc = "list" /\ call'[c].page = call[c].page
      BY <2>1, WhenGone DEF ForgeInv, Pcs
    <2>3. TypeOK' /\ Grew
      BY <2>2 DEF GetUser, ForgeInv, TypeOK, Steps, CallState, Grew, remote
    <2>4. c \notin late'
      BY <2>1 DEF ForgeInv, PlaceKnown, GetUser
    <2>5. call'[c].page = 1
      BY <1>2, <2>1, <2>2 DEF ForgeInv, SearchTraced, Searched
    <2>6. \A i \in Ours(comments') : i > (call'[c].page - 1) * PER_PAGE
      <3>1. \A i \in Ours(comments') : i \in Nat \ {0}
        BY <2>3 DEF TypeOK, Ours
      <3>2. (1 - 1) * PER_PAGE = 0
        BY PageAssumption
      <3> QED  BY <2>5, <3>1, <3>2
    <2>7. SearchTraced(c)'
      BY <2>2, <2>4, <2>6 DEF SearchTraced, Searched
    <2>8. PlaceKnown(c)' /\ PublishTraced(c)'
      BY <1>2, <2>2, <2>3, <2>4 DEF PlaceKnown, PublishTraced, CommentPlaces, Grew
    <2> QED  BY <2>2, <2>3, <2>7, <2>8, AloneKeeps DEF GetUser, remote
  <1> QED  BY <1>1, <1>2 DEF ForgeInv, TypeOK

\* The repository that the forge has given is the fork, or the call fails.
LEMMA ForkFoundKeeps ==
    ASSUME ForgeInv, NEW c \in Calls, ForkFound(c), call[c].pc \in {"lookup", "poll"},
           UNCHANGED <<provider, job, head, late, raced, deleted, remote>>
    PROVE  ForgeInv'
  <1>1. /\ Steps(c)
        /\ \/ call'[c].pc = "failed" /\ registered' = registered
           \/ call'[c].pc = "user" /\ repo = "fork" /\ registered' = TRUE
           \/ /\ call'[c].pc = "source" /\ repo = "fork" /\ ~call[c].boot
              /\ registered' = registered
        /\ call'[c].boot = call[c].boot \/ registered' = TRUE
    BY ForkFoundIs DEF ForgeInv
  <1>2. job = "publish" /\ c \notin late
    BY DEF ForgeInv, TypeOK, PlaceKnown, CommentPlaces
  <1>3. registered' \in BOOLEAN /\ (registered => registered')
    <2>1. registered \in BOOLEAN
      BY DEF ForgeInv, TypeOK
    <2>2. registered' = registered \/ registered' = TRUE
      BY <1>1, Zenon
    <2> QED  BY <2>1, <2>2, Zenon
  <1>4. TypeOK' /\ Grew
    BY <1>1, <1>3 DEF ForgeInv, TypeOK, Steps, CallState, Grew, remote
  <1>5. call[c].boot \/ registered
    BY <1>2 DEF ForgeInv, PublishTraced
  <1>6. call'[c].boot \/ registered'
    BY <1>1, <1>3, <1>5, Zenon
  <1>7. call'[c].pc = "source" => repo' = "fork" /\ registered'
    <2>1. repo' = repo
      BY DEF remote
    <2>2. call'[c].pc = "source" => repo = "fork" /\ ~call[c].boot
      BY <1>1
    <2> QED  BY <1>3, <1>5, <2>1, <2>2, Zenon
  <1>8. call'[c].pc \in {"failed", "user", "source"}
    BY <1>1
  <1>9. PublishTraced(c)'
    BY <1>6, <1>7, <1>8 DEF PublishTraced
  <1> QED  BY <1>1, <1>2, <1>4, <1>8, <1>9, PublishKeeps DEF remote, PublishPlaces

\* The search for the fork goes on or ends.
LEMMA ForkSoughtKeeps ==
    ASSUME ForgeInv, NEW c \in Calls, call[c].pc \in {"lookup", "fork", "poll"},
           Steps(c), call'[c].pc \in {"fork", "poll", "failed"}, call'[c].boot = call[c].boot,
           repo' = repo \/ (repo = "absent" /\ repo' = "pending"),
           UNCHANGED <<provider, job, registered, head, late, raced, deleted, branch,
                       pull, comments>>
    PROVE  ForgeInv'
  <1>1. job = "publish" /\ c \notin late
    BY DEF ForgeInv, TypeOK, PlaceKnown, CommentPlaces
  <1>2. TypeOK' /\ Grew
    BY DEF ForgeInv, TypeOK, Steps, CallState, Grew
  <1>3. call[c].boot \/ registered
    BY <1>1 DEF ForgeInv, PublishTraced
  <1>4. call'[c].boot \/ registered'
    BY <1>3, Zenon
  <1>5. PublishTraced(c)'
    BY <1>4 DEF PublishTraced
  <1> QED  BY <1>1, <1>2, <1>5, PublishKeeps DEF PublishPlaces

LEMMA LookupForkKeeps ==
    ASSUME ForgeInv, NEW c \in Calls, LookupFork(c)
    PROVE  ForgeInv'
  <1>1. CASE ForkFound(c)
    BY <1>1, ForkFoundKeeps DEF LookupFork, At
  <1>2. CASE call' = Go(c, "fork") /\ UNCHANGED registered
    <2>1. Steps(c) /\ call'[c].pc = "fork" /\ call'[c].boot = call[c].boot
      BY <1>2, WhenGone DEF ForgeInv, Pcs
    <2> QED  BY <1>2, <2>1, ForkSoughtKeeps DEF LookupFork, At, remote
  <1> QED  BY <1>1, <1>2 DEF LookupFork

LEMMA CreateForkKeeps ==
    ASSUME ForgeInv, NEW c \in Calls, CreateFork(c)
    PROVE  ForgeInv'
  <1>1. /\ Steps(c) /\ call'[c].pc \in {"poll", "failed"}
        /\ call'[c].boot = call[c].boot
        /\ repo' = repo \/ (repo = "absent" /\ repo' = "pending")
    BY CreateForkIs DEF ForgeInv
  <1>2. /\ call[c].pc = "fork"
        /\ UNCHANGED <<provider, job, registered, head, late, raced, deleted, branch,
                       pull, comments>>
    BY DEF CreateFork, At
  <1> QED  BY <1>1, <1>2, ForkSoughtKeeps

LEMMA PollForkKeeps ==
    ASSUME ForgeInv, NEW c \in Calls, PollFork(c)
    PROVE  ForgeInv'
  <1>1. CASE ForkFound(c)
    BY <1>1, ForkFoundKeeps DEF PollFork, At
  <1>2. CASE /\ Steps(c) /\ registered' = registered
             /\ call'[c].pc \in {"poll", "failed"} /\ call'[c].boot = call[c].boot
    BY <1>2, ForkSoughtKeeps DEF PollFork, At, remote
  <1> QED  BY <1>1, <1>2, PollForkIs DEF ForgeInv

LEMMA ResolveSourceKeeps ==
    ASSUME ForgeInv, NEW c \in Calls, ResolveSource(c)
    PROVE  ForgeInv'
  <1>1. /\ Steps(c) /\ call'[c].pc = "push" /\ call'[c].commit = head
        /\ call'[c].boot = call[c].boot
    BY ResolveSourceIs DEF ForgeInv
  <1>2. call[c].pc = "source"
    BY DEF ResolveSource, At
  <1>3. job = "publish" /\ c \notin late
    BY <1>2 DEF ForgeInv, TypeOK, PlaceKnown, CommentPlaces
  <1>4. TypeOK' /\ Grew
    BY <1>1 DEF ResolveSource, ForgeInv, TypeOK, Steps, CallState, Grew, remote
  <1>5. repo = "fork" /\ registered
    BY <1>2, <1>3 DEF ForgeInv, PublishTraced
  <1>6. repo' = "fork" /\ registered'
    BY <1>4, <1>5, Zenon DEF Grew
  <1>7. call'[c].commit > 0
    BY <1>1 DEF ForgeInv
  <1>8. PublishTraced(c)'
    BY <1>1, <1>6, <1>7 DEF PublishTraced
  <1> QED  BY <1>1, <1>3, <1>4, <1>8, PublishKeeps DEF ResolveSource, remote, PublishPlaces

LEMMA PushKeeps ==
    ASSUME ForgeInv, NEW c \in Calls, Push(c)
    PROVE  ForgeInv'
  <1>1. call[c].pc = "push"
    BY DEF Push, At
  <1>2. job = "publish" /\ c \notin late
    BY <1>1 DEF ForgeInv, TypeOK, PlaceKnown, CommentPlaces
  <1>3. /\ branch' = branch \/ (branch' = call[c].commit /\ call[c].commit >= branch)
        /\ \/ call' = Go(c, "failed")
           \/ call' = Go(c, "find") /\ branch' = call[c].commit
    BY DEF Push, FastForward
  <1>4. Steps(c)
    BY <1>3, WhenGone DEF ForgeInv, Pcs
  <1>5. branch \in 0 .. MaxCommit /\ call[c].commit \in 0 .. MaxCommit
    BY DEF ForgeInv, TypeOK
  <1>6. branch' \in 0 .. MaxCommit /\ branch' >= branch
    BY <1>3, <1>5
  <1>7. TypeOK' /\ Grew
    BY <1>4, <1>6 DEF Push, ForgeInv, TypeOK, Steps, CallState, Grew
  <1>8. CASE call' = Go(c, "failed")
    BY <1>1, <1>7, <1>8, FailureKeeps DEF Push
  <1>9. CASE call' = Go(c, "find") /\ branch' = call[c].commit
    <2>1. /\ call'[c].pc = "find" /\ call'[c].commit = call[c].commit
          /\ call'[c].boot = call[c].boot
      BY <1>9, WhenGone DEF ForgeInv, Pcs
    <2>2. repo = "fork" /\ registered /\ call[c].commit > 0
      BY <1>1, <1>2 DEF ForgeInv, PublishTraced
    <2>3. repo' = "fork" /\ registered'
      BY <1>7, <2>2, Zenon DEF Grew
    <2>4. branch' >= call'[c].commit
      BY <1>5, <1>9, <2>1
    <2>5. PublishTraced(c)'
      BY <2>1, <2>2, <2>3, <2>4 DEF PublishTraced
    <2> QED  BY <1>2, <1>4, <1>7, <2>1, <2>5, PublishKeeps DEF Push, PublishPlaces
  <1> QED  BY <1>3, <1>8, <1>9

\* What a call that has pushed knows, wherever it goes.
LEMMA PushedKeeps ==
    ASSUME ForgeInv, NEW c \in Calls, call[c].pc \in {"find", "open", "reconcile"},
           Steps(c), TypeOK', Grew, head' = head, comments' = comments, raced' = raced,
           late' = late \/ late' = late \cup {c},
           call'[c].pc \in {"open", "reconcile", "done", "failed"},
           c \in late' => call'[c].pc \in {"reconcile", "done", "failed"},
           call'[c].commit = call[c].commit, call'[c].boot = call[c].boot,
           call'[c].pc = "done" => pull' # "none" /\ call'[c].found = "own"
    PROVE  ForgeInv'
  <1>1. job = "publish"
    BY DEF ForgeInv, TypeOK, PlaceKnown, CommentPlaces
  <1>2. /\ repo = "fork" /\ registered /\ call[c].commit > 0
        /\ branch >= call[c].commit
    BY <1>1 DEF ForgeInv, PublishTraced
  <1>3. repo' = "fork" /\ registered'
    BY <1>2, Zenon DEF Grew
  <1>4. branch' >= call'[c].commit
    <2>1. branch \in Nat /\ branch' \in Nat /\ call[c].commit \in Nat /\ branch' >= branch
      BY DEF ForgeInv, TypeOK, Grew
    <2> QED  BY <1>2, <2>1
  <1>5. PublishTraced(c)'
    BY <1>2, <1>3, <1>4 DEF PublishTraced
  <1> QED  BY <1>1, <1>5, PublishKeeps DEF PublishPlaces

LEMMA FindPullKeeps ==
    ASSUME ForgeInv, NEW c \in Calls, FindPull(c)
    PROVE  ForgeInv'
  <1>1. /\ Steps(c)
        /\ \/ call'[c].pc = "open"
           \/ call'[c].pc = "done" /\ pull # "none" /\ call'[c].found = "own"
        /\ call'[c].commit = call[c].commit /\ call'[c].boot = call[c].boot
    BY PullSought DEF ForgeInv, FindPull, Pcs
  <1>2. TypeOK' /\ Grew
    BY <1>1 DEF FindPull, ForgeInv, TypeOK, Steps, CallState, Grew, remote
  <1>3. call[c].pc = "find" /\ pull' = pull
    BY DEF FindPull, At, remote
  <1>4. c \notin late
    BY <1>3 DEF ForgeInv, PlaceKnown
  <1> QED  BY <1>1, <1>2, <1>3, <1>4, PushedKeeps DEF FindPull, remote

LEMMA ReconcilePullKeeps ==
    ASSUME ForgeInv, NEW c \in Calls, ReconcilePull(c)
    PROVE  ForgeInv'
  <1>1. /\ Steps(c)
        /\ \/ call'[c].pc = "failed"
           \/ call'[c].pc = "done" /\ pull # "none" /\ call'[c].found = "own"
        /\ call'[c].commit = call[c].commit /\ call'[c].boot = call[c].boot
    BY PullSought DEF ForgeInv, ReconcilePull, Pcs
  <1>2. TypeOK' /\ Grew
    BY <1>1 DEF ReconcilePull, ForgeInv, TypeOK, Steps, CallState, Grew, remote
  <1>3. call[c].pc = "reconcile" /\ pull' = pull
    BY DEF ReconcilePull, At, remote
  <1> QED  BY <1>1, <1>2, <1>3, PushedKeeps DEF ReconcilePull, remote

LEMMA OpenPullKeeps ==
    ASSUME ForgeInv, NEW c \in Calls, OpenPull(c)
    PROVE  ForgeInv'
  <1> PICK a \in Answers :
        /\ pull' = IF a.effect = "now" THEN "open" ELSE pull
        /\ late' = IF a.effect = "later" THEN late \cup {c} ELSE late
        /\ call' = [call EXCEPT
             ![c].pc = AfterPost(a.answer, "done", "reconcile"),
             ![c].found = IF a.answer = "ok" THEN "own" ELSE @]
    BY DEF OpenPull
  <1>1. /\ call' \in [Calls -> CallState]
        /\ \A d \in Calls \ {c} : call'[d] = call[d]
        /\ call'[c].pc \in {"done", "reconcile", "failed"}
        /\ call'[c].pc = "done" => a.answer = "ok" /\ call'[c].found = "own"
        /\ call'[c].commit = call[c].commit /\ call'[c].boot = call[c].boot
    <2>1. call' = Answered(c, a, "reconcile")
      BY DEF Answered
    <2>2. LET calls == Answered(c, a, "reconcile") IN
          /\ calls \in [Calls -> CallState]
          /\ \A d \in Calls \ {c} : calls[d] = call[d]
          /\ calls[c].pc \in {"done", "reconcile", "failed"}
          /\ calls[c].pc = "done" => a.answer = "ok" /\ calls[c].found = "own"
          /\ calls[c].commit = call[c].commit /\ calls[c].boot = call[c].boot
      BY PostMoves DEF ForgeInv
    <2> QED  BY <2>1, <2>2, Zenon
  <1>2. call'[c].pc = "done" => pull' # "none" /\ call'[c].found = "own"
    BY <1>1, PostLeads
  <1>3. /\ late' = late \/ late' = late \cup {c}
        /\ pull' = pull \/ pull' = "open"
    OBVIOUS
  <1>4. late' \subseteq Calls
    BY <1>3 DEF ForgeInv, TypeOK
  <1>5. TypeOK' /\ Grew
    BY <1>1, <1>3, <1>4 DEF OpenPull, ForgeInv, TypeOK, CallState, Grew
  <1>6. call[c].pc = "open" /\ Steps(c)
    BY <1>1 DEF OpenPull, At, Steps
  <1> QED  BY <1>1, <1>2, <1>3, <1>5, <1>6, PushedKeeps DEF OpenPull
-----------------------------------------------------------------------------
(***************************************************************************)
(* The operations of publish_pr_comment.                                   *)
(***************************************************************************)
\* One that leaves the comments alone.
LEMMA SearchKeeps ==
    ASSUME ForgeInv, NEW c \in Calls, Steps(c), TypeOK', job = "comment",
           UNCHANGED <<job, registered, head, remote>>, raced => raced',
           \A d \in Calls \ {c} : (d \in late') <=> (d \in late),
           call'[c].pc \in CommentPlaces,
           c \in late' => call'[c].pc \in {"relist", "done", "failed"},
           SearchTraced(c)'
    PROVE  ForgeInv'
  <1>1. PlaceKnown(c)' /\ PublishTraced(c)'
    BY DEF PlaceKnown, PublishTraced
  <1>2. Grew
    <2>1. branch \in Nat
      BY DEF ForgeInv, TypeOK
    <2> QED  BY <2>1 DEF Grew, remote
  <1> QED  BY <1>1, <1>2, AloneKeeps DEF remote

\* A search begins with the first page.
LEMMA FirstPage ==
    ASSUME comments \in Seq(Comment), NEW i \in Ours(comments)
    PROVE  i > (1 - 1) * PER_PAGE
  <1>1. i \in Nat \ {0}
    BY DEF Ours
  <1>2. (1 - 1) * PER_PAGE = 0
    BY PageAssumption
  <1> QED  BY <1>1, <1>2

LEMMA StartCommentKeeps ==
    ASSUME ForgeInv, NEW c \in Calls, StartComment(c)
    PROVE  ForgeInv'
  <1>1. /\ Steps(c) /\ call'[c].pc \in {"user", "list"}
        /\ call'[c].page = call[c].page
    BY StartCommentIs DEF ForgeInv
  <1>2. call[c].pc = "idle" /\ job = "comment"
    BY DEF StartComment, At
  <1>3. c \notin late
    BY <1>2 DEF ForgeInv, PlaceKnown
  <1>4. TypeOK'
    BY <1>1 DEF StartComment, ForgeInv, TypeOK, Steps, CallState, remote
  <1>5. call'[c].page = 1
    BY <1>1, <1>2 DEF ForgeInv, SearchTraced, Searched
  <1>6. UNCHANGED <<job, registered, head, raced, late, remote>>
    BY DEF StartComment
  <1>7. \A i \in Ours(comments') : i > (call'[c].page - 1) * PER_PAGE
    BY <1>5, <1>6, FirstPage DEF ForgeInv, TypeOK, remote
  <1>8. SearchTraced(c)'
    BY <1>1, <1>3, <1>5, <1>6, <1>7 DEF SearchTraced, Searched
  <1> QED  BY <1>1, <1>2, <1>3, <1>4, <1>6, <1>8, SearchKeeps DEF CommentPlaces

LEMMA FindCommentKeeps ==
    ASSUME ForgeInv, NEW c \in Calls, FindComment(c)
    PROVE  ForgeInv'
  <1> DEFINE n == call[c].page
  <1>1. /\ Steps(c)
        /\ call'[c].disturbed = call[c].disturbed
        /\ call'[c].body = call[c].body
        /\ \/ \E k \in Ours(comments) :
                /\ call'[c].pc = OnFound(c, comments[k])
                /\ call'[c].target = comments[k].by
           \/ /\ \A i \in Ours(comments) : i \notin PageOf(n)
              /\ call'[c].pc = call[c].pc
              /\ call'[c].page = n + 1
           \/ /\ \A i \in Ours(comments) : i \notin PageOf(n)
              /\ ~MorePages(n)
              /\ call'[c].pc = "post"
    BY ListPageIs DEF ForgeInv, FindComment, Pcs
  <1>2. call[c].pc = "list"
    BY DEF FindComment, ListPage, At
  <1>3. UNCHANGED <<provider, job, registered, head, late, raced, deleted, remote>>
    BY DEF FindComment, ListPage
  <1>4. job = "comment" /\ c \notin late
    BY <1>2 DEF ForgeInv, TypeOK, PlaceKnown, PublishPlaces
  <1>5. TypeOK'
    BY <1>1, <1>3 DEF ForgeInv, TypeOK, Steps, CallState, remote
  <1>6. comments' = comments /\ comments \in Seq(Comment) /\ n \in Nat \ {0}
    BY <1>3 DEF remote, ForgeInv, TypeOK
  <1>7. ~call[c].disturbed => \A i \in Ours(comments) : i > (n - 1) * PER_PAGE
    BY <1>2, <1>4 DEF ForgeInv, SearchTraced, Searched
  <1>8. CASE \E k \in Ours(comments) :
                /\ call'[c].pc = OnFound(c, comments[k])
                /\ call'[c].target = comments[k].by
    <2>1. call'[c].pc \in {"patch", "done"}
      BY <1>8 DEF OnFound
    <2>2. Searched(c, call'[c], c \in late', comments')
      BY <1>3, <1>4, <1>6, <1>8, <2>1 DEF Searched
    <2>3. SearchTraced(c)'
      BY <2>2 DEF SearchTraced
    <2> QED  BY <1>1, <1>3, <1>4, <1>5, <2>1, <2>3, SearchKeeps DEF CommentPlaces
  <1>9. CASE /\ \A i \in Ours(comments) : i \notin PageOf(n)
             /\ call'[c].pc = call[c].pc
             /\ call'[c].page = n + 1
    <2>1. ASSUME ~call[c].disturbed, NEW i \in Ours(comments)
          PROVE  i > (n + 1 - 1) * PER_PAGE
      <3>1. i \in DOMAIN comments
        BY DEF Ours
      <3>2. /\ i \in Nat /\ (n - 1) * PER_PAGE \in Nat /\ n * PER_PAGE \in Nat
            /\ (n + 1 - 1) * PER_PAGE = n * PER_PAGE
            /\ i > (n - 1) * PER_PAGE /\ i <= n * PER_PAGE => i \in PageOf(n)
        BY <1>6, <3>1, PageIs
      <3>3. i > (n - 1) * PER_PAGE /\ i \notin PageOf(n)
        BY <1>7, <1>9, <2>1
      <3>4. ~(i <= n * PER_PAGE)
        BY <3>2, <3>3
      <3> QED  BY <3>2, <3>4
    <2>2. Searched(c, call'[c], c \in late', comments')
      BY <1>1, <1>2, <1>3, <1>4, <1>6, <1>9, <2>1 DEF Searched
    <2>3. SearchTraced(c)'
      BY <2>2 DEF SearchTraced
    <2> QED  BY <1>1, <1>2, <1>3, <1>4, <1>5, <1>9, <2>3, SearchKeeps DEF CommentPlaces
  <1>10. CASE /\ \A i \in Ours(comments) : i \notin PageOf(n)
              /\ ~MorePages(n)
              /\ call'[c].pc = "post"
    <2>1. ASSUME ~call[c].disturbed, NEW i \in Ours(comments)
          PROVE  FALSE
      <3>1. i \in DOMAIN comments
        BY DEF Ours
      <3>2. /\ i > (n - 1) * PER_PAGE /\ i <= n * PER_PAGE => i \in PageOf(n)
        BY <1>6, <3>1, PageIs
      <3>3. i > (n - 1) * PER_PAGE /\ i \notin PageOf(n)
        BY <1>7, <1>10, <2>1
      <3>4. i <= n * PER_PAGE
        BY <1>6, <1>10, <3>1, LastCommentPage
      <3> QED  BY <3>2, <3>3, <3>4
    <2>2. Searched(c, call'[c], c \in late', comments')
      BY <1>1, <1>3, <1>4, <1>6, <1>10, <2>1 DEF Searched
    <2>3. SearchTraced(c)'
      BY <2>2 DEF SearchTraced
    <2> QED  BY <1>1, <1>3, <1>4, <1>5, <1>10, <2>3, SearchKeeps DEF CommentPlaces
  <1> QED  BY <1>1, <1>8, <1>9, <1>10

LEMMA ReconcileCommentKeeps ==
    ASSUME ForgeInv, NEW c \in Calls, ReconcileComment(c)
    PROVE  ForgeInv'
  <1>1. /\ Steps(c)
        /\ call'[c].disturbed = call[c].disturbed
        /\ call'[c].body = call[c].body
        /\ \/ \E k \in Ours(comments) : call'[c].pc = OnFound(c, comments[k])
           \/ call'[c].pc = call[c].pc
           \/ call'[c].pc = "failed"
    <2>1. TypeOK /\ OursKnown /\ "failed" \in Pcs /\ ListPage(c, "relist", "failed")
      BY DEF ForgeInv, ReconcileComment, Pcs
    <2> QED  BY <2>1, ListPageIs
  <1>2. call[c].pc = "relist"
    BY DEF ReconcileComment, ListPage, At
  <1>3. UNCHANGED <<provider, job, registered, head, late, raced, deleted, remote>>
    BY DEF ReconcileComment, ListPage
  <1>4. job = "comment"
    BY <1>2 DEF ForgeInv, TypeOK, PlaceKnown, PublishPlaces
  <1>5. TypeOK'
    BY <1>1, <1>3 DEF ForgeInv, TypeOK, Steps, CallState, remote
  <1>6. call'[c].pc \in {"done", "relist", "failed"}
    BY <1>1, <1>2 DEF OnFound, At
  <1>7. Searched(c, call'[c], c \in late, comments)
    BY <1>1, <1>2, <1>4, <1>6 DEF Searched, ForgeInv, SearchTraced
  <1>8. SearchTraced(c)'
    BY <1>3, <1>7 DEF SearchTraced, remote
  <1> QED  BY <1>1, <1>3, <1>4, <1>5, <1>6, <1>8, SearchKeeps DEF CommentPlaces

\* A change of the comments that takes none of ours away leaves a call that it
\* overtakes with what it still knows.
LEMMA OvertakenKeeps ==
    ASSUME ForgeInv, TypeOK', Grew, NEW d \in Calls, Overtaken(d),
           ~call'[d].disturbed => ~Listing(d),
           (d \in late') <=> (d \in late),
           \A i \in Ours(comments) : \E j \in Ours(comments') :
              comments'[j].by = comments[i].by
    PROVE  (PlaceKnown(d) /\ PublishTraced(d) /\ SearchTraced(d))'
  <1>1. PlaceKnown(d)'
    BY DEF ForgeInv, PlaceKnown, Overtaken, Grew
  <1>2. PublishTraced(d)'
    BY PublishStays DEF ForgeInv
  <1>3. SearchTraced(d)'
    <2> SUFFICES ASSUME job = "comment"
                 PROVE  Searched(d, call'[d], d \in late', comments')
      BY DEF SearchTraced, Grew
    <2>1. Searched(d, call[d], d \in late, comments)
      BY DEF ForgeInv, SearchTraced
    <2>2. call'[d].pc \in {"idle", "user"} => call'[d].page = 1
      BY <2>1 DEF Searched, Overtaken
    <2>3. ~call'[d].disturbed =>
             call'[d].pc \notin {"list", "post", "relist"} /\ d \notin late'
      BY Zenon DEF Listing, Overtaken
    <2>4. call'[d].pc = "patch" => \E j \in Ours(comments') : comments'[j].by = call'[d].target
      <3> SUFFICES ASSUME call'[d].pc = "patch"
                   PROVE  \E j \in Ours(comments') : comments'[j].by = call'[d].target
        OBVIOUS
      <3>1. PICK i \in Ours(comments) : comments[i].by = call[d].target
        BY <2>1 DEF Searched, Overtaken
      <3> QED  BY <3>1 DEF Overtaken
    <2> QED  BY <2>2, <2>3, <2>4 DEF Searched
  <1> QED  BY <1>1, <1>2, <1>3
\* The other calls are overtaken, c has come to where it is in calls.
LEMMA OthersOvertaken ==
    ASSUME TypeOK, NEW c \in Calls, NEW calls \in [Calls -> CallState],
           \A d \in Calls \ {c} : calls[d] = call[d],
           call' = Overtake(calls, Calls \ {c})
    PROVE  /\ call' \in [Calls -> CallState]
           /\ \A d \in Calls \ {c} :
                 Overtaken(d) /\ (~call'[d].disturbed => ~Listing(d))
           /\ call'[c].pc = calls[c].pc /\ call'[c].body = calls[c].body
           /\ ~call'[c].disturbed => ~calls[c].disturbed
  <1>1. /\ call' \in [Calls -> CallState]
        /\ \A d \in Calls :
              /\ call'[d].pc = calls[d].pc
              /\ call'[d].boot = calls[d].boot
              /\ call'[d].commit = calls[d].commit
              /\ call'[d].body = calls[d].body
              /\ call'[d].page = calls[d].page
              /\ call'[d].target = calls[d].target
              /\ call'[d].found = calls[d].found
              /\ ~call'[d].disturbed =>
                    ~calls[d].disturbed /\ ~(d \in Calls \ {c} /\ Listing(d))
    <2> DEFINE o == Overtake(calls, Calls \ {c})
    <2>1. /\ o \in [Calls -> CallState]
          /\ \A d \in Calls :
                /\ o[d].pc = calls[d].pc
                /\ o[d].boot = calls[d].boot
                /\ o[d].commit = calls[d].commit
                /\ o[d].body = calls[d].body
                /\ o[d].page = calls[d].page
                /\ o[d].target = calls[d].target
                /\ o[d].found = calls[d].found
                /\ ~o[d].disturbed =>
                      ~calls[d].disturbed /\ ~(d \in Calls \ {c} /\ Listing(d))
      BY OvertakeIs
    <2> HIDE DEF o
    <2>2. call' = o
      BY DEF o
    <2> QED  BY <2>1, <2>2, ZenonT(40)
  <1>2. ASSUME NEW d \in Calls \ {c}
        PROVE  Overtaken(d) /\ (~call'[d].disturbed => ~Listing(d))
    <2>1. calls[d] = call[d] /\ d \in Calls
      OBVIOUS
    <2> QED  BY <1>1, <2>1, ZenonT(40) DEF Overtaken
  <1> QED  BY <1>1, <1>2, Zenon

LEMMA PatchCommentKeeps ==
    ASSUME ForgeInv, NEW c \in Calls, PatchComment(c)
    PROVE  ForgeInv'
  <1>1. call[c].pc = "patch"
    BY DEF PatchComment, At
  <1>2. job = "comment" /\ c \notin late
    BY <1>1 DEF ForgeInv, TypeOK, PlaceKnown, PublishPlaces
  <1>3. UNCHANGED <<provider, job, registered, head, late, raced, deleted, repo,
                    branch, pull>>
    BY DEF PatchComment
  <1>4. Grew
    <2>1. branch \in Nat
      BY DEF ForgeInv, TypeOK
    <2> QED  BY <1>3, <2>1 DEF Grew
  <1>5. CASE /\ comments' = Rewritten(c)
             /\ \E pc \in {"done", "failed"} : call' = Overtake(Go(c, pc), Calls \ {c})
    <2>1. PICK pc \in {"done", "failed"} : call' = Overtake(Go(c, pc), Calls \ {c})
      BY <1>5
    <2>2. pc \in Pcs
      BY DEF Pcs
    <2>3. /\ Go(c, pc) \in [Calls -> CallState]
          /\ \A d \in Calls \ {c} : Go(c, pc)[d] = call[d]
          /\ Go(c, pc)[c].pc = pc
      <3>1. call \in [Calls -> CallState]
        BY CallTypes DEF ForgeInv
      <3> DEFINE r == [call[c] EXCEPT !.pc = pc]
      <3>2. Go(c, pc) = Moved(c, r) /\ r \in CallState
        BY <2>2, <3>1, GoIs
      <3>3. r.pc = pc
        BY <3>1 DEF CallState
      <3> HIDE DEF r
      <3>4. /\ Moved(c, r) \in [Calls -> CallState] /\ Moved(c, r)[c] = r
            /\ \A d \in Calls \ {c} : Moved(c, r)[d] = call[d]
        BY <3>1, <3>2, MovedIs
      <3> QED  BY <3>2, <3>3, <3>4, Zenon
    <2>4. /\ call' \in [Calls -> CallState]
          /\ \A d \in Calls \ {c} :
                Overtaken(d) /\ (~call'[d].disturbed => ~Listing(d))
          /\ call'[c].pc = pc
      BY <2>1, <2>3, OthersOvertaken DEF ForgeInv
    <2>5. /\ comments' \in Seq(Comment)
          /\ DOMAIN comments' = DOMAIN comments
          /\ Ours(comments') = Ours(comments)
          /\ \A i \in DOMAIN comments :
                /\ comments'[i].by = comments[i].by
                /\ comments'[i].marked = comments[i].marked
      BY <1>5, RewrittenIs DEF ForgeInv
    <2>6. TypeOK'
      BY <1>3, <2>4, <2>5 DEF ForgeInv, TypeOK, CallState
    <2>7. \A i \in Ours(comments) : \E j \in Ours(comments') :
             comments'[j].by = comments[i].by
      BY <2>5 DEF Ours
    <2>8. \A d \in Calls \ {c} : (PlaceKnown(d) /\ PublishTraced(d) /\ SearchTraced(d))'
      BY <1>3, <1>4, <2>4, <2>6, <2>7, OvertakenKeeps
    <2>9. (PlaceKnown(c) /\ PublishTraced(c) /\ SearchTraced(c))'
      BY <1>2, <1>3, <2>4 DEF PlaceKnown, PublishTraced, SearchTraced, Searched, CommentPlaces
    <2>10. OursKnown'
      BY <1>3, <2>5 DEF ForgeInv, OursKnown, Ours
    <2> QED  BY <1>3, <2>6, <2>8, <2>9, <2>10 DEF ForgeInv
  <1>6. CASE call' = Go(c, "failed") /\ UNCHANGED comments
    <2>1. Steps(c)
      BY <1>6, WhenGone DEF ForgeInv, Pcs
    <2>2. TypeOK'
      BY <1>3, <1>6, <2>1 DEF ForgeInv, TypeOK, Steps, CallState
    <2> QED  BY <1>1, <1>3, <1>4, <1>6, <2>2, FailureKeeps
  <1> QED  BY <1>5, <1>6 DEF PatchComment, Rewritten

\* A POST is done, at once or late.
LEMMA PostedKeeps ==
    ASSUME ForgeInv, NEW c \in Calls, job = "comment", NEW calls \in [Calls -> CallState],
           \A d \in Calls \ {c} : calls[d] = call[d],
           calls[c].pc \in {"relist", "done", "failed"},
           calls[c].body = call[c].body, calls[c].disturbed = call[c].disturbed,
           call' = Overtake(calls, Calls \ {c}),
           comments' = Append(comments, OwnComment(c)),
           ~call[c].disturbed => Ours(comments) = {},
           raced' \in BOOLEAN, raced \/ call[c].disturbed => raced',
           late' \subseteq Calls, c \notin late',
           \A d \in Calls \ {c} : (d \in late') <=> (d \in late),
           UNCHANGED <<provider, job, registered, head, repo, branch, pull, deleted>>
    PROVE  ForgeInv'
  <1>1. Grew
    <2>1. branch \in Nat
      BY DEF ForgeInv, TypeOK
    <2> QED  BY <2>1 DEF Grew
  <1>2. /\ call' \in [Calls -> CallState]
        /\ \A d \in Calls \ {c} :
              Overtaken(d) /\ (~call'[d].disturbed => ~Listing(d))
        /\ call'[c].pc = calls[c].pc /\ call'[c].body = calls[c].body
        /\ ~call'[c].disturbed => ~calls[c].disturbed
    BY OthersOvertaken DEF ForgeInv
  <1> DEFINE m == OwnComment(c)
             e == Len(comments) + 1
  <1>3. /\ m \in Comment /\ m.by = c /\ m.by # 0 /\ m.marked
        /\ m.body = call[c].body
    BY Posted DEF ForgeInv
  <1>4. comments \in Seq(Comment) /\ comments' = Append(comments, m)
    BY DEF ForgeInv, TypeOK
  <1> HIDE DEF m
  <1>5. /\ comments' \in Seq(Comment)
        /\ e \in Ours(comments')
        /\ comments'[e] = m
        /\ \A i \in Ours(comments') : i \in Ours(comments) \/ i = e
        /\ \A i \in Ours(comments) : i \in Ours(comments') /\ comments'[i] = comments[i]
    <2>1. /\ Append(comments, m) \in Seq(Comment)
          /\ e \in Ours(Append(comments, m))
          /\ Append(comments, m)[e] = m
          /\ \A i \in Ours(Append(comments, m)) : i \in Ours(comments) \/ i = e
          /\ \A i \in Ours(comments) :
                i \in Ours(Append(comments, m)) /\ Append(comments, m)[i] = comments[i]
      BY <1>3, <1>4, AddedByUs
    <2> HIDE DEF e
    <2> QED  BY <1>4, <2>1, Zenon
  <1> HIDE DEF e
  <1>6. TypeOK'
    BY <1>2, <1>5 DEF ForgeInv, TypeOK, CallState
  <1>7. \A d \in Calls \ {c} : (PlaceKnown(d) /\ PublishTraced(d) /\ SearchTraced(d))'
    BY <1>1, <1>2, <1>5, <1>6, OvertakenKeeps
  <1>8. PlaceKnown(c)' /\ PublishTraced(c)'
    BY <1>2 DEF PlaceKnown, PublishTraced, CommentPlaces
  <1>9. SearchTraced(c)'
    <2>1. ~call'[c].disturbed => Ours(comments) = {}
      BY <1>2, Zenon
    <2>2. ~call'[c].disturbed =>
            \A i \in Ours(comments') : comments'[i].by = c /\ comments'[i].body = call'[c].body
      BY <1>2, <1>3, <1>5, <2>1, ZenonT(40)
    <2> QED  BY <1>2, <2>2 DEF SearchTraced, Searched
  <1>10. OursKnown'
    <2>1. \A i \in Ours(comments') : comments'[i].marked
      BY <1>3, <1>5, ZenonT(40) DEF ForgeInv, OursKnown
    <2>2. ~raced' => Ours(comments) = {}
      BY Zenon
    <2>3. ~raced' => \A i, j \in Ours(comments') : i = j
      BY <1>5, <2>2
    <2> QED  BY <2>1, <2>3 DEF OursKnown
  <1> QED  BY <1>6, <1>7, <1>8, <1>9, <1>10 DEF ForgeInv

LEMMA PostCommentKeeps ==
    ASSUME ForgeInv, NEW c \in Calls, PostComment(c)
    PROVE  ForgeInv'
  <1>1. call[c].pc = "post"
    BY DEF PostComment, At
  <1>2. job = "comment" /\ c \notin late
    BY <1>1 DEF ForgeInv, TypeOK, PlaceKnown, PublishPlaces
  <1>3. UNCHANGED <<provider, job, registered, head, repo, branch, pull, deleted>>
    BY DEF PostComment
  <1>4. ~call[c].disturbed => Ours(comments) = {}
    BY <1>1, <1>2 DEF ForgeInv, SearchTraced, Searched
  <1>5. PICK a \in Answers :
        /\ comments' = IF a.effect = "now" THEN Append(comments, OwnComment(c))
                       ELSE comments
        /\ raced' = (raced \/ (a.effect = "now" /\ call[c].disturbed))
        /\ late' = IF a.effect = "later" THEN late \cup {c} ELSE late
        /\ call' = IF a.effect = "now" THEN Overtake(Answered(c, a, "relist"), Calls \ {c})
                   ELSE Answered(c, a, "relist")
    BY DEF PostComment, Answered
  <1> DEFINE calls == Answered(c, a, "relist")
  <1>6. /\ calls \in [Calls -> CallState]
        /\ \A d \in Calls \ {c} : calls[d] = call[d]
        /\ calls[c].pc \in {"done", "relist", "failed"}
        /\ calls[c].body = call[c].body /\ calls[c].disturbed = call[c].disturbed
    BY PostMoves DEF ForgeInv
  <1> HIDE DEF calls
  <1>7. CASE a.effect = "now"
    <2>1. /\ comments' = Append(comments, OwnComment(c)) /\ late' = late
          /\ call' = Overtake(calls, Calls \ {c})
      BY <1>5, <1>7 DEF calls
    <2>2. raced' \in BOOLEAN /\ (raced \/ call[c].disturbed => raced')
      BY <1>5, <1>7, Zenon
    <2>3. late' \subseteq Calls
      BY <2>1 DEF ForgeInv, TypeOK
    <2> QED  BY <1>2, <1>3, <1>4, <1>6, <2>1, <2>2, <2>3, PostedKeeps
  <1>8. CASE a.effect # "now"
    <2>1. /\ comments' = comments /\ call' = calls
          /\ late' = late \/ late' = late \cup {c}
      BY <1>5, <1>8 DEF calls
    <2>2. raced' \in BOOLEAN /\ (raced => raced')
      BY <1>5, Zenon
    <2>3. late' \subseteq Calls
      BY <2>1 DEF ForgeInv, TypeOK
    <2>4. TypeOK' /\ Steps(c)
      BY <1>3, <1>6, <2>1, <2>2, <2>3 DEF ForgeInv, TypeOK, CallState, Steps
    <2>5. Searched(c, call'[c], c \in late', comments')
      BY <1>4, <1>6, <2>1 DEF Searched
    <2>6. SearchTraced(c)'
      BY <2>5 DEF SearchTraced
    <2>7. UNCHANGED <<job, registered, head, remote>>
      BY <1>3, <2>1 DEF remote
    <2>8. \A d \in Calls \ {c} : (d \in late') <=> (d \in late)
      BY <2>1
    <2> QED  BY <1>2, <1>6, <2>1, <2>2, <2>4, <2>6, <2>7, <2>8, SearchKeeps DEF CommentPlaces
  <1> QED  BY <1>7, <1>8
-----------------------------------------------------------------------------
(***************************************************************************)
(* The rest of the world.                                                  *)
(***************************************************************************)
\* Something that leaves the calls and the comments alone.
LEMMA WorldKeeps ==
    ASSUME ForgeInv, TypeOK', Grew, head' > 0, UNCHANGED <<call, comments, raced>>,
           late' \subseteq late
    PROVE  ForgeInv'
  <1>1. ASSUME NEW d \in Calls
        PROVE  (PlaceKnown(d) /\ PublishTraced(d) /\ SearchTraced(d))'
    <2>1. PlaceKnown(d) /\ PublishTraced(d) /\ SearchTraced(d)
      BY DEF ForgeInv
    <2>2. Overtaken(d)
      BY DEF Overtaken
    <2>3. PlaceKnown(d)'
      BY <2>1 DEF PlaceKnown, Grew
    <2>4. PublishTraced(d)'
      BY <2>1, <2>2, PublishStays DEF ForgeInv
    <2>5. SearchTraced(d)'
      BY <2>1 DEF SearchTraced, Searched, Grew
    <2> QED  BY <2>3, <2>4, <2>5
  <1>2. OursKnown'
    BY DEF ForgeInv, OursKnown
  <1> QED  BY <1>1, <1>2 DEF ForgeInv

LEMMA LatePostKeeps ==
    ASSUME ForgeInv, NEW c \in Calls, LatePost(c)
    PROVE  ForgeInv'
  <1>1. /\ c \in late /\ late' = late \ {c}
        /\ UNCHANGED <<provider, job, registered, head, repo, branch, deleted>>
    BY DEF LatePost
  <1>2. late' \subseteq Calls /\ late' \subseteq late
    BY <1>1 DEF ForgeInv, TypeOK
  <1>3. CASE job = "publish"
    <2>1. pull' = "open" /\ UNCHANGED <<comments, raced, call>>
      BY <1>3 DEF LatePost
    <2>2. TypeOK' /\ Grew
      BY <1>1, <1>2, <2>1 DEF ForgeInv, TypeOK, Grew
    <2>3. head' > 0
      BY <1>1 DEF ForgeInv
    <2> QED  BY <1>2, <2>1, <2>2, <2>3, WorldKeeps
  <1>4. CASE job = "comment"
    <2>1. /\ comments' = Append(comments, OwnComment(c))
          /\ raced' = (raced \/ call[c].disturbed)
          /\ call' = Overtake(call, Calls \ {c})
          /\ UNCHANGED pull
      BY <1>4 DEF LatePost
    <2>2. call \in [Calls -> CallState]
      BY CallTypes DEF ForgeInv
    <2>3. call[c].pc \in {"relist", "done", "failed"}
      BY <1>1, <1>4 DEF ForgeInv, PlaceKnown, CommentPlaces
    <2>4. ~call[c].disturbed => Ours(comments) = {}
      BY <1>1, <1>4 DEF ForgeInv, SearchTraced, Searched
    <2>5. raced' \in BOOLEAN /\ (raced \/ call[c].disturbed => raced')
      BY <2>1, Zenon
    <2>6. c \notin late' /\ \A d \in Calls \ {c} : (d \in late') <=> (d \in late)
      BY <1>1
    <2> DEFINE calls == call
    <2>7. /\ calls \in [Calls -> CallState]
          /\ \A d \in Calls \ {c} : calls[d] = call[d]
          /\ calls[c].pc \in {"relist", "done", "failed"}
          /\ calls[c].body = call[c].body /\ calls[c].disturbed = call[c].disturbed
          /\ call' = Overtake(calls, Calls \ {c})
      BY <2>1, <2>2, <2>3
    <2> HIDE DEF calls
    <2> QED  BY <1>1, <1>2, <1>4, <2>1, <2>4, <2>5, <2>6, <2>7, PostedKeeps
  <1> QED  BY <1>3, <1>4 DEF ForgeInv, TypeOK

LEMMA EventKeeps ==
    ASSUME ForgeInv, ForkAppears \/ PullCloses \/ Commit
    PROVE  ForgeInv'
  <1>1. UNCHANGED <<call, comments, raced, late>>
    BY DEF ForkAppears, PullCloses, Commit, remote
  <1>2. head \in 0 .. MaxCommit /\ head > 0 /\ MaxCommit \in Nat
    BY ForgeAssumption DEF ForgeInv, TypeOK
  <1>3. head' \in 0 .. MaxCommit /\ head' > 0
    BY <1>2 DEF ForkAppears, PullCloses, Commit
  <1>4. TypeOK' /\ Grew
    <2>1. CASE ForkAppears
      BY <1>3, <2>1 DEF ForkAppears, ForgeInv, TypeOK, Grew
    <2>2. CASE PullCloses
      BY <1>3, <2>2 DEF PullCloses, ForgeInv, TypeOK, Grew
    <2>3. CASE Commit
      BY <1>3, <2>3 DEF Commit, ForgeInv, TypeOK, Grew, remote
    <2> QED  BY <2>1, <2>2, <2>3
  <1> QED  BY <1>1, <1>3, <1>4, WorldKeeps

LEMMA SomebodyCommentsKeeps ==
    ASSUME ForgeInv, SomebodyComments
    PROVE  ForgeInv'
  <1>1. PICK m \in BOOLEAN : comments' = Append(comments, Stranger(m))
    BY DEF SomebodyComments
  <1>2. UNCHANGED <<provider, job, call, registered, head, repo, branch, pull, late,
                    raced, deleted>>
    BY DEF SomebodyComments
  <1>3. Stranger(m) \in Comment /\ Stranger(m).by = 0
    BY ForgeAssumption DEF Stranger, Comment, Bodies
  <1>4. /\ comments' \in Seq(Comment)
        /\ Ours(comments') = Ours(comments)
        /\ \A i \in Ours(comments) : comments'[i] = comments[i]
    <2> DEFINE s == Stranger(m)
    <2>1. s \in Comment /\ s.by = 0 /\ comments' = Append(comments, s)
      BY <1>1, <1>3
    <2> HIDE DEF s
    <2> QED  BY <2>1, AddedByAnother DEF ForgeInv, TypeOK
  <1>5. TypeOK' /\ Grew
    BY <1>2, <1>4 DEF ForgeInv, TypeOK, Grew
  <1>6. ASSUME NEW d \in Calls
        PROVE  (PlaceKnown(d) /\ PublishTraced(d) /\ SearchTraced(d))'
    <2>1. PlaceKnown(d) /\ PublishTraced(d) /\ SearchTraced(d)
      BY DEF ForgeInv
    <2>2. PlaceKnown(d)' /\ PublishTraced(d)'
      BY <1>2, <2>1 DEF PlaceKnown, PublishTraced
    <2>3. SearchTraced(d)'
      BY <1>2, <1>4, <2>1 DEF SearchTraced, Searched
    <2> QED  BY <2>2, <2>3
  <1>7. OursKnown'
    BY <1>2, <1>4 DEF ForgeInv, OursKnown
  <1> QED  BY <1>2, <1>5, <1>6, <1>7 DEF ForgeInv

LEMMA CommentDeletedKeeps ==
    ASSUME ForgeInv, CommentDeleted
    PROVE  ForgeInv'
  <1>1. PICK k \in Others : comments' = Without(comments, k)
    BY DEF CommentDeleted, Without
  <1>2. /\ UNCHANGED <<provider, job, registered, head, repo, branch, pull, late, raced>>
        /\ call' = Overtake(call, Calls)
        /\ deleted < MaxDeleted /\ deleted' = deleted + 1
    BY DEF CommentDeleted
  <1>3. comments \in Seq(Comment) /\ k \in DOMAIN comments /\ comments[k].by = 0
    BY DEF ForgeInv, TypeOK, Others
  <1>4. /\ comments' \in Seq(Comment)
        /\ \A j \in Ours(comments') :
              Before(j, k) \in Ours(comments) /\ comments'[j] = comments[Before(j, k)]
        /\ \A i \in Ours(comments) : \E j \in Ours(comments') : comments'[j] = comments[i]
        /\ \A i, j \in DOMAIN comments' : Before(i, k) = Before(j, k) => i = j
    BY <1>1, <1>3, DeletedByAnother
  <1>5. /\ call' \in [Calls -> CallState]
        /\ \A d \in Calls : Overtaken(d) /\ (~call'[d].disturbed => ~Listing(d))
    <2> DEFINE o == Overtake(call, Calls)
    <2>1. call \in [Calls -> CallState]
      BY CallTypes DEF ForgeInv
    <2>2. /\ o \in [Calls -> CallState]
          /\ \A d \in Calls :
                /\ o[d].pc = call[d].pc
                /\ o[d].boot = call[d].boot
                /\ o[d].commit = call[d].commit
                /\ o[d].body = call[d].body
                /\ o[d].page = call[d].page
                /\ o[d].target = call[d].target
                /\ o[d].found = call[d].found
                /\ ~o[d].disturbed =>
                      ~call[d].disturbed /\ ~(d \in Calls /\ Listing(d))
      BY <2>1, OvertakeIs
    <2>3. call' = o
      BY <1>2
    <2> HIDE DEF o
    <2> QED  BY <2>2, <2>3, Zenon DEF Overtaken
  <1>6. TypeOK' /\ Grew
    <2>1. deleted' \in 0 .. MaxDeleted
      BY <1>2, ForgeAssumption DEF ForgeInv, TypeOK
    <2> QED  BY <1>2, <1>4, <1>5, <2>1 DEF ForgeInv, TypeOK, CallState, Grew
  <1>7. \A i \in Ours(comments) : \E j \in Ours(comments') :
           comments'[j].by = comments[i].by
    BY <1>4
  <1>8. \A d \in Calls : (PlaceKnown(d) /\ PublishTraced(d) /\ SearchTraced(d))'
    BY <1>2, <1>5, <1>6, <1>7, OvertakenKeeps
  <1>9. OursKnown'
    <2>1. \A j \in Ours(comments') : comments'[j].marked
      BY <1>4 DEF ForgeInv, OursKnown
    <2>2. Ours(comments') \subseteq DOMAIN comments'
      BY DEF Ours
    <2>3. ~raced' => \A i, j \in Ours(comments') : i = j
      BY <1>2, <1>4, <2>2 DEF ForgeInv, OursKnown
    <2> QED  BY <2>1, <2>3 DEF OursKnown
  <1> QED  BY <1>2, <1>6, <1>8, <1>9 DEF ForgeInv

-----------------------------------------------------------------------------
(***************************************************************************)
(* The invariant is inductive.                                             *)
(***************************************************************************)
LEMMA ForgeInvInitially ==
    Init => ForgeInv
  <1> SUFFICES ASSUME Init PROVE ForgeInv
    OBVIOUS
  <1>1. TypeOK
    BY TypesInitially
  <1>2. \A c \in Calls : call[c] = IdleCall
    BY DEF Init
  <1>3. \A i \in DOMAIN comments : comments[i].by = 0
    <2>1. CASE job = "comment"
      <3>1. \A m \in BOOLEAN : Stranger(m).by = 0
        BY DEF Stranger
      <3>2. PICK n \in 0 .. PER_PAGE : comments \in [1 .. n -> {Stranger(m) : m \in BOOLEAN}]
        BY <2>1 DEF Init
      <3> QED  BY <3>1, <3>2
    <2>2. CASE job # "comment"
      <3>1. comments = <<>>
        BY <2>2 DEF Init
      <3> QED  BY <3>1
    <2> QED  BY <2>1, <2>2
  <1>4. Ours(comments) = {}
    BY <1>3 DEF Ours
  <1>5. ASSUME NEW c \in Calls
        PROVE  PlaceKnown(c) /\ PublishTraced(c) /\ SearchTraced(c)
    <2>1. call[c].pc = "idle" /\ call[c].page = 1 /\ c \notin late
      BY <1>2 DEF IdleCall, Init
    <2>2. PlaceKnown(c)
      BY <2>1 DEF PlaceKnown, PublishPlaces, CommentPlaces
    <2>3. PublishTraced(c) /\ SearchTraced(c)
      BY <2>1 DEF PublishTraced, SearchTraced, Searched
    <2> QED  BY <2>2, <2>3
  <1>6. head > 0
    BY DEF Init
  <1> QED  BY <1>1, <1>4, <1>5, <1>6 DEF ForgeInv, OursKnown

LEMMA ForgeInvStep ==
    ForgeInv /\ [Next]_vars => ForgeInv'
  <1> SUFFICES ASSUME ForgeInv, [Next]_vars PROVE ForgeInv'
    OBVIOUS
  <1>1. ASSUME NEW c \in Calls, StartPublish(c) \/ StartComment(c)
        PROVE  ForgeInv'
    BY <1>1, StartPublishKeeps, StartCommentKeeps
  <1>2. ASSUME NEW c \in Calls, PublishStep(c)
        PROVE  ForgeInv'
    BY <1>2, GetUserKeeps, LookupForkKeeps, CreateForkKeeps, PollForkKeeps,
       ResolveSourceKeeps, PushKeeps, FindPullKeeps, OpenPullKeeps,
       ReconcilePullKeeps DEF PublishStep
  <1>3. ASSUME NEW c \in Calls, CommentStep(c)
        PROVE  ForgeInv'
    BY <1>3, FindCommentKeeps, ReconcileCommentKeeps, PatchCommentKeeps,
       PostCommentKeeps DEF CommentStep
  <1>4. ASSUME NEW c \in Calls, ReadFails(c) \/ LatePost(c)
        PROVE  ForgeInv'
    BY <1>4, ReadFailsKeeps, LatePostKeeps
  <1>5. CASE ForkAppears \/ PullCloses \/ Commit \/ SomebodyComments \/ CommentDeleted
    BY <1>5, EventKeeps, SomebodyCommentsKeeps, CommentDeletedKeeps
  <1>6. CASE UNCHANGED vars
    <2>1. TypeOK' /\ Grew
      <3>1. branch \in Nat
        BY DEF ForgeInv, TypeOK
      <3> QED  BY <1>6, <3>1 DEF vars, ForgeInv, TypeOK, Grew
    <2> QED  BY <1>6, <2>1, WorldKeeps DEF vars, ForgeInv
  <1> QED  BY <1>1, <1>2, <1>3, <1>4, <1>5, <1>6 DEF Next, CallStep

LEMMA ForgeInvAlways ==
    Spec => []ForgeInv
  BY ForgeInvInitially, ForgeInvStep, PTL DEF Spec

-----------------------------------------------------------------------------
(***************************************************************************)
(* The theorems.                                                           *)
(***************************************************************************)
\* Every variable keeps its type, the places of the calls and the pages of their
\* searches among them.
THEOREM ForgeTypes == Spec => []TypeOK
  <1>1. ForgeInv => TypeOK
    BY DEF ForgeInv
  <1> QED  BY <1>1, ForgeInvAlways, PTL

\* A publish that reports success has happened, for any number of overlapping
\* calls, lost answers and late requests: the fork is the upstream's, its branch
\* has the commit the call pushed or a later one, and the pull request is there.
THEOREM SuccessfulPublishesAreReal == Spec => []PublishedIsReal
  <1>1. ForgeInv => PublishedIsReal
    BY DEF ForgeInv, PublishTraced, PublishedIsReal, At
  <1> QED  BY <1>1, ForgeInvAlways, PTL

\* There are two comments of ours only if one was posted on a list that somebody
\* had overtaken, however long the list, the pages and the retries are.
THEOREM RetriesLeaveOneComment == Spec => []SecondCommentWasRaced
  <1>1. ASSUME ForgeInv, ~raced
        PROVE  ~(Cardinality(Ours(comments)) > 1)
    <2>1. \A i, j \in Ours(comments) : i = j
      BY <1>1 DEF ForgeInv, OursKnown
    <2>2. CASE Ours(comments) = {}
      BY <2>2, FS_EmptySet
    <2>3. CASE Ours(comments) # {}
      <3>1. PICK i \in Ours(comments) : TRUE
        BY <2>3
      <3>2. Ours(comments) = {i}
        BY <2>1, <3>1
      <3>3. Cardinality({i}) = 1
        BY FS_Singleton
      <3> QED  BY <3>2, <3>3
    <2> QED  BY <2>2, <2>3
  <1>2. ForgeInv => SecondCommentWasRaced
    BY <1>1 DEF SecondCommentWasRaced, Ours
  <1> QED  BY <1>2, ForgeInvAlways, PTL

\* The comment that a call may report: one of ours, and of the call's text unless
\* GitHub keeps an earlier one or the comments changed under the call.
Shown(c) ==
    \E i \in DOMAIN comments' :
        /\ comments'[i].by # 0
        /\ provider = "gitcode" /\ ~call[c].disturbed => comments'[i].body = call[c].body

\* Only a search, a rewriting and a POST end with success.
LEMMA OthersDoNotEnd ==
    ASSUME ForgeInv, [Next]_vars, NEW c \in Calls, job = "comment",
           call[c].pc # "done", call'[c].pc = "done"
    PROVE  FindComment(c) \/ ReconcileComment(c) \/ PatchComment(c) \/ PostComment(c)
  <1>1. ASSUME NEW d \in Calls, Steps(d), call'[d].pc # "done"
        PROVE  FALSE
    BY <1>1 DEF Steps
  <1>2. ASSUME NEW d \in Calls, Steps(d) PROVE d = c
    BY <1>2 DEF Steps
  <1>3. ASSUME NEW d \in Calls, StartComment(d) PROVE FALSE
    BY <1>1, <1>3, StartCommentIs DEF ForgeInv
  <1>4. ASSUME NEW d \in Calls, PublishStep(d) PROVE FALSE
    <2>1. call[d].pc \in CommentPlaces
      BY DEF ForgeInv, PlaceKnown
    <2>2. GetUser(d)
      BY <1>4, <2>1 DEF CommentPlaces, PublishStep, LookupFork, CreateFork, PollFork,
         ResolveSource, Push, FindPull, OpenPull, ReconcilePull, At
    <2>3. call' = Go(d, "list")
      BY <2>2 DEF GetUser
    <2>4. Steps(d) /\ call'[d].pc = "list"
      BY <2>3, WhenGone DEF ForgeInv, Pcs
    <2> QED  BY <1>1, <2>4
  <1>5. ASSUME NEW d \in Calls, ReadFails(d) PROVE FALSE
    <2>1. Steps(d) /\ call'[d].pc = "failed"
      BY <1>5, WhenGone DEF ReadFails, ForgeInv, Pcs
    <2> QED  BY <1>1, <2>1
  <1>6. ASSUME NEW d \in Calls, FindComment(d) \/ ReconcileComment(d) PROVE d = c
    <2>1. Steps(d)
      <3>1. "post" \in Pcs /\ "failed" \in Pcs /\ TypeOK /\ OursKnown
        BY DEF Pcs, ForgeInv
      <3>2. CASE ListPage(d, "list", "post")
        BY <3>1, <3>2, ListPageIs
      <3>3. CASE ListPage(d, "relist", "failed")
        BY <3>1, <3>3, ListPageIs
      <3> QED  BY <1>6, <3>2, <3>3 DEF FindComment, ReconcileComment
    <2> QED  BY <1>2, <2>1
  <1>7. ASSUME NEW d \in Calls, NEW calls \in [Calls -> CallState],
               \A e \in Calls \ {d} : calls[e] = call[e],
               call' = Overtake(calls, Calls \ {d})
        PROVE  d = c \/ call'[c].pc = call[c].pc
    BY <1>7, OthersOvertaken, ZenonT(40) DEF ForgeInv, Overtaken
  <1>8. ASSUME NEW d \in Calls, PatchComment(d) PROVE d = c
    <2>1. call \in [Calls -> CallState]
      BY CallTypes DEF ForgeInv
    <2>2. ASSUME NEW pc \in {"done", "failed"}
          PROVE  /\ Go(d, pc) \in [Calls -> CallState]
                 /\ \A e \in Calls \ {d} : Go(d, pc)[e] = call[e]
      <3>1. pc \in Pcs
        BY DEF Pcs
      <3> DEFINE r == [call[d] EXCEPT !.pc = pc]
      <3>2. Go(d, pc) = Moved(d, r) /\ r \in CallState
        BY <2>1, <3>1, GoIs
      <3> HIDE DEF r
      <3>3. /\ Moved(d, r) \in [Calls -> CallState]
            /\ \A e \in Calls \ {d} : Moved(d, r)[e] = call[e]
        BY <2>1, <3>2, MovedIs
      <3> QED  BY <3>2, <3>3, Zenon
    <2>3. CASE call' = Go(d, "failed")
      <3>1. Steps(d)
        BY <2>3, WhenGone DEF ForgeInv, Pcs
      <3> QED  BY <1>2, <3>1
    <2>4. CASE \E pc \in {"done", "failed"} : call' = Overtake(Go(d, pc), Calls \ {d})
      BY <1>7, <2>2, <2>4
    <2> QED  BY <1>8, <2>3, <2>4 DEF PatchComment
  <1>9. ASSUME NEW d \in Calls, PostComment(d) PROVE d = c
    <2>1. PICK a \in Answers :
            call' = IF a.effect = "now" THEN Overtake(Answered(d, a, "relist"), Calls \ {d})
                    ELSE Answered(d, a, "relist")
      BY <1>9 DEF PostComment, Answered
    <2> DEFINE calls == Answered(d, a, "relist")
    <2>2. /\ calls \in [Calls -> CallState]
          /\ \A e \in Calls \ {d} : calls[e] = call[e]
      BY PostMoves DEF ForgeInv
    <2> HIDE DEF calls
    <2>3. call' = Overtake(calls, Calls \ {d}) \/ call' = calls
      BY <2>1 DEF calls
    <2> QED  BY <1>7, <2>2, <2>3
  <1>10. ASSUME NEW d \in Calls, LatePost(d) PROVE FALSE
    <2>1. call' = Overtake(call, Calls \ {d}) /\ call \in [Calls -> CallState]
      BY <1>10, CallTypes DEF LatePost, ForgeInv
    <2>2. \A e \in Calls : call'[e].pc = call[e].pc
      BY <2>1, OvertakeIs
    <2> QED  BY <2>2
  <1>11. CASE CommentDeleted
    <2>1. call' = Overtake(call, Calls) /\ call \in [Calls -> CallState]
      BY <1>11, CallTypes DEF CommentDeleted, ForgeInv
    <2>2. \A e \in Calls : call'[e].pc = call[e].pc
      BY <2>1, OvertakeIs
    <2> QED  BY <2>2
  <1>12. CASE \/ ForkAppears \/ PullCloses \/ Commit \/ SomebodyComments
              \/ UNCHANGED vars
    BY <1>12 DEF ForkAppears, PullCloses, Commit, SomebodyComments, vars
  <1>13. \A d \in Calls : ~StartPublish(d)
    BY DEF StartPublish
  <1>14. CASE \E d \in Calls : CommentStep(d)
    <2>1. PICK d \in Calls : CommentStep(d)
      BY <1>14
    <2>2. d = c
      BY <2>1, <1>6, <1>8, <1>9 DEF CommentStep
    <2> QED  BY <2>1, <2>2 DEF CommentStep
  <1> QED  BY <1>3, <1>4, <1>5, <1>10, <1>11, <1>12, <1>13, <1>14 DEF Next, CallStep

\* A search that ends with success has found a comment of ours with the call's text.
LEMMA FoundIsShown ==
    ASSUME ForgeInv, NEW c \in Calls, job = "comment", call[c].pc # "done",
           FindComment(c) \/ ReconcileComment(c), call'[c].pc = "done"
    PROVE  Shown(c)
  <1>1. PICK k \in Ours(comments) : call'[c].pc = OnFound(c, comments[k])
    <2>1. "post" \in Pcs /\ "failed" \in Pcs /\ TypeOK /\ OursKnown
      BY DEF Pcs, ForgeInv
    <2>2. CASE ListPage(c, "list", "post")
      BY <2>1, <2>2, ListPageIs
    <2>3. CASE ListPage(c, "relist", "failed")
      BY <2>1, <2>3, ListPageIs
    <2> QED  BY <2>2, <2>3 DEF FindComment, ReconcileComment
  <1>2. comments' = comments /\ call[c].pc \in {"list", "relist"}
    BY DEF FindComment, ReconcileComment, ListPage, remote, At
  <1>3. provider = "gitcode" /\ call[c].pc = "list" => comments[k].body = call[c].body
    BY <1>1 DEF OnFound, At
  <1>4. call[c].pc = "relist" /\ ~call[c].disturbed => comments[k].body = call[c].body
    BY DEF ForgeInv, SearchTraced, Searched
  <1>5. provider = "gitcode" /\ ~call[c].disturbed => comments[k].body = call[c].body
    BY <1>2, <1>3, <1>4
  <1>6. k \in DOMAIN comments /\ comments[k].by # 0
    BY DEF Ours
  <1> QED  BY <1>2, <1>5, <1>6 DEF Shown

LEMMA PatchedIsShown ==
    ASSUME ForgeInv, NEW c \in Calls, job = "comment", PatchComment(c),
           call'[c].pc = "done"
    PROVE  Shown(c)
  <1>1. call[c].pc = "patch"
    BY DEF PatchComment, At
  <1>2. comments' = Rewritten(c)
    <2>1. CASE call' = Go(c, "failed")
      BY <2>1, WhenGone DEF ForgeInv, Pcs
    <2> QED  BY <2>1 DEF PatchComment, Rewritten
  <1>3. PICK k \in Ours(comments) : comments[k].by = call[c].target
    BY <1>1 DEF ForgeInv, SearchTraced, Searched
  <1>4. k \in DOMAIN comments /\ comments[k].by # 0
    BY DEF Ours
  <1>5. /\ DOMAIN comments' = DOMAIN comments
        /\ comments'[k].by = comments[k].by
        /\ comments'[k].body = call[c].body
    BY <1>2, <1>3, <1>4, RewrittenIs DEF ForgeInv
  <1> QED  BY <1>4, <1>5 DEF Shown

LEMMA PostedIsShown ==
    ASSUME ForgeInv, NEW c \in Calls, PostComment(c), call'[c].pc = "done"
    PROVE  Shown(c)
  <1>1. PICK a \in Answers :
          /\ comments' = IF a.effect = "now" THEN Append(comments, OwnComment(c))
                         ELSE comments
          /\ call' = IF a.effect = "now" THEN Overtake(Answered(c, a, "relist"), Calls \ {c})
                     ELSE Answered(c, a, "relist")
    BY DEF PostComment, Answered
  <1> DEFINE calls == Answered(c, a, "relist")
  <1>2. /\ calls \in [Calls -> CallState]
        /\ calls[c].pc = "done" => a.answer = "ok"
    BY PostMoves DEF ForgeInv
  <1> HIDE DEF calls
  <1>3. call'[c].pc = calls[c].pc
    <2>1. CASE call' = calls
      BY <2>1
    <2>2. CASE call' = Overtake(calls, Calls \ {c})
      BY <1>2, <2>2, OvertakeIs
    <2> QED  BY <1>1, <2>1, <2>2 DEF calls
  <1>4. a.effect = "now"
    BY <1>2, <1>3, PostLeads
  <1> DEFINE m == OwnComment(c)
             e == Len(comments) + 1
  <1>5. m \in Comment /\ m.by # 0 /\ m.body = call[c].body
    BY Posted DEF ForgeInv
  <1>6. comments' = Append(comments, m) /\ comments \in Seq(Comment)
    BY <1>1, <1>4 DEF ForgeInv, TypeOK
  <1> HIDE DEF m
  <1>7. e \in Ours(Append(comments, m)) /\ Append(comments, m)[e] = m
    BY <1>5, <1>6, AddedByUs
  <1>8. e \in DOMAIN comments' /\ comments'[e] = m
    BY <1>6, <1>7 DEF Ours
  <1> QED  BY <1>5, <1>8 DEF Shown

\* When publish_pr_comment reports success there is a comment of the account
\* itself, GitCode's with the text of this very call unless the comments changed
\* under it.
THEOREM ReportedCommentsAreShown == Spec => CommentIsShown
  <1>1. ForgeInv /\ [Next]_vars =>
          [\A c \in Calls :
             job = "comment" /\ ~At(c, "done") /\ call'[c].pc = "done" =>
               \E i \in DOMAIN comments' :
                  /\ comments'[i].by # 0
                  /\ provider = "gitcode" /\ ~call[c].disturbed
                       => comments'[i].body = call[c].body]_vars
    <2> SUFFICES ASSUME ForgeInv, [Next]_vars, NEW c \in Calls, job = "comment",
                        ~At(c, "done"), call'[c].pc = "done"
                 PROVE  Shown(c)
      BY DEF Shown
    <2>1. call[c].pc # "done"
      BY DEF At
    <2>2. FindComment(c) \/ ReconcileComment(c) \/ PatchComment(c) \/ PostComment(c)
      BY <2>1, OthersDoNotEnd
    <2> QED  BY <2>1, <2>2, FoundIsShown, PatchedIsShown, PostedIsShown
  <1> QED  BY <1>1, ForgeInvAlways, PTL DEF Spec, CommentIsShown
-----------------------------------------------------------------------------
(***************************************************************************)
(* The mirror of the issues of a repository: its inductive invariant.      *)
(***************************************************************************)
SyncPlaces == {"idle", "picked", "begin", "list", "store", "dead"}

\* The state of a sync.
SyncState == [pc : SyncPlaces, saw : Nat, started : Nat, page : Nat \ {0},
              got : [Issues -> Nat]]

\* The types of the mirror. Its counters are bounded in a run only.
MirrorTypes ==
    /\ provider \in {"github", "gitcode"} /\ now \in Nat
    /\ forge \in [Issues -> [version : Nat, at : Nat]]
    /\ row \in [Issues -> Nat]
    /\ mirror \in [status : {"idle", "running", "succeeded", "failed"},
                 cursor : Nat, enabled : BOOLEAN]
    /\ sync \in [Syncs -> SyncState]
    /\ add \in [pc : {"idle", "store"}, issue : Nat, version : Nat]
    /\ add.pc = "store" => add.issue \in Issues
    /\ excused \in BOOLEAN /\ lost \in BOOLEAN

\* Every time is one that was.
ClockKnown ==
    /\ \A i \in Issues : forge[i].at <= Second(now)
    /\ mirror.cursor <= now
    /\ \A s \in Syncs : sync[s].started <= now

\* A sync that does not list yet has collected nothing.
Fresh(s) == sync[s].pc \in {"idle", "picked", "begin", "dead"} =>
    sync[s].page = 1 /\ sync[s].got = [i \in Issues |-> 0]

\* A single issue was as new as it is when it was fetched.
AddKnown ==
    add.pc = "store" =>
        forge[add.issue].version = 0 \/ add.version <= forge[add.issue].version

\* What the sync s knows of an issue: it has its contents, the row has them, the
\* issue changed after the start, or it is on a page that is still to be read.
IssueKnown(s, i) ==
    \/ forge[i].version = 0
    \/ forge[i].at >= sync[s].started
    \/ sync[s].got[i] = forge[i].version
    \/ /\ sync[s].got[i] = 0
       /\ \/ row[i] = forge[i].version
          \/ /\ sync[s].pc = "list" /\ i \in Since(s)
             /\ Place(s, i) >= (sync[s].page - 1) * PER_PAGE

SyncKnown(s) ==
    /\ sync[s].pc = "begin" => sync[s].saw <= mirror.cursor
    /\ Syncing(s) =>
          mirror.cursor <= sync[s].started /\ \A i \in Issues : IssueKnown(s, i)

OneSync == \A r, s \in Syncs : Syncing(r) /\ Syncing(s) => r = s

\* An issue whose row is out of date has changed since the cursor.
StaleSince == \A i \in Issues :
    forge[i].version > 0 /\ row[i] # forge[i].version => forge[i].at >= mirror.cursor

Tracked == StaleSince /\ OneSync /\ \A s \in Syncs : SyncKnown(s)

MirrorInv ==
    /\ MirrorTypes /\ ClockKnown /\ AddKnown /\ \A s \in Syncs : Fresh(s)
    /\ excused \/ Tracked
-----------------------------------------------------------------------------
(***************************************************************************)
(* Pages of a list.                                                        *)
(***************************************************************************)
\* The page of a place.
LEMMA Quotient ==
    ASSUME NEW x \in Nat, NEW p \in Nat \ {0}
    PROVE  /\ x \div p \in Nat
           /\ (x \div p) * p <= x
           /\ x < (x \div p + 1) * p
  OBVIOUS

LEMMA PageOfPlace ==
    ASSUME NEW x \in Nat, NEW p \in Nat \ {0}, NEW n \in Nat \ {0}
    PROVE  /\ (n - 1) * p \in Nat /\ n * p \in Nat /\ n * p = (n - 1) * p + p
           /\ x \div p = n - 1 <=> (n - 1) * p <= x /\ x < n * p
  <1> DEFINE q == x \div p
  <1>1. q \in Nat /\ q * p <= x /\ x < (q + 1) * p
    BY Quotient
  <1>2. (n - 1) * p \in Nat /\ n * p \in Nat /\ n * p = (n - 1) * p + p
    OBVIOUS
  <1> HIDE DEF q
  <1>3. ASSUME q = n - 1 PROVE (n - 1) * p <= x /\ x < n * p
    <2>1. q + 1 = n
      BY <1>3
    <2> QED  BY <1>1, <1>3, <2>1
  <1>4. ASSUME (n - 1) * p <= x, x < n * p PROVE q = n - 1
    <2>1. CASE q < n - 1
      <3>1. (q + 1) * p <= (n - 1) * p
        BY <1>1, <2>1
      <3>2. (q + 1) * p \in Nat
        BY <1>1
      <3> QED  BY <1>1, <1>2, <1>4, <3>1, <3>2
    <2>2. CASE q > n - 1
      <3>1. n * p <= q * p
        BY <1>1, <2>2
      <3>2. q * p \in Nat
        BY <1>1
      <3> QED  BY <1>1, <1>2, <1>4, <3>1, <3>2
    <2> QED  BY <1>1, <2>1, <2>2
  <1> QED  BY <1>2, <1>3, <1>4 DEF q

\* A set of naturals has a least one.
LEMMA LeastNatural ==
    ASSUME NEW T \in SUBSET Nat, T # {}
    PROVE  \E m \in T : \A k \in T : m <= k
  <1> DEFINE R == {ij \in Nat \X Nat : ij[1] < ij[2]}
  <1>1. IsWellFoundedOn(R, Nat)
    BY NatLessThanWellFounded DEF OpToRel
  <1>2. \A k, m \in Nat : k < m => <<k, m>> \in R
    OBVIOUS
  <1> HIDE DEF R
  <1>3. PICK m \in T : \A k \in T : ~(<<k, m>> \in R)
    BY <1>1, WFMin
  <1>4. \A k \in T : ~(k < m) /\ k \in Nat /\ m \in Nat
    BY <1>2, <1>3
  <1> QED  BY <1>4

\* B gives what is before each member of L in a total order.
Ordering(L, B) ==
    /\ IsFiniteSet(L)
    /\ B \in [L -> SUBSET L]
    /\ \A i \in L : i \notin B[i]
    /\ \A i, j \in L : j \in B[i] => B[j] \subseteq B[i]
    /\ \A i, j \in L : i = j \/ i \in B[j] \/ j \in B[i]

LEMMA RankIs ==
    ASSUME NEW L, NEW B, Ordering(L, B), NEW i \in L
    PROVE  /\ IsFiniteSet(B[i])
           /\ Cardinality(B[i]) \in Nat
           /\ \A j \in B[i] : j \in L /\ Cardinality(B[j]) < Cardinality(B[i])
  <1>1. \A k \in L : B[k] \subseteq L /\ IsFiniteSet(B[k]) /\ Cardinality(B[k]) \in Nat
    <2>1. \A k \in L : B[k] \subseteq L
      BY DEF Ordering
    <2>2. \A k \in L : IsFiniteSet(B[k])
      BY <2>1, FS_Subset DEF Ordering
    <2> QED  BY <2>1, <2>2, FS_CardinalityType
  <1>2. ASSUME NEW j \in B[i] PROVE Cardinality(B[j]) < Cardinality(B[i])
    <2>1. j \in L /\ j \notin B[j] /\ B[j] \subseteq B[i]
      BY <1>1 DEF Ordering
    <2>2. B[j] # B[i]
      BY <2>1
    <2>3. /\ Cardinality(B[j]) <= Cardinality(B[i])
          /\ Cardinality(B[j]) = Cardinality(B[i]) => B[j] = B[i]
      BY <1>1, <2>1, FS_Subset
    <2> QED  BY <1>1, <2>1, <2>2, <2>3
  <1> QED  BY <1>1, <1>2

\* The last member before k has one less before it.
LEMMA Predecessor ==
    ASSUME NEW L, NEW B, Ordering(L, B), NEW k \in L, B[k] # {}
    PROVE  \E j \in B[k] : Cardinality(B[k]) = Cardinality(B[j]) + 1
  <1> DEFINE r(x) == Cardinality(B[x])
             T == {r(k) - r(j) : j \in B[k]}
  <1>1. \A x \in L : r(x) \in Nat /\ \A j \in B[x] : j \in L /\ r(j) < r(x)
    BY RankIs
  <1>2. T \in SUBSET Nat /\ T # {}
    BY <1>1
  <1>3. PICK j \in B[k] : \A x \in B[k] : r(k) - r(j) <= r(k) - r(x)
    <2>1. PICK m \in T : \A x \in T : m <= x
      BY <1>2, LeastNatural
    <2> QED  BY <2>1
  <1>4. \A x \in B[k] : x \in L /\ r(x) \in Nat /\ r(x) <= r(j)
    BY <1>1, <1>3
  <1>5. j \in L /\ j \notin B[j] /\ B[j] \subseteq B[k]
    BY <1>1 DEF Ordering
  <1>6. ASSUME NEW x \in B[k], x # j PROVE x \in B[j]
    <2>1. x \in B[j] \/ j \in B[x]
      BY <1>4, <1>5, <1>6 DEF Ordering
    <2>2. j \notin B[x]
      BY <1>1, <1>4, <1>5
    <2> QED  BY <2>1, <2>2
  <1>7. B[k] = B[j] \cup {j}
    BY <1>5, <1>6
  <1>8. IsFiniteSet(B[j])
    BY <1>5, RankIs
  <1>9. Cardinality(B[j] \cup {j}) = Cardinality(B[j]) + 1
    BY <1>5, <1>8, FS_AddElement
  <1> QED  BY <1>7, <1>9

\* The numbers of what is before have no gaps.
LEMMA NoGap ==
    ASSUME NEW L, NEW B, Ordering(L, B), NEW i \in L, NEW n \in Nat,
           n <= Cardinality(B[i])
    PROVE  \E k \in L : Cardinality(B[k]) = n
  <1> DEFINE r(x) == Cardinality(B[x])
             T == {m \in Nat : m >= n /\ \E k \in L : r(k) = m}
  <1>1. \A x \in L : r(x) \in Nat
    BY RankIs
  <1>2. T \in SUBSET Nat /\ T # {}
    <2>1. r(i) \in T
      BY <1>1
    <2> QED  BY <2>1
  <1>3. PICK m \in T : \A x \in T : m <= x
    BY <1>2, LeastNatural
  <1>4. PICK k \in L : r(k) = m
    BY <1>3
  <1>5. CASE m = n
    BY <1>4, <1>5
  <1>6. CASE m # n
    <2>1. m \in Nat /\ m > n
      BY <1>6
    <2>2. B[k] # {}
      BY <1>4, <2>1, FS_EmptySet
    <2>3. PICK j \in B[k] : Cardinality(B[k]) = Cardinality(B[j]) + 1
      BY <2>2, Predecessor
    <2>4. j \in L
      BY RankIs
    <2>5. r(j) \in Nat /\ r(j) >= n /\ r(j) < m
      BY <1>1, <1>4, <2>1, <2>3, <2>4
    <2> QED  BY <1>3, <2>4, <2>5
  <1> QED  BY <1>5, <1>6

\* A page behind which there is something is full.
LEMMA FullPage ==
    ASSUME NEW L, NEW B, Ordering(L, B), NEW i \in L, NEW a \in Nat, NEW p \in Nat \ {0},
           a + p <= Cardinality(B[i]), NEW P, P \subseteq L,
           \A k \in L : a <= Cardinality(B[k]) /\ Cardinality(B[k]) < a + p => k \in P
    PROVE  Cardinality(P) \in Nat /\ Cardinality(P) >= p
  <1> DEFINE r(x) == Cardinality(B[x])
             S == a .. (a + p - 1)
             f == [n \in S |-> CHOOSE k \in L : r(k) = n]
  <1>1. \A x \in L : r(x) \in Nat
    BY RankIs
  <1>2. ASSUME NEW n \in S PROVE f[n] \in L /\ r(f[n]) = n
    <2>1. n \in Nat /\ n <= r(i)
      BY <1>1
    <2>2. \E k \in L : r(k) = n
      BY <2>1, NoGap
    <2> QED  BY <2>2
  <1>3. ASSUME NEW n \in S PROVE f[n] \in P
    <2>1. a <= n /\ n < a + p
      OBVIOUS
    <2> QED  BY <1>2, <2>1
  <1> HIDE DEF f
  <1>4. f \in [S -> P]
    BY <1>3 DEF f
  <1>5. \A m, n \in S : f[m] = f[n] => m = n
    BY <1>2
  <1>6. f \in Injection(S, P)
    BY <1>4, <1>5 DEF Injection, IsInjective
  <1>7. IsFiniteSet(P)
    BY FS_Subset DEF Ordering
  <1>8. Cardinality(S) <= Cardinality(P)
    BY <1>6, <1>7, FS_Injection DEF ExistsInjection
  <1>9. Cardinality(S) = p
    <2> DEFINE e == a + p - 1
    <2>1. e \in Int /\ a \in Int /\ e >= a /\ e - a + 1 = p
      OBVIOUS
    <2> HIDE DEF e
    <2>2. Cardinality(a .. e) = IF a > e THEN 0 ELSE e - a + 1
      BY <2>1, FS_Interval
    <2> QED  BY <2>1, <2>2 DEF e
  <1> QED  BY <1>7, <1>8, <1>9, FS_CardinalityType
-----------------------------------------------------------------------------
(***************************************************************************)
(* Types, and the status "running".                                        *)
(***************************************************************************)
LEMMA IdleSyncType ==
    IdleSync \in SyncState /\ [IdleSync EXCEPT !.pc = "dead"] \in SyncState
  BY DEF IdleSync, SyncState, SyncPlaces

\* What a sync has read of the repository when it is going to begin.
LEMMA ReadType ==
    ASSUME MirrorTypes, NEW s \in Syncs, NEW full \in BOOLEAN
    PROVE  /\ Read(s, full) \in [Syncs -> SyncState]
           /\ \E w \in Nat : /\ w <= mirror.cursor
                            /\ Read(s, full) = [sync EXCEPT ![s].pc = "begin", ![s].saw = w]
  <1> DEFINE w == IF full THEN 0 ELSE mirror.cursor
  <1>1. w \in Nat /\ w <= mirror.cursor
    BY DEF MirrorTypes
  <1>2. Read(s, full) = [sync EXCEPT ![s].pc = "begin", ![s].saw = w]
    BY DEF Read
  <1> HIDE DEF w
  <1>3. Read(s, full) \in [Syncs -> SyncState]
    <2>1. sync \in [Syncs -> SyncState] /\ "begin" \in SyncPlaces
      BY DEF MirrorTypes, SyncPlaces
    <2> QED  BY <1>1, <1>2, <2>1 DEF SyncState
  <1> QED  BY <1>1, <1>2, <1>3

\* The action a step of the mirror is.
LEMMA MirrorSteps ==
    ASSUME SyncNext
    PROVE  \/ Passes \/ \E i \in Issues : Changes(i) \/ Vanishes(i) \/ AddFetch(i)
           \/ PollerTick \/ SyncOne \/ WebSync
           \/ AddStore \/ toggle \/ Restart
           \/ \E s \in Syncs :
                 Begin(s) \/ ListIssues(s) \/ ListFails(s) \/ Store(s) \/ FlushFails(s)
  BY DEF SyncNext, SyncStep

LEMMA TypesStep ==
    ASSUME MirrorTypes, SyncNext
    PROVE  MirrorTypes'
  <1> USE DEF MirrorTypes
  <1>0. "poller" \in Syncs /\ "web" \in Syncs
    BY DEF Syncs
  <1>1. CASE Passes
    BY <1>1 DEF Passes
  <1>2. ASSUME NEW i \in Issues, Changes(i) PROVE MirrorTypes'
    <2>1. forge' \in [Issues -> [version : Nat, at : Nat]]
      <3>1. Second(now) \in Nat
        BY DEF Second
      <3>2. forge[i].version + 1 \in Nat
        OBVIOUS
      <3> QED  BY <1>2, <3>1, <3>2 DEF Changes
    <2>2. excused' \in BOOLEAN
      BY <1>2 DEF Changes
    <2> QED  BY <1>2, <2>1, <2>2 DEF Changes
  <1>3. ASSUME NEW i \in Issues, Vanishes(i) PROVE MirrorTypes'
    <2>1. forge' \in [Issues -> [version : Nat, at : Nat]]
      BY <1>3 DEF Vanishes
    <2>2. excused' \in BOOLEAN
      BY <1>3 DEF Vanishes
    <2> QED  BY <1>3, <2>1, <2>2 DEF Vanishes
  <1>4. ASSUME NEW i \in Issues, AddFetch(i) PROVE MirrorTypes'
    <2>1. i \in Nat
      BY DEF Issues
    <2> QED  BY <1>4, <2>1 DEF AddFetch
  <1>5. CASE PollerTick
    <2>1. sync' \in [Syncs -> SyncState]
      BY <1>0, <1>5, SMTT(30) DEF PollerTick, SyncGo, SyncState, SyncPlaces
    <2> QED  BY <1>5, <2>1 DEF PollerTick
  <1>6. CASE SyncOne
    <2>1. sync' \in [Syncs -> SyncState]
      <3>1. CASE sync' = Quit("poller")
        BY <1>0, <3>1, IdleSyncType DEF Quit
      <3>2. CASE sync' = Read("poller", FullTurn)
        <4>1. FullTurn \in BOOLEAN
          BY DEF FullTurn
        <4> QED  BY <1>0, <3>2, <4>1, ReadType
      <3> QED  BY <1>6, <3>1, <3>2 DEF SyncOne
    <2> QED  BY <1>6, <2>1 DEF SyncOne
  <1>7. CASE WebSync
    <2>1. sync' \in [Syncs -> SyncState]
      BY <1>0, <1>7, ReadType DEF WebSync
    <2> QED  BY <1>7, <2>1 DEF WebSync
  <1>8. CASE AddStore
    <2>1. add' \in [pc : {"idle", "store"}, issue : Nat, version : Nat] /\ add'.pc = "idle"
      BY <1>8 DEF AddStore, NoAdd
    <2>2. row' \in [Issues -> Nat]
      BY <1>8 DEF AddStore
    <2>3. excused' \in BOOLEAN
      BY <1>8 DEF AddStore
    <2> QED  BY <1>8, <2>1, <2>2, <2>3 DEF AddStore
  <1>9. CASE toggle
    BY <1>9 DEF toggle
  <1>10. CASE Restart
    <2>1. sync' \in [Syncs -> SyncState]
      BY <1>10, IdleSyncType DEF Restart
    <2>2. add' \in [pc : {"idle", "store"}, issue : Nat, version : Nat] /\ add'.pc = "idle"
      BY <1>10 DEF Restart, NoAdd
    <2>3. lost' \in BOOLEAN
      BY <1>10 DEF Restart
    <2> QED  BY <1>10, <2>1, <2>2, <2>3 DEF Restart
  <1>11. ASSUME NEW s \in Syncs, Begin(s) PROVE MirrorTypes'
    <2>1. sync' \in [Syncs -> SyncState]
      <3> DEFINE r == [sync[s] EXCEPT !.pc = "list", !.started = now]
      <3>1. sync[s] \in SyncState /\ now \in Nat
        OBVIOUS
      <3>2. r \in SyncState
        BY <3>1 DEF SyncState, SyncPlaces
      <3>3. sync' = [sync EXCEPT ![s] = r]
        BY <1>11 DEF Begin
      <3> HIDE DEF r
      <3> QED  BY <3>2, <3>3
    <2>2. excused' \in BOOLEAN
      BY <1>11 DEF Begin
    <2> QED  BY <1>11, <2>1, <2>2 DEF Begin
  <1>12. ASSUME NEW s \in Syncs, ListIssues(s) PROVE MirrorTypes'
    <2> DEFINE G == [i \in Issues |-> IF i \in IssuePage(s) \cap Since(s)
                                      THEN forge[i].version ELSE sync[s].got[i]]
               p == IF LastPage(s) THEN 1 ELSE sync[s].page + 1
               c == IF LastPage(s) THEN "store" ELSE "list"
    <2>1. G \in [Issues -> Nat] /\ p \in Nat \ {0} /\ c \in SyncPlaces
      BY DEF SyncState, SyncPlaces
    <2>2. sync' = [sync EXCEPT ![s].got = G, ![s].page = p, ![s].pc = c]
      BY <1>12 DEF ListIssues
    <2> HIDE DEF G, p, c
    <2>3. sync' \in [Syncs -> SyncState]
      <3> DEFINE r == [sync[s] EXCEPT !.got = G, !.page = p, !.pc = c]
      <3>1. sync[s] \in SyncState
        OBVIOUS
      <3>2. r \in SyncState
        BY <2>1, <3>1 DEF SyncState
      <3>3. sync' = [sync EXCEPT ![s] = r]
        BY <2>2
      <3> HIDE DEF r
      <3> QED  BY <3>2, <3>3
    <2> QED  BY <1>12, <2>3 DEF ListIssues
  <1>13. ASSUME NEW s \in Syncs, ListFails(s) PROVE MirrorTypes'
    <2>1. sync' \in [Syncs -> SyncState]
      BY <1>13, IdleSyncType DEF ListFails, Quit
    <2> QED  BY <1>13, <2>1 DEF ListFails
  <1>14. ASSUME NEW s \in Syncs, Store(s) PROVE MirrorTypes'
    <2>1. sync' \in [Syncs -> SyncState]
      BY <1>14, IdleSyncType DEF Store, Quit
    <2>2. row' \in [Issues -> Nat] /\ Cursor(s) \in Nat
      BY <1>14 DEF Store, Cursor, SyncState
    <2> QED  BY <1>14, <2>1, <2>2 DEF Store
  <1>15. ASSUME NEW s \in Syncs, FlushFails(s) PROVE MirrorTypes'
    <2>1. sync' \in [Syncs -> SyncState]
      BY <1>15, IdleSyncType DEF FlushFails, Quit
    <2>2. lost' \in BOOLEAN
      BY <1>15 DEF FlushFails
    <2> QED  BY <1>15, <2>1, <2>2 DEF FlushFails
  <1> QED  BY <1>1, <1>2, <1>3, <1>4, <1>5, <1>6, <1>7, <1>8, <1>9, <1>10, <1>11, <1>12,
              <1>13, <1>14, <1>15, MirrorSteps

LEMMA TypesInit ==
    ASSUME SyncInit
    PROVE  MirrorTypes
  <1>1. sync \in [Syncs -> SyncState]
    BY IdleSyncType DEF SyncInit
  <1>2. add \in [pc : {"idle", "store"}, issue : Nat, version : Nat] /\ add.pc = "idle"
    BY DEF SyncInit, NoAdd
  <1> QED  BY <1>1, <1>2 DEF SyncInit, MirrorTypes

\* Every variable of the mirror keeps its type, whatever the bounds.
THEOREM MirrorTypesHold == SyncSpec => []MirrorTypes
  <1>1. MirrorTypes /\ UNCHANGED syncVars => MirrorTypes'
    BY DEF MirrorTypes, syncVars
  <1> QED  BY <1>1, TypesInit, TypesStep, PTL DEF SyncSpec

\* A status that is "running" is nobody's fault but that of a lost sync.
LEMMA RunningStep ==
    ASSUME MirrorTypes, RunningIsSyncing, SyncNext
    PROVE  RunningIsSyncing'
  <1>0. "poller" \in Syncs /\ "web" \in Syncs /\ sync \in [Syncs -> SyncState]
    BY DEF Syncs, MirrorTypes
  <1>1. ASSUME UNCHANGED <<lost, sync>>,
               mirror'.status = "running" => mirror.status = "running"
        PROVE  RunningIsSyncing'
    BY <1>1 DEF RunningIsSyncing, Syncing
  <1>2. ASSUME UNCHANGED lost, mirror'.status = "running" => mirror.status = "running",
               NEW s \in Syncs, ~Syncing(s) \/ Syncing(s)',
               \A r \in Syncs \ {s} : sync'[r] = sync[r]
        PROVE  RunningIsSyncing'
    <2>1. \A r \in Syncs : Syncing(r) => Syncing(r)'
      BY <1>2 DEF Syncing
    <2> QED  BY <1>2, <2>1 DEF RunningIsSyncing
  <1>3. ASSUME mirror'.status # "running" PROVE RunningIsSyncing'
    BY <1>3 DEF RunningIsSyncing
  <1>4. CASE Passes
    BY <1>1, <1>4 DEF Passes
  <1>5. ASSUME NEW i \in Issues, Changes(i) PROVE RunningIsSyncing'
    BY <1>1, <1>5 DEF Changes
  <1>6. ASSUME NEW i \in Issues, Vanishes(i) PROVE RunningIsSyncing'
    BY <1>1, <1>6 DEF Vanishes
  <1>7. ASSUME NEW i \in Issues, AddFetch(i) PROVE RunningIsSyncing'
    BY <1>1, <1>7 DEF AddFetch
  <1>8. CASE PollerTick
    <2>1. ~Syncing("poller") /\ \A r \in Syncs \ {"poller"} : sync'[r] = sync[r]
      BY <1>0, <1>8 DEF PollerTick, SyncAt, SyncGo, Syncing
    <2> QED  BY <1>0, <1>2, <1>8, <2>1 DEF PollerTick
  <1>9. CASE SyncOne
    <2>1. ~Syncing("poller")
      BY <1>9 DEF SyncOne, SyncAt, Syncing
    <2>2. \A r \in Syncs \ {"poller"} : sync'[r] = sync[r]
      BY <1>0, <1>9 DEF SyncOne, Quit, Read
    <2> QED  BY <1>0, <1>2, <1>9, <2>1, <2>2 DEF SyncOne
  <1>10. CASE WebSync
    <2>1. ~Syncing("web")
      BY <1>10 DEF WebSync, SyncAt, Syncing
    <2>2. \A r \in Syncs \ {"web"} : sync'[r] = sync[r]
      BY <1>0, <1>10 DEF WebSync, Read
    <2> QED  BY <1>0, <1>2, <1>10, <2>1, <2>2 DEF WebSync
  <1>11. CASE AddStore
    BY <1>1, <1>11 DEF AddStore
  <1>12. CASE toggle
    BY <1>3, <1>12 DEF toggle, MirrorTypes
  <1>13. CASE Restart
    BY <1>3, <1>13 DEF Restart, MirrorTypes
  <1>14. ASSUME NEW s \in Syncs, Begin(s) PROVE RunningIsSyncing'
    <2>1. Syncing(s)'
      BY <1>0, <1>14 DEF Begin, Syncing, SyncState
    <2> QED  BY <2>1 DEF RunningIsSyncing
  <1>15. ASSUME NEW s \in Syncs, ListIssues(s) PROVE RunningIsSyncing'
    <2>1. sync'[s].pc = IF LastPage(s) THEN "store" ELSE "list"
      BY <1>0, <1>15 DEF ListIssues, SyncState
    <2>2. Syncing(s)'
      BY <2>1 DEF Syncing
    <2> QED  BY <2>2 DEF RunningIsSyncing
  <1>16. ASSUME NEW s \in Syncs, ListFails(s) PROVE RunningIsSyncing'
    BY <1>3, <1>16 DEF ListFails, MirrorTypes
  <1>17. ASSUME NEW s \in Syncs, Store(s) PROVE RunningIsSyncing'
    BY <1>3, <1>17 DEF Store, MirrorTypes
  <1>18. ASSUME NEW s \in Syncs, FlushFails(s) PROVE RunningIsSyncing'
    <2>1. CASE SyncAt(s, "store")
      <3>1. lost'
        BY <1>18, <2>1 DEF FlushFails
      <3> QED  BY <3>1 DEF RunningIsSyncing
    <2>2. CASE ~SyncAt(s, "store")
      <3>1. ~Syncing(s)
        BY <1>18, <2>2 DEF FlushFails, SyncAt, Syncing
      <3>2. \A r \in Syncs \ {s} : sync'[r] = sync[r]
        BY <1>0, <1>18 DEF FlushFails, Quit
      <3>3. lost' = (lost \/ FALSE) /\ lost \in BOOLEAN
        BY <1>18, <2>2 DEF FlushFails, MirrorTypes
      <3>4. lost' = lost
        BY <3>3
      <3> QED  BY <1>2, <1>18, <3>1, <3>2, <3>4 DEF FlushFails
    <2> QED  BY <2>1, <2>2
  <1> QED  BY <1>4, <1>5, <1>6, <1>7, <1>8, <1>9, <1>10, <1>11, <1>12, <1>13, <1>14, <1>15,
              <1>16, <1>17, <1>18, MirrorSteps

\* sync_status is "running" only while a sync is at work or after one whose flush
\* failed, which the poller, the sync button and the switch of the repository rely
\* on, for any number of issues, any size of a page and any disturbances.
THEOREM RunningMeansSyncing == SyncSpec => []RunningIsSyncing
  <1>1. SyncInit => RunningIsSyncing
    BY DEF SyncInit, RunningIsSyncing
  <1>2. RunningIsSyncing /\ UNCHANGED syncVars => RunningIsSyncing'
    BY DEF RunningIsSyncing, Syncing, syncVars
  <1> QED  BY <1>1, <1>2, MirrorTypesHold, RunningStep, PTL DEF SyncSpec
-----------------------------------------------------------------------------
(***************************************************************************)
(* The order of a listing.                                                 *)
(***************************************************************************)
\* The issues before each one in the listing of the sync s.
Earlier(s) == [i \in Listed(s) |-> {j \in Listed(s) : ListedBefore(s, j, i)}]

LEMMA IssuesFinite ==
    ASSUME NIssues \in Nat
    PROVE  IsFiniteSet(Issues) /\ Issues \subseteq Nat
  <1>1. IsFiniteSet(1 .. NIssues)
    BY FS_Interval
  <1> QED  BY <1>1 DEF Issues

\* Before is a total order of the issues, by the last update or by number.
LEMMA BeforeOrders ==
    ASSUME MirrorTypes, NIssues \in Nat, NEW s \in Syncs,
           NEW i \in Issues, NEW j \in Issues, NEW k \in Issues
    PROVE  /\ ~ListedBefore(s, i, i)
           /\ ListedBefore(s, i, j) /\ ListedBefore(s, j, k) => ListedBefore(s, i, k)
           /\ i = j \/ ListedBefore(s, i, j) \/ ListedBefore(s, j, i)
  <1>1. i \in Nat /\ j \in Nat /\ k \in Nat
    BY IssuesFinite
  <1>2. forge[i].at \in Nat /\ forge[j].at \in Nat /\ forge[k].at \in Nat
    BY DEF MirrorTypes
  <1> QED  BY <1>1, <1>2 DEF ListedBefore

LEMMA ListingIsOrdered ==
    ASSUME MirrorTypes, NIssues \in Nat, NEW s \in Syncs
    PROVE  /\ Ordering(Listed(s), Earlier(s))
           /\ \A i \in Listed(s) : Place(s, i) = Cardinality(Earlier(s)[i])
  <1> DEFINE L == Listed(s)
             B == Earlier(s)
  <1>1. L \subseteq Issues /\ IsFiniteSet(L)
    <2>1. L \subseteq Issues
      BY DEF Listed
    <2> QED  BY <2>1, IssuesFinite, FS_Subset
  <1>2. B \in [L -> SUBSET L]
    BY DEF Earlier
  <1>3. \A i, j \in L : j \in B[i] <=> ListedBefore(s, j, i)
    BY DEF Earlier
  <1>4. \A i \in L : Place(s, i) = Cardinality(B[i])
    BY DEF Earlier, Place
  <1> HIDE DEF L, B
  <1>5. \A i \in L : i \notin B[i]
    BY <1>1, <1>3, BeforeOrders
  <1>6. ASSUME NEW i \in L, NEW j \in L, j \in B[i] PROVE B[j] \subseteq B[i]
    <2>1. ASSUME NEW k \in B[j] PROVE k \in B[i]
      <3>1. k \in L
        BY <1>2
      <3> QED  BY <1>1, <1>3, <1>6, <2>1, <3>1, BeforeOrders
    <2> QED  BY <2>1
  <1>7. ASSUME NEW i \in L, NEW j \in L PROVE i = j \/ i \in B[j] \/ j \in B[i]
    BY <1>1, <1>3, BeforeOrders
  <1>8. Ordering(L, B)
    BY <1>1, <1>2, <1>5, <1>6, <1>7 DEF Ordering
  <1> QED  BY <1>4, <1>8 DEF L, B

LEMMA PlaceType ==
    ASSUME NIssues \in Nat, NEW s, NEW i
    PROVE  /\ IsFiniteSet({j \in Listed(s) : ListedBefore(s, j, i)})
           /\ Place(s, i) \in Nat
  <1>1. {j \in Listed(s) : ListedBefore(s, j, i)} \subseteq Issues
    BY DEF Listed
  <1>2. IsFiniteSet({j \in Listed(s) : ListedBefore(s, j, i)})
    BY <1>1, IssuesFinite, FS_Subset
  <1> QED  BY <1>2, FS_CardinalityType DEF Place

\* The place of an issue in a listing depends on the forge and on what the sync
\* has read of the repository.
LEMMA PlaceKept ==
    ASSUME NEW s \in Syncs, UNCHANGED <<provider, forge>>, sync'[s].saw = sync[s].saw
    PROVE  Since(s)' = Since(s) /\ \A i \in Issues : Place(s, i)' = Place(s, i)
  <1>1. Since(s)' = Since(s)
    BY DEF Since
  <1>2. Listed(s)' = Listed(s)
    BY <1>1 DEF Listed
  <1>3. ASSUME NEW i \in Issues, NEW j \in Issues
        PROVE  ListedBefore(s, j, i)' <=> ListedBefore(s, j, i)
    BY DEF ListedBefore
  <1>4. ASSUME NEW i \in Issues PROVE Place(s, i)' = Place(s, i)
    <2>1. \A j \in Listed(s) : j \in Issues
      BY DEF Listed
    <2>2. {j \in Listed(s)' : ListedBefore(s, j, i)'} = {j \in Listed(s) : ListedBefore(s, j, i)}
      BY <1>2, <1>3, <2>1
    <2> QED  BY <2>2 DEF Place
  <1> QED  BY <1>1, <1>4

\* An issue that changes moves to the front: those that do not change move back.
LEMMA PlaceRises ==
    ASSUME MirrorTypes, ClockKnown, NIssues \in Nat, NEW c \in Issues, Changes(c),
           NEW s \in Syncs, NEW i \in Issues, i # c
    PROVE  /\ forge'[i] = forge[i]
           /\ i \in Since(s) => i \in Since(s)'
           /\ Place(s, i)' \in Nat /\ Place(s, i) \in Nat
           /\ Place(s, i) <= Place(s, i)'
  <1>1. /\ \A j \in Issues : j # c => forge'[j] = forge[j]
        /\ forge'[c] = [version |-> forge[c].version + 1, at |-> Second(now)]
        /\ sync' = sync /\ provider' = provider
        /\ forge[c].version \in Nat /\ forge[c].version > 0
    BY DEF Changes, MirrorTypes
  <1>2. /\ \A j \in Issues : forge[j].at \in Nat /\ forge[j].at <= Second(now)
        /\ Second(now) \in Nat
        /\ sync[s].saw \in Nat
    BY DEF MirrorTypes, ClockKnown, SyncState, Second
  <1>3. forge'[c].version > 0 /\ forge'[c].at = Second(now)
    BY <1>1
  <1>4. Since(s) \subseteq Since(s)'
    <2>1. ASSUME NEW j \in Since(s) PROVE j \in Since(s)'
      <3>1. j \in Issues /\ forge[j].at >= sync[s].saw
        BY DEF Since
      <3>2. forge'[j].at >= sync[s].saw
        BY <1>1, <1>2, <1>3, <3>1
      <3> QED  BY <1>1, <3>1, <3>2 DEF Since
    <2> QED  BY <2>1
  <1>5. ASSUME NEW j \in Listed(s) PROVE j \in Listed(s)'
    <2>1. /\ j \in Issues /\ forge[j].version > 0
          /\ provider = "github" => j \in Since(s)
      BY DEF Listed
    <2>2. forge'[j].version > 0
      BY <1>1, <1>3, <2>1
    <2> QED  BY <1>1, <1>4, <2>1, <2>2 DEF Listed
  <1>6. ASSUME NEW j \in Issues, ListedBefore(s, j, i) PROVE ListedBefore(s, j, i)'
    <2>1. CASE j # c
      BY <1>1, <1>6, <2>1 DEF ListedBefore
    <2>2. CASE j = c
      <3>1. forge[i].at \in Nat /\ forge[i].at <= Second(now) /\ forge'[i] = forge[i]
        BY <1>1, <1>2
      <3>2. forge[c].at \in Nat /\ forge[c].at <= Second(now)
        BY <1>2
      <3>3. i \in Nat /\ c \in Nat
        BY IssuesFinite
      <3> QED  BY <1>1, <1>2, <1>3, <1>6, <2>2, <3>1, <3>2, <3>3 DEF ListedBefore
    <2> QED  BY <2>1, <2>2
  <1> DEFINE A == {j \in Listed(s) : ListedBefore(s, j, i)}
             Z == {j \in Listed(s)' : ListedBefore(s, j, i)'}
  <1>7. A \subseteq Z
    <2>1. \A j \in Listed(s) : j \in Issues
      BY DEF Listed
    <2> QED  BY <1>5, <1>6, <2>1
  <1>8. Place(s, i) = Cardinality(A) /\ Place(s, i)' = Cardinality(Z)
    BY DEF Place
  <1>9. IsFiniteSet(A) /\ IsFiniteSet(Z)
    <2>1. Z \subseteq Issues /\ A \subseteq Issues
      BY DEF Listed
    <2> QED  BY <2>1, IssuesFinite, FS_Subset
  <1> HIDE DEF A, Z
  <1>10. Cardinality(A) <= Cardinality(Z) /\ Cardinality(A) \in Nat /\ Cardinality(Z) \in Nat
    BY <1>7, <1>9, FS_Subset, FS_CardinalityType
  <1> QED  BY <1>1, <1>4, <1>8, <1>10

\* An issue of the listing that is on no page read so far is on this page or
\* behind it, and behind the last page there is nothing.
LEMMA BehindThePage ==
    ASSUME MirrorTypes, NIssues \in Nat, NEW s \in Syncs,
           NEW i \in Listed(s), i \in Since(s),
           Place(s, i) >= (sync[s].page - 1) * PER_PAGE, i \notin IssuePage(s)
    PROVE  ~LastPage(s) /\ Place(s, i) >= sync[s].page * PER_PAGE
  <1> DEFINE L == Listed(s)
             B == Earlier(s)
             n == sync[s].page
             a == (n - 1) * PER_PAGE
  <1>1. /\ Ordering(L, B) /\ \A k \in L : Place(s, k) = Cardinality(B[k])
        /\ \A k \in L : Place(s, k) \in Nat
    BY ListingIsOrdered, PlaceType
  <1>2. n \in Nat \ {0} /\ PER_PAGE \in Nat \ {0}
    BY PageAssumption DEF MirrorTypes, SyncState
  <1>3. \A k \in L : k \in IssuePage(s) <=> Place(s, k) \div PER_PAGE = n - 1
    BY DEF IssuePage
  <1>4. IssuePage(s) \subseteq L
    BY DEF IssuePage
  <1> HIDE DEF n
  <1>5. /\ a \in Nat /\ n * PER_PAGE = a + PER_PAGE
        /\ \A k \in L :
              k \in IssuePage(s) <=> a <= Place(s, k) /\ Place(s, k) < a + PER_PAGE
    <2>1. ASSUME NEW k \in L
          PROVE  k \in IssuePage(s) <=> a <= Place(s, k) /\ Place(s, k) < n * PER_PAGE
      <3> DEFINE x == Place(s, k)
      <3>1. x \in Nat /\ (k \in IssuePage(s) <=> x \div PER_PAGE = n - 1)
        BY <1>1, <1>3
      <3> HIDE DEF x
      <3>2. x \div PER_PAGE = n - 1 <=> (n - 1) * PER_PAGE <= x /\ x < n * PER_PAGE
        BY <1>2, <3>1, PageOfPlace
      <3> QED  BY <3>1, <3>2 DEF x
    <2>2. a \in Nat /\ n * PER_PAGE = a + PER_PAGE
      BY <1>2, PageOfPlace
    <2> QED  BY <2>1, <2>2
  <1>6. Place(s, i) >= a + PER_PAGE
    BY <1>1, <1>2, <1>5 DEF n
  <1> HIDE DEF a, L, B
  <1>7. i \in L
    BY DEF L
  <1>8. ASSUME provider = "github" PROVE ~LastPage(s)
    <2>1. ~(Place(s, i) < n * PER_PAGE)
      BY <1>1, <1>2, <1>5, <1>6, <1>7
    <2> QED  BY <1>7, <1>8, <2>1 DEF LastPage, n, L
  <1>9. IssuePage(s) \subseteq Since(s) \/ provider = "github"
    <2>1. SUFFICES ASSUME NEW k \in IssuePage(s), k \notin Since(s), provider # "github"
                   PROVE  FALSE
      OBVIOUS
    <2>2. k \in L /\ k \in Issues /\ i \in Issues /\ provider = "gitcode"
      BY <1>4, <1>7, <2>1 DEF L, Listed, MirrorTypes
    <2>3. forge[k].at \in Nat /\ forge[i].at \in Nat /\ sync[s].saw \in Nat
      BY <2>2 DEF MirrorTypes, SyncState
    <2>4. forge[k].at < sync[s].saw /\ sync[s].saw <= forge[i].at
      BY <2>1, <2>2, <2>3 DEF Since
    <2>5. ListedBefore(s, i, k)
      BY <2>2, <2>3, <2>4 DEF ListedBefore
    <2>6. i \in B[k]
      BY <1>7, <2>2, <2>5 DEF B, L, Earlier
    <2>7. Place(s, i) < Place(s, k)
      BY <1>1, <2>2, <2>6, RankIs
    <2>8. Place(s, k) < a + PER_PAGE
      BY <1>5, <2>1, <2>2
    <2> QED  BY <1>1, <1>2, <1>5, <1>6, <1>7, <2>2, <2>7, <2>8
  <1>10. Cardinality(IssuePage(s)) \in Nat /\ Cardinality(IssuePage(s)) >= PER_PAGE
    <2> DEFINE P == IssuePage(s)
    <2>1. \A k \in L : a <= Cardinality(B[k]) /\ Cardinality(B[k]) < a + PER_PAGE => k \in P
      BY <1>1, <1>5
    <2>2. a + PER_PAGE <= Cardinality(B[i])
      BY <1>1, <1>2, <1>5, <1>6, <1>7
    <2>3. Ordering(L, B) /\ a \in Nat /\ PER_PAGE \in Nat \ {0} /\ P \subseteq L
      BY <1>1, <1>2, <1>4, <1>5
    <2> HIDE DEF P
    <2>4. Cardinality(P) \in Nat /\ Cardinality(P) >= PER_PAGE
      BY <1>7, <2>1, <2>2, <2>3, FullPage
    <2> QED  BY <2>4 DEF P
  <1>11. ~LastPage(s)
    BY <1>2, <1>8, <1>9, <1>10 DEF LastPage
  <1> QED  BY <1>5, <1>6, <1>11 DEF n
-----------------------------------------------------------------------------
(***************************************************************************)
(* What is known of the clock, of a sync that does not list, and of a      *)
(* single issue.                                                           *)
(***************************************************************************)
SameButPlace(s) ==
    /\ sync'[s].page = sync[s].page /\ sync'[s].got = sync[s].got
    /\ sync'[s].saw = sync[s].saw

\* A sync that has ended, and the poller after a failed flush.
Ended == {IdleSync, [IdleSync EXCEPT !.pc = "dead"]}
Dead(s) == [sync EXCEPT ![s] = [IdleSync EXCEPT !.pc = "dead"]]

\* What a step does to a sync.
SyncMoves(s) ==
    \/ sync'[s] = sync[s]
    \/ sync'[s] \in Ended
    \/ /\ sync[s].pc \in {"idle", "picked"} /\ sync'[s].pc \in {"picked", "begin"}
       /\ sync'[s].pc = "begin" => sync'[s].saw <= mirror.cursor
       /\ sync'[s].page = sync[s].page /\ sync'[s].got = sync[s].got
       /\ sync'[s].started = sync[s].started
    \/ /\ sync[s].pc = "begin" /\ sync'[s].pc = "list" /\ SameButPlace(s)
       /\ sync'[s].started = now
    \/ /\ sync[s].pc = "list" /\ sync'[s].pc \in {"list", "store"}
       /\ sync'[s].started = sync[s].started /\ sync'[s].saw = sync[s].saw

LEMMA StepMovesSyncs ==
    ASSUME MirrorTypes, SyncNext, NEW r \in Syncs
    PROVE  SyncMoves(r)
  <1> USE DEF SyncMoves, Ended
  <1>0. "poller" \in Syncs /\ "web" \in Syncs /\ sync \in [Syncs -> SyncState]
    BY DEF Syncs, MirrorTypes
  <1>1. ASSUME NEW s \in Syncs, sync' = Quit(s) PROVE SyncMoves(r)
    BY <1>0, <1>1 DEF Quit
  <1>2. ASSUME NEW s \in Syncs, NEW full \in BOOLEAN, sync[s].pc \in {"idle", "picked"},
               sync' = Read(s, full)
        PROVE  SyncMoves(r)
    <2>1. PICK w \in Nat : /\ w <= mirror.cursor
                           /\ sync' = [sync EXCEPT ![s].pc = "begin", ![s].saw = w]
      BY <1>2, ReadType
    <2> QED  BY <1>0, <1>2, <2>1 DEF SyncState
  <1>3. CASE UNCHANGED sync
    BY <1>3
  <1>4. CASE PollerTick
    BY <1>0, <1>4 DEF PollerTick, SyncAt, SyncGo, SyncState
  <1>5. CASE SyncOne
    <2>1. FullTurn \in BOOLEAN
      BY DEF FullTurn
    <2>2. sync' = Quit("poller") \/ sync' = Read("poller", FullTurn)
      BY <1>5 DEF SyncOne
    <2>3. sync["poller"].pc = "picked"
      BY <1>5 DEF SyncOne, SyncAt
    <2> QED  BY <1>0, <1>1, <1>2, <2>1, <2>2, <2>3
  <1>6. CASE WebSync
    BY <1>0, <1>2, <1>6 DEF WebSync, SyncAt
  <1>7. CASE Restart
    BY <1>7 DEF Restart
  <1>8. ASSUME NEW s \in Syncs, Begin(s) PROVE SyncMoves(r)
    BY <1>0, <1>8 DEF Begin, SyncAt, SameButPlace, SyncState
  <1>9. ASSUME NEW s \in Syncs, ListIssues(s) PROVE SyncMoves(r)
    <2> DEFINE G == [i \in Issues |-> IF i \in IssuePage(s) \cap Since(s)
                                      THEN forge[i].version ELSE sync[s].got[i]]
               p == IF LastPage(s) THEN 1 ELSE sync[s].page + 1
               c == IF LastPage(s) THEN "store" ELSE "list"
    <2>1. sync' = [sync EXCEPT ![s].got = G, ![s].page = p, ![s].pc = c] /\ sync[s].pc = "list"
      BY <1>9 DEF ListIssues, SyncAt
    <2>2. c \in {"list", "store"}
      OBVIOUS
    <2> HIDE DEF G, p, c
    <2> QED  BY <1>0, <2>1, <2>2 DEF SyncState
  <1>10. ASSUME NEW s \in Syncs, FlushFails(s) PROVE SyncMoves(r)
    <2>1. sync' = Quit(s) \/ sync' = Dead(s)
      BY <1>10 DEF FlushFails, Dead
    <2> QED  BY <1>0, <1>1, <2>1 DEF Dead
  <1> QED  BY <1>1, <1>3, <1>4, <1>5, <1>6, <1>7, <1>8, <1>9, <1>10, MirrorSteps
           DEF Passes, Changes, Vanishes, AddFetch, AddStore, toggle, ListFails, Store

LEMMA FreshStep ==
    ASSUME MirrorTypes, SyncNext, NEW s \in Syncs, Fresh(s)
    PROVE  Fresh(s)'
  <1>1. SyncMoves(s)
    BY StepMovesSyncs
  <1>2. /\ IdleSync.page = 1 /\ IdleSync.got = [i \in Issues |-> 0]
        /\ [IdleSync EXCEPT !.pc = "dead"].page = 1
        /\ [IdleSync EXCEPT !.pc = "dead"].got = [i \in Issues |-> 0]
    BY DEF IdleSync
  <1> QED  BY <1>1, <1>2 DEF SyncMoves, SameButPlace, Fresh, Ended

LEMMA Seconds ==
    ASSUME NEW m \in Nat, NEW n \in Nat, m <= n
    PROVE  Second(m) \in Nat /\ Second(m) <= m /\ Second(m) <= Second(n)
  BY DEF Second

LEMMA ClockStep ==
    ASSUME MirrorTypes, ClockKnown, SyncNext
    PROVE  ClockKnown'
  <1>1. /\ now \in Nat /\ now' \in Nat /\ now <= now'
        /\ \/ mirror'.cursor = mirror.cursor
           \/ \E s \in Syncs : mirror'.cursor = sync[s].started
    <2>1. /\ now \in Nat /\ now' \in Nat /\ now <= now'
      <3>1. now' = now \/ now' = now + 1
        BY MirrorSteps DEF Passes, Changes, Vanishes, AddFetch, PollerTick, SyncOne,
           WebSync, AddStore, toggle, Restart, Begin, ListIssues, ListFails, Store, FlushFails
      <3>2. now \in Nat
        BY DEF MirrorTypes
      <3> QED  BY <3>1, <3>2
    <2>2. CASE UNCHANGED mirror
      BY <2>1, <2>2
    <2>3. CASE toggle \/ Restart \/ \E s \in Syncs : Begin(s) \/ ListFails(s)
      BY <2>1, <2>3 DEF MirrorTypes, toggle, Restart, Begin, ListFails
    <2>4. CASE \E s \in Syncs : Store(s)
      BY <2>1, <2>4 DEF MirrorTypes, Store, Cursor
    <2> QED  BY <2>2, <2>3, <2>4, MirrorSteps DEF Passes, Changes, Vanishes, AddFetch,
                PollerTick, SyncOne, WebSync, AddStore, ListIssues, FlushFails
  <1>2. /\ mirror.cursor \in Nat /\ mirror.cursor <= now
        /\ \A s \in Syncs : sync[s].started \in Nat /\ sync[s].started <= now
    BY DEF MirrorTypes, SyncState, ClockKnown
  <1>3. mirror'.cursor <= now'
    BY <1>1, <1>2
  <1>4. ASSUME NEW s \in Syncs PROVE sync'[s].started <= now'
    <2>1. IdleSync.started = 0 /\ [IdleSync EXCEPT !.pc = "dead"].started = 0
      BY DEF IdleSync
    <2>2. sync'[s].started \in {sync[s].started, now, 0}
      BY <2>1, StepMovesSyncs DEF SyncMoves, Ended
    <2> QED  BY <1>1, <1>2, <2>2
  <1>5. ASSUME NEW i \in Issues PROVE forge'[i].at <= Second(now')
    <2>1. forge'[i].at = forge[i].at \/ forge'[i].at = Second(now)
      <3>1. CASE UNCHANGED forge
        BY <3>1
      <3>2. CASE \E c \in Issues : Changes(c) \/ Vanishes(c)
        BY <3>2 DEF MirrorTypes, Changes, Vanishes
      <3> QED  BY <3>1, <3>2, MirrorSteps DEF Passes, AddFetch, PollerTick, SyncOne,
         WebSync, AddStore, toggle, Restart, Begin, ListIssues, ListFails, Store, FlushFails
    <2>2. forge[i].at \in Nat /\ forge[i].at <= Second(now)
      BY DEF MirrorTypes, ClockKnown
    <2>3. Second(now) \in Nat /\ Second(now') \in Nat /\ Second(now) <= Second(now')
      BY <1>1, Seconds
    <2> QED  BY <2>1, <2>2, <2>3
  <1> QED  BY <1>3, <1>4, <1>5 DEF ClockKnown, Second

\* Issues grow newer or vanish.
LEMMA AddKnownStep ==
    ASSUME MirrorTypes, AddKnown, SyncNext
    PROVE  AddKnown'
  <1>1. ASSUME add'.pc = "idle" PROVE AddKnown'
    BY <1>1 DEF AddKnown
  <1>2. CASE UNCHANGED <<add, forge>>
    BY <1>2 DEF AddKnown
  <1>3. ASSUME NEW c \in Issues, Changes(c) PROVE AddKnown'
    <2>1. SUFFICES ASSUME add.pc = "store"
                   PROVE  \/ forge'[add.issue].version = 0
                          \/ add.version <= forge'[add.issue].version
      BY <1>3 DEF AddKnown, Changes
    <2>2. add.issue \in Issues /\ add.version \in Nat /\ forge[add.issue].version \in Nat
      BY <2>1 DEF MirrorTypes
    <2>3. forge[add.issue].version = 0 \/ add.version <= forge[add.issue].version
      BY <2>1 DEF AddKnown
    <2>4. CASE add.issue # c
      <3>1. forge'[add.issue] = forge[add.issue]
        BY <1>3, <2>2, <2>4 DEF Changes, MirrorTypes
      <3> QED  BY <2>3, <3>1
    <2>5. CASE add.issue = c
      <3>1. forge'[c].version = forge[c].version + 1 /\ forge[c].version # 0
        BY <1>3 DEF Changes, MirrorTypes
      <3> QED  BY <2>2, <2>3, <2>5, <3>1
    <2> QED  BY <2>4, <2>5
  <1>4. ASSUME NEW c \in Issues, Vanishes(c) PROVE AddKnown'
    <2>1. SUFFICES ASSUME add.pc = "store"
                   PROVE  \/ forge'[add.issue].version = 0
                          \/ add.version <= forge'[add.issue].version
      BY <1>4 DEF AddKnown, Vanishes
    <2>2. add.issue \in Issues
      BY <2>1 DEF MirrorTypes
    <2>3. forge'[add.issue].version = 0 \/ forge'[add.issue] = forge[add.issue]
      BY <1>4, <2>2 DEF Vanishes, MirrorTypes
    <2> QED  BY <2>1, <2>3 DEF AddKnown
  <1>5. ASSUME NEW c \in Issues, AddFetch(c) PROVE AddKnown'
    BY <1>5 DEF AddFetch, AddKnown, MirrorTypes
  <1>6. CASE AddStore
    BY <1>1, <1>6 DEF AddStore, NoAdd
  <1>7. CASE Restart
    BY <1>1, <1>7 DEF Restart, NoAdd
  <1> QED  BY <1>2, <1>3, <1>4, <1>5, <1>6, <1>7, MirrorSteps DEF Passes, PollerTick,
              SyncOne,
              WebSync, toggle, Begin, ListIssues, ListFails, Store, FlushFails
-----------------------------------------------------------------------------
(***************************************************************************)
(* Nothing is lost from sight.                                             *)
(***************************************************************************)
\* What a sync knows depends on nothing but itself, the forge, the rows and the
\* cursor, which only moves on.
LEMMA SyncKnownKept ==
    ASSUME MirrorTypes, NEW s \in Syncs, SyncKnown(s), UNCHANGED <<provider, forge, row>>,
           sync'[s] = sync[s],
           \/ mirror'.cursor = mirror.cursor
           \/ ~Syncing(s) /\ mirror'.cursor \in Nat /\ mirror.cursor <= mirror'.cursor
    PROVE  SyncKnown(s)'
  <1>1. Since(s)' = Since(s) /\ \A i \in Issues : Place(s, i)' = Place(s, i)
    BY PlaceKept
  <1>2. ASSUME NEW i \in Issues, IssueKnown(s, i) PROVE IssueKnown(s, i)'
    BY <1>1, <1>2 DEF IssueKnown
  <1>3. Syncing(s)' <=> Syncing(s)
    BY DEF Syncing
  <1>4. ASSUME Syncing(s)
        PROVE  /\ mirror'.cursor <= sync'[s].started
               /\ \A i \in Issues : IssueKnown(s, i)'
    BY <1>2, <1>4 DEF SyncKnown
  <1>5. ASSUME sync[s].pc = "begin" PROVE sync[s].saw <= mirror'.cursor
    <2>1. sync[s].saw \in Nat /\ mirror.cursor \in Nat /\ sync[s].saw <= mirror.cursor
      BY <1>5 DEF MirrorTypes, SyncState, SyncKnown
    <2> QED  BY <2>1
  <1> QED  BY <1>3, <1>4, <1>5 DEF SyncKnown

\* A sync that ends, or has not begun to list, knows all there is to know.
LEMMA SyncUnbegun ==
    ASSUME NEW s \in Syncs, ~Syncing(s)',
           sync'[s].pc = "begin" => sync'[s].saw <= mirror'.cursor
    PROVE  SyncKnown(s)'
  BY DEF SyncKnown

LEMMA IdleUnbegun ==
    ASSUME NEW s \in Syncs, sync'[s] \in Ended
    PROVE  ~Syncing(s)' /\ SyncKnown(s)'
  <1>1. sync'[s].pc \in {"idle", "dead"}
    BY DEF Ended, IdleSync
  <1>2. ~Syncing(s)'
    BY <1>1 DEF Syncing
  <1> QED  BY <1>1, <1>2, SyncUnbegun

\* Steps that begin no listing, and touch neither the forge, the rows nor the cursor.
LEMMA QuietStep ==
    ASSUME MirrorTypes, Tracked,
           UNCHANGED <<provider, forge, row>>, mirror'.cursor = mirror.cursor,
           \A s \in Syncs :
              \/ sync'[s] = sync[s]
              \/ sync'[s] \in Ended
              \/ /\ sync'[s].pc \in {"picked", "begin"}
                 /\ sync'[s].pc = "begin" => sync'[s].saw <= mirror.cursor
    PROVE  Tracked'
  <1>1. StaleSince'
    BY DEF Tracked, StaleSince
  <1>2. ASSUME NEW s \in Syncs
        PROVE  SyncKnown(s)' /\ (Syncing(s)' => Syncing(s))
    <2>1. CASE sync'[s] = sync[s]
      BY <2>1, SyncKnownKept DEF Tracked, Syncing
    <2>2. CASE sync'[s] \in Ended
      BY <2>2, IdleUnbegun
    <2>3. CASE /\ sync'[s].pc \in {"picked", "begin"}
               /\ sync'[s].pc = "begin" => sync'[s].saw <= mirror.cursor
      <3>1. ~Syncing(s)'
        BY <2>3 DEF Syncing
      <3> QED  BY <2>3, <3>1, SyncUnbegun
    <2> QED  BY <2>1, <2>2, <2>3
  <1>3. OneSync'
    BY <1>2 DEF Tracked, OneSync
  <1> QED  BY <1>1, <1>2, <1>3 DEF Tracked

\* A change is newer than every start that is known.
LEMMA TrackedChanges ==
    ASSUME MirrorTypes, ClockKnown, NIssues \in Nat, Tracked,
           NEW c \in Issues, Changes(c),
           \A t \in Starts : ~(Second(now) < t)
    PROVE  Tracked'
  <1>1. /\ forge'[c].at = Second(now) /\ \A i \in Issues : i # c => forge'[i] = forge[i]
        /\ UNCHANGED <<provider, row, mirror, sync>>
    BY DEF Changes, MirrorTypes
  <1>2. Second(now) \in Nat
    BY Seconds DEF MirrorTypes
  <1>3. forge'[c].at >= mirror.cursor
    <2>1. mirror.cursor \in Starts /\ mirror.cursor \in Nat
      BY DEF Starts, MirrorTypes
    <2> QED  BY <1>1, <1>2, <2>1
  <1>4. ASSUME NEW s \in Syncs, Syncing(s) PROVE forge'[c].at >= sync[s].started
    <2>1. sync[s].started \in Starts /\ sync[s].started \in Nat
      BY <1>4 DEF Starts, MirrorTypes, SyncState
    <2> QED  BY <1>1, <1>2, <2>1
  <1>5. StaleSince'
    BY <1>1, <1>3 DEF Tracked, StaleSince
  <1>6. OneSync'
    BY <1>1 DEF Tracked, OneSync, Syncing
  <1>7. ASSUME NEW s \in Syncs, Syncing(s), NEW i \in Issues PROVE IssueKnown(s, i)'
    <2>1. CASE i = c
      BY <1>1, <1>4, <1>7, <2>1 DEF IssueKnown
    <2>2. CASE i # c
      <3>1. /\ forge'[i] = forge[i]
            /\ i \in Since(s) => i \in Since(s)'
            /\ Place(s, i)' \in Nat /\ Place(s, i) \in Nat
            /\ Place(s, i) <= Place(s, i)'
        BY <2>2, PlaceRises
      <3>2. IssueKnown(s, i)
        BY <1>7 DEF Tracked, SyncKnown
      <3>3. (sync[s].page - 1) * PER_PAGE \in Nat
        <4>1. sync[s].page \in Nat \ {0} /\ PER_PAGE \in Nat \ {0} /\ 0 \in Nat
          BY PageAssumption DEF MirrorTypes, SyncState
        <4> QED  BY <4>1, PageOfPlace
      <3>4. ASSUME Place(s, i) >= (sync[s].page - 1) * PER_PAGE
            PROVE  Place(s, i)' >= (sync'[s].page - 1) * PER_PAGE
        BY <1>1, <3>1, <3>3, <3>4
      <3> QED  BY <1>1, <3>1, <3>2, <3>4 DEF IssueKnown
    <2> QED  BY <2>1, <2>2
  <1>8. ASSUME NEW s \in Syncs PROVE SyncKnown(s)'
    <2>1. Syncing(s)' <=> Syncing(s)
      BY <1>1 DEF Syncing
    <2> QED  BY <1>1, <1>7, <2>1 DEF Tracked, SyncKnown
  <1> QED  BY <1>5, <1>6, <1>8 DEF Tracked

\* A listing that is complete does not miss what vanishes.
LEMMA TrackedVanishes ==
    ASSUME MirrorTypes, Tracked, NEW c \in Issues, Vanishes(c),
           \A s \in Syncs : ~SyncAt(s, "list")
    PROVE  Tracked'
  <1>1. /\ forge'[c].version = 0 /\ \A i \in Issues : i # c => forge'[i] = forge[i]
        /\ UNCHANGED <<provider, row, mirror, sync>>
    BY DEF Vanishes, MirrorTypes
  <1>2. StaleSince'
    BY <1>1 DEF Tracked, StaleSince
  <1>3. OneSync'
    BY <1>1 DEF Tracked, OneSync, Syncing
  <1>4. ASSUME NEW s \in Syncs, Syncing(s), NEW i \in Issues PROVE IssueKnown(s, i)'
    <2>1. IssueKnown(s, i) /\ sync[s].pc # "list"
      BY <1>4 DEF Tracked, SyncKnown, SyncAt
    <2> QED  BY <1>1, <2>1 DEF IssueKnown
  <1>5. ASSUME NEW s \in Syncs PROVE SyncKnown(s)'
    <2>1. Syncing(s)' <=> Syncing(s)
      BY <1>1 DEF Syncing
    <2> QED  BY <1>1, <1>4, <2>1 DEF Tracked, SyncKnown
  <1> QED  BY <1>2, <1>3, <1>5 DEF Tracked

\* A sync that begins knows by the cursor what it has to list.
LEMMA TrackedBegin ==
    ASSUME MirrorTypes, ClockKnown, NIssues \in Nat, Tracked, NEW s \in Syncs, Fresh(s),
           Begin(s), \A r \in Syncs \ {s} : ~Syncing(r)
    PROVE  Tracked'
  <1>1. /\ UNCHANGED <<provider, forge, row>> /\ mirror'.cursor = mirror.cursor
        /\ \A r \in Syncs : r # s => sync'[r] = sync[r]
        /\ sync[s].pc = "begin" /\ sync'[s].pc = "list" /\ sync'[s].started = now
        /\ sync'[s].saw = sync[s].saw /\ sync'[s].page = sync[s].page
        /\ sync'[s].got = sync[s].got
    BY DEF Begin, SyncAt, MirrorTypes, SyncState
  <1>2. StaleSince'
    BY <1>1 DEF Tracked, StaleSince
  <1>3. OneSync'
    <2>1. \A r \in Syncs : Syncing(r)' => r = s
      BY <1>1 DEF Syncing
    <2> QED  BY <2>1 DEF OneSync
  <1>4. ASSUME NEW i \in Issues PROVE IssueKnown(s, i)'
    <2>1. sync[s].page = 1 /\ sync[s].got[i] = 0
      BY <1>1 DEF Fresh
    <2>2. Place(s, i)' \in Nat
      <3>1. Place(s, i)' = Place(s, i)
        BY <1>1, PlaceKept
      <3> QED  BY <3>1, PlaceType
    <2>3. Place(s, i)' >= (sync'[s].page - 1) * PER_PAGE
      <3>1. (1 - 1) * PER_PAGE = 0
        BY PageAssumption
      <3>2. sync'[s].page = 1
        BY <1>1, <2>1
      <3> QED  BY <2>2, <3>1, <3>2
    <2>4. sync[s].saw <= mirror.cursor /\ sync[s].saw \in Nat /\ mirror.cursor \in Nat
      BY <1>1 DEF Tracked, SyncKnown, MirrorTypes, SyncState
    <2>5. forge[i].at \in Nat /\ forge[i].version \in Nat
      BY DEF MirrorTypes
    <2>6. ASSUME forge[i].at >= mirror.cursor PROVE i \in Since(s)'
      BY <1>1, <2>4, <2>5, <2>6 DEF Since
    <2>7. forge[i].version = 0 \/ row[i] = forge[i].version \/ forge[i].at >= mirror.cursor
      BY <2>5 DEF Tracked, StaleSince
    <2> QED  BY <1>1, <2>1, <2>3, <2>6, <2>7 DEF IssueKnown
  <1>5. ASSUME NEW r \in Syncs PROVE SyncKnown(r)'
    <2>1. CASE r = s
      BY <1>1, <1>4, <2>1 DEF SyncKnown, ClockKnown
    <2>2. CASE r # s
      BY <1>1, <2>2, SyncKnownKept DEF Tracked
    <2> QED  BY <2>1, <2>2
  <1> QED  BY <1>2, <1>3, <1>5 DEF Tracked

\* A page takes what is on it; what is left is behind it, and nothing is behind the last.
LEMMA TrackedListPage ==
    ASSUME MirrorTypes, NIssues \in Nat, Tracked, NEW s \in Syncs, ListIssues(s)
    PROVE  Tracked'
  <1> DEFINE G == [i \in Issues |-> IF i \in IssuePage(s) \cap Since(s)
                                    THEN forge[i].version ELSE sync[s].got[i]]
             p == IF LastPage(s) THEN 1 ELSE sync[s].page + 1
             c == IF LastPage(s) THEN "store" ELSE "list"
  <1>1. sync' = [sync EXCEPT ![s].got = G, ![s].page = p, ![s].pc = c] /\ sync[s].pc = "list"
    BY DEF ListIssues, SyncAt
  <1> HIDE DEF G, p, c
  <1>2. /\ UNCHANGED <<provider, forge, row, mirror>>
        /\ \A r \in Syncs : r # s => sync'[r] = sync[r]
        /\ sync'[s].pc = c /\ sync'[s].page = p /\ sync'[s].got = G
        /\ sync'[s].started = sync[s].started /\ sync'[s].saw = sync[s].saw
    <2>1. UNCHANGED <<provider, forge, row, mirror>>
      BY DEF ListIssues
    <2>2. sync \in [Syncs -> SyncState]
      BY DEF MirrorTypes
    <2> QED  BY <1>1, <2>1, <2>2 DEF SyncState
  <1>3. StaleSince'
    BY <1>2 DEF Tracked, StaleSince
  <1>4. Syncing(s)
    BY <1>1 DEF Syncing
  <1>5. OneSync'
    <2>1. \A r \in Syncs : Syncing(r)' => Syncing(r)
      BY <1>2, <1>4 DEF Syncing
    <2> QED  BY <2>1 DEF Tracked, OneSync
  <1>6. Since(s)' = Since(s) /\ \A i \in Issues : Place(s, i)' = Place(s, i)
    BY <1>2, PlaceKept
  <1>7. ASSUME NEW i \in Issues PROVE IssueKnown(s, i)'
    <2>1. IssueKnown(s, i)
      BY <1>4 DEF Tracked, SyncKnown
    <2>2. G[i] = IF i \in IssuePage(s) /\ i \in Since(s)
                 THEN forge[i].version ELSE sync[s].got[i]
      BY DEF G
    <2>3. CASE forge[i].version = 0 \/ forge[i].at >= sync[s].started
      BY <1>2, <2>3 DEF IssueKnown
    <2>4. CASE G[i] = forge[i].version
      BY <1>2, <2>4 DEF IssueKnown
    <2>5. CASE sync[s].got[i] = 0 /\ row[i] = forge[i].version /\ G[i] = sync[s].got[i]
      BY <1>2, <2>5 DEF IssueKnown
    <2>6. CASE /\ G[i] # forge[i].version /\ forge[i].version # 0 /\ sync[s].got[i] = 0
               /\ i \in Since(s) /\ Place(s, i) >= (sync[s].page - 1) * PER_PAGE
      <3>1. forge[i].version \in Nat
        BY DEF MirrorTypes
      <3>2. i \in Listed(s) /\ i \notin IssuePage(s) /\ G[i] = 0
        BY <2>2, <2>6, <3>1 DEF Listed
      <3>3. ~LastPage(s) /\ Place(s, i) >= sync[s].page * PER_PAGE
        BY <2>6, <3>2, BehindThePage
      <3>4. sync'[s].pc = "list" /\ sync'[s].page = sync[s].page + 1
        BY <1>2, <3>3 DEF p, c
      <3>5. sync'[s].page - 1 = sync[s].page
        BY <3>4 DEF MirrorTypes, SyncState
      <3>6. Place(s, i)' >= (sync'[s].page - 1) * PER_PAGE
        BY <1>6, <3>3, <3>5
      <3> QED  BY <1>2, <1>6, <2>6, <3>2, <3>4, <3>6 DEF IssueKnown
    <2> QED  BY <2>1, <2>2, <2>3, <2>4, <2>5, <2>6 DEF IssueKnown
  <1>8. ASSUME NEW r \in Syncs PROVE SyncKnown(r)'
    <2>1. CASE r = s
      <3>1. sync'[s].pc # "begin"
        BY <1>2 DEF c
      <3> QED  BY <1>2, <1>4, <1>7, <2>1, <3>1 DEF Tracked, SyncKnown
    <2>2. CASE r # s
      BY <1>2, <2>2, SyncKnownKept DEF Tracked
    <2> QED  BY <2>1, <2>2
  <1> QED  BY <1>3, <1>5, <1>8 DEF Tracked

\* What a sync that has listed everything does not store has not changed or
\* has changed after its start, which is the cursor from now on.
LEMMA TrackedStore ==
    ASSUME MirrorTypes, Tracked, NEW s \in Syncs, Store(s)
    PROVE  Tracked'
  <1>1. /\ UNCHANGED <<provider, forge>> /\ mirror'.cursor = sync[s].started
        /\ sync'[s] = IdleSync /\ sync[s].pc = "store"
        /\ \A r \in Syncs : r # s => sync'[r] = sync[r]
        /\ \A i \in Issues : row'[i] = IF sync[s].got[i] > 0 THEN sync[s].got[i] ELSE row[i]
    BY DEF Store, SyncAt, Cursor, Quit, Collected, MirrorTypes
  <1>2. Syncing(s) /\ mirror.cursor <= sync[s].started
    BY <1>1 DEF Syncing, Tracked, SyncKnown
  <1>3. \A r \in Syncs : r # s => ~Syncing(r) /\ ~Syncing(r)'
    BY <1>1, <1>2 DEF Tracked, OneSync, Syncing
  <1>4. ~Syncing(s)' /\ SyncKnown(s)'
    BY <1>1, IdleUnbegun DEF Ended
  <1>5. OneSync'
    BY <1>3, <1>4 DEF OneSync
  <1>6. ASSUME NEW r \in Syncs PROVE SyncKnown(r)'
    <2>1. CASE r # s
      <3>1. sync[r].pc = "begin" => sync[r].saw <= mirror.cursor
        BY DEF Tracked, SyncKnown
      <3>2. sync[r].saw \in Nat /\ mirror.cursor \in Nat /\ sync[s].started \in Nat
        BY DEF MirrorTypes, SyncState
      <3>3. sync'[r].pc = "begin" => sync'[r].saw <= mirror'.cursor
        BY <1>1, <1>2, <2>1, <3>1, <3>2
      <3> QED  BY <1>3, <2>1, <3>3, SyncUnbegun
    <2> QED  BY <1>4, <2>1
  <1>7. ASSUME NEW i \in Issues, forge[i].version > 0, row'[i] # forge[i].version
        PROVE  forge[i].at >= sync[s].started
    <2>1. IssueKnown(s, i)
      BY <1>2 DEF Tracked, SyncKnown
    <2>2. sync[s].got[i] \in Nat /\ forge[i].version \in Nat
      BY DEF MirrorTypes, SyncState
    <2> QED  BY <1>1, <1>7, <2>1, <2>2 DEF IssueKnown
  <1>8. StaleSince'
    BY <1>1, <1>7 DEF StaleSince
  <1> QED  BY <1>5, <1>6, <1>8 DEF Tracked

\* A single issue that is stored as it is at the forge.
LEMMA TrackedAddStore ==
    ASSUME MirrorTypes, AddKnown, Tracked, AddStore,
           row' = row \/ ~(add.version < forge[add.issue].version)
    PROVE  Tracked'
  <1>1. UNCHANGED <<provider, forge, mirror, sync>> /\ add.pc = "store"
    BY DEF AddStore
  <1>2. CASE row' = row
    BY <1>1, <1>2, QuietStep
  <1>3. CASE row' # row
    <2>1. add.issue \in Issues /\ row' = [row EXCEPT ![add.issue] = add.version]
      BY <1>1, <1>3 DEF AddStore, MirrorTypes
    <2>2. add.version \in Nat /\ forge[add.issue].version \in Nat
      BY <2>1 DEF MirrorTypes
    <2>3. forge[add.issue].version = 0 \/ add.version = forge[add.issue].version
      BY <1>1, <1>3, <2>2 DEF AddKnown
    <2>4. \A i \in Issues :
             row'[i] = row[i] \/ forge[i].version = 0 \/ row'[i] = forge[i].version
      BY <2>1, <2>3 DEF MirrorTypes
    <2>5. StaleSince'
      <3>1. SUFFICES ASSUME NEW i \in Issues, forge[i].version > 0,
                            row'[i] # forge[i].version
                     PROVE  forge[i].at >= mirror.cursor
        BY <1>1 DEF StaleSince
      <3>2. row'[i] = row[i]
        BY <2>4, <3>1
      <3> QED  BY <3>1, <3>2 DEF Tracked, StaleSince
    <2>6. ASSUME NEW s \in Syncs, Syncing(s), NEW i \in Issues PROVE IssueKnown(s, i)'
      <3>1. IssueKnown(s, i)
        BY <2>6 DEF Tracked, SyncKnown
      <3>2. Since(s)' = Since(s) /\ Place(s, i)' = Place(s, i)
        BY <1>1, PlaceKept
      <3> QED  BY <1>1, <2>4, <3>1, <3>2 DEF IssueKnown
    <2>7. OneSync'
      BY <1>1 DEF Tracked, OneSync, Syncing
    <2>8. ASSUME NEW s \in Syncs PROVE SyncKnown(s)'
      <3>1. Syncing(s)' <=> Syncing(s)
        BY <1>1 DEF Syncing
      <3> QED  BY <1>1, <2>6, <3>1 DEF Tracked, SyncKnown
    <2> QED  BY <2>5, <2>7, <2>8 DEF Tracked
  <1> QED  BY <1>2, <1>3

\* Every step keeps the invariant of the mirror.
LEMMA MirrorInvStep ==
    ASSUME NIssues \in Nat, MirrorInv, SyncNext
    PROVE  MirrorInv'
  <1>0. MirrorTypes /\ ClockKnown /\ AddKnown /\ \A s \in Syncs : Fresh(s)
    BY DEF MirrorInv
  <1>1. MirrorTypes' /\ ClockKnown' /\ AddKnown' /\ \A s \in Syncs : Fresh(s)'
    BY <1>0, TypesStep, ClockStep, AddKnownStep, FreshStep
  <1>2. ASSUME excused PROVE excused'
    BY <1>2, MirrorSteps DEF Passes, Changes, Vanishes, AddFetch, PollerTick, SyncOne,
       WebSync, AddStore, toggle, Restart, Begin, ListIssues, ListFails, Store, FlushFails
  <1>3. ASSUME Tracked PROVE excused' \/ Tracked'
    <2>1. "poller" \in Syncs /\ "web" \in Syncs /\ sync \in [Syncs -> SyncState]
      BY <1>0 DEF Syncs, MirrorTypes
    <2>2. ASSUME UNCHANGED <<provider, forge, row, mirror, sync>> PROVE Tracked'
      BY <1>0, <1>3, <2>2, QuietStep
    <2>3. ASSUME NEW i \in Issues, Changes(i) PROVE excused' \/ Tracked'
      <3>1. excused' \/ \A t \in Starts : ~(Second(now) < t)
        BY <2>3 DEF Changes
      <3> QED  BY <1>0, <1>3, <2>3, <3>1, TrackedChanges
    <2>4. ASSUME NEW i \in Issues, Vanishes(i) PROVE excused' \/ Tracked'
      <3>1. excused' \/ \A s \in Syncs : ~SyncAt(s, "list")
        BY <2>4 DEF Vanishes
      <3> QED  BY <1>0, <1>3, <2>4, <3>1, TrackedVanishes
    <2>5. CASE PollerTick
      <3>1. /\ UNCHANGED <<provider, forge, row, mirror>>
            /\ \A s \in Syncs : sync'[s] = sync[s] \/ sync'[s].pc = "picked"
        BY <2>1, <2>5 DEF PollerTick, SyncGo, SyncState
      <3> QED  BY <1>0, <1>3, <3>1, QuietStep
    <2>6. ASSUME UNCHANGED <<provider, forge, row>>, mirror'.cursor = mirror.cursor,
                 NEW s \in Syncs, sync' = Quit(s) \/ sync' = Dead(s)
          PROVE  Tracked'
      <3>1. \A r \in Syncs : sync'[r] = sync[r] \/ sync'[r] \in Ended
        BY <2>1, <2>6 DEF Quit, Dead, Ended
      <3> QED  BY <1>0, <1>3, <2>6, <3>1, QuietStep
    <2>7. ASSUME UNCHANGED <<provider, forge, row, mirror>>,
                 NEW s \in Syncs, NEW full \in BOOLEAN, sync' = Read(s, full)
          PROVE  Tracked'
      <3>1. PICK w \in Nat : /\ w <= mirror.cursor
                             /\ sync' = [sync EXCEPT ![s].pc = "begin", ![s].saw = w]
        BY <1>0, <2>7, ReadType
      <3>2. \A r \in Syncs :
               sync'[r] = sync[r] \/ (sync'[r].pc = "begin" /\ sync'[r].saw <= mirror.cursor)
        BY <2>1, <3>1 DEF SyncState
      <3> QED  BY <1>0, <1>3, <2>7, <3>2, QuietStep
    <2>8. CASE SyncOne
      <3>1. FullTurn \in BOOLEAN /\ UNCHANGED <<provider, forge, row, mirror>>
        BY <2>8 DEF FullTurn, SyncOne
      <3>2. sync' = Quit("poller") \/ sync' = Read("poller", FullTurn)
        BY <2>8 DEF SyncOne
      <3> QED  BY <2>1, <2>6, <2>7, <3>1, <3>2
    <2>9. CASE WebSync
      BY <2>1, <2>7, <2>9 DEF WebSync
    <2>10. CASE AddStore
      <3>1. CASE row' = row
        BY <1>0, <1>3, <2>10, <3>1, TrackedAddStore
      <3>2. CASE row' # row
        <4>1. excused' \/ ~(add.version < forge[add.issue].version)
          BY <2>10, <3>2 DEF AddStore
        <4> QED  BY <1>0, <1>3, <2>10, <4>1, TrackedAddStore
      <3> QED  BY <3>1, <3>2
    <2>11. CASE toggle
      <3>1. UNCHANGED <<provider, forge, row, sync>> /\ mirror'.cursor = mirror.cursor
        BY <1>0, <2>11 DEF toggle, MirrorTypes
      <3> QED  BY <1>0, <1>3, <3>1, QuietStep
    <2>12. CASE Restart
      <3>1. /\ UNCHANGED <<provider, forge, row>> /\ mirror'.cursor = mirror.cursor
            /\ \A s \in Syncs : sync'[s] \in Ended
        BY <1>0, <2>12 DEF Restart, MirrorTypes, Ended
      <3> QED  BY <1>0, <1>3, <3>1, QuietStep
    <2>13. ASSUME NEW s \in Syncs, Begin(s) PROVE excused' \/ Tracked'
      <3>1. excused' \/ \A r \in Syncs \ {s} : ~Syncing(r)
        BY <2>13 DEF Begin
      <3> QED  BY <1>0, <1>3, <2>13, <3>1, TrackedBegin
    <2>14. ASSUME NEW s \in Syncs, ListIssues(s) PROVE Tracked'
      BY <1>0, <1>3, <2>14, TrackedListPage
    <2>15. ASSUME NEW s \in Syncs, ListFails(s) PROVE Tracked'
      <3>1. /\ UNCHANGED <<provider, forge, row>> /\ mirror'.cursor = mirror.cursor
            /\ sync' = Quit(s)
        BY <1>0, <2>15 DEF ListFails, MirrorTypes
      <3> QED  BY <2>6, <3>1
    <2>16. ASSUME NEW s \in Syncs, Store(s) PROVE Tracked'
      BY <1>0, <1>3, <2>16, TrackedStore
    <2>17. ASSUME NEW s \in Syncs, FlushFails(s) PROVE Tracked'
      <3>1. /\ UNCHANGED <<provider, forge, row, mirror>>
            /\ sync' = Quit(s) \/ sync' = Dead(s)
        BY <2>17 DEF FlushFails, Dead
      <3> QED  BY <2>6, <3>1
    <2> QED  BY <2>2, <2>3, <2>4, <2>5, <2>8, <2>9, <2>10, <2>11, <2>12, <2>13, <2>14,
                <2>15, <2>16, <2>17, MirrorSteps DEF Passes, AddFetch
  <1>4. excused' \/ Tracked'
    BY <1>2, <1>3 DEF MirrorInv
  <1> QED  BY <1>1, <1>4 DEF MirrorInv

LEMMA MirrorInvInit ==
    ASSUME SyncInit
    PROVE  MirrorInv
  <1>1. MirrorTypes
    BY TypesInit
  <1>2. \A s \in Syncs : sync[s] = IdleSync
    BY DEF SyncInit
  <1>3. ClockKnown
    <2>1. Second(1) = 0
      BY DEF Second
    <2> QED  BY <1>2, <2>1 DEF SyncInit, ClockKnown, IdleSync
  <1>4. AddKnown
    BY DEF SyncInit, AddKnown, NoAdd
  <1>5. \A s \in Syncs : Fresh(s)
    BY <1>2 DEF Fresh, IdleSync
  <1>6. \A s \in Syncs : sync[s].pc = "idle"
    BY <1>2 DEF IdleSync
  <1>7. StaleSince
    BY DEF SyncInit, StaleSince
  <1>8. OneSync /\ \A s \in Syncs : SyncKnown(s)
    BY <1>6 DEF OneSync, SyncKnown, Syncing
  <1> QED  BY <1>1, <1>3, <1>4, <1>5, <1>7, <1>8 DEF MirrorInv, Tracked

\* So does a step that changes nothing of it.
LEMMA MirrorInvKept ==
    ASSUME MirrorInv, UNCHANGED syncVars
    PROVE  MirrorInv'
  <1>1. MirrorTypes' /\ ClockKnown' /\ AddKnown' /\ \A s \in Syncs : Fresh(s)'
    BY DEF MirrorInv, MirrorTypes, ClockKnown, AddKnown, Fresh, syncVars
  <1>2. ASSUME Tracked PROVE Tracked'
    BY <1>2, QuietStep DEF MirrorInv, syncVars
  <1>3. excused' = excused
    BY DEF syncVars
  <1>4. excused' \/ Tracked'
    BY <1>2, <1>3 DEF MirrorInv
  <1> QED  BY <1>1, <1>4 DEF MirrorInv

\* The row of an issue is out of date only if the next incremental sync lists the
\* issue, whatever page it was on and whatever changed while list_issues read the
\* pages, for any number of issues, any size of a page and any number of changes;
\* the exceptions are those that excused names.
THEOREM StaleIssuesAreListedAgain == SyncSpec => []StaleIsListedAgain
  <1>1. MirrorInv => StaleIsListedAgain
    BY DEF MirrorInv, Tracked, StaleSince, StaleIsListedAgain
  <1>2. SyncInit => MirrorInv
    BY MirrorInvInit
  <1>3. MirrorInv /\ [SyncNext]_syncVars => MirrorInv'
    BY MirrorInvStep, MirrorInvKept, SyncAssumption
  <1> QED  BY <1>1, <1>2, <1>3, PTL DEF SyncSpec
=============================================================================
