----------------------------- MODULE AgentSlots -----------------------------
(***************************************************************************)
(* LimitedRunner: agent jobs of all tasks share a fixed number of slots.   *)
(* A job waits for a slot, for its cancel event and for its deadline at    *)
(* once; asyncio.wait may return long after several of them have happened. *)
(* retry_agent_operation runs a job again that could not be started.       *)
(*                                                                         *)
(* asyncio.Semaphore hands a released slot to the first waiter at once, so *)
(* a slot may be granted to a job whose acquire() has not returned yet.    *)
(***************************************************************************)
EXTENDS Naturals, Sequences, FiniteSets

CONSTANTS Jobs, Limit, MaxRetries

ASSUME SlotsAssumption ==
    /\ IsFiniteSet(Jobs)
    /\ Limit \in Nat \ {0} /\ MaxRetries \in Nat

VARIABLES
    pc,        \* where the caller of LimitedRunner.run is
    slot,      \* its acquire task: none, queued, granted (not resumed), held
    free,      \* value of the semaphore
    waiters,   \* jobs whose acquire is queued, first come first served
    cancelled, \* jobs whose cancel event is set
    late,      \* jobs whose deadline has passed
    retries,   \* retries of each job so far
    aborted,   \* jobs whose coroutine was cancelled, once at most
    lost       \* history: jobs that ended without giving back their slot

vars == <<pc, slot, free, waiters, cancelled, late, retries, aborted, lost>>

\* "ending" and "retrying": in the finally block of run(), awaiting gather.
Pcs == {"idle", "waiting", "running", "ending", "retrying", "backoff", "done"}

Init ==
    /\ pc = [j \in Jobs |-> "idle"]
    /\ slot = [j \in Jobs |-> "none"]
    /\ free = Limit
    /\ waiters = <<>>
    /\ cancelled = {} /\ late = {}
    /\ retries = [j \in Jobs |-> 0]
    /\ aborted = {} /\ lost = {}

-----------------------------------------------------------------------------
(***************************************************************************)
(* asyncio.Semaphore.                                                      *)
(***************************************************************************)
\* acquire: a free slot that nobody waits for, or the end of the queue.
acquire(j) ==
    IF free > 0 /\ waiters = <<>>
    THEN /\ slot' = [slot EXCEPT ![j] = "granted"]
         /\ free' = free - 1
         /\ UNCHANGED waiters
    ELSE /\ slot' = [slot EXCEPT ![j] = "queued"]
         /\ waiters' = Append(waiters, j)
         /\ UNCHANGED free

\* release: the slot of j goes to the first waiter, or is free.
release(j) ==
    IF waiters = <<>>
    THEN /\ slot' = [slot EXCEPT ![j] = "none"]
         /\ free' = free + 1
         /\ UNCHANGED waiters
    ELSE /\ slot' = [slot EXCEPT ![j] = "none", ![Head(waiters)] = "granted"]
         /\ waiters' = Tail(waiters)
         /\ UNCHANGED free

\* The queue without its place i.
Without(i) == [k \in 1 .. Len(waiters) - 1 |-> waiters[IF k < i THEN k ELSE k + 1]]

\* The acquire task is cancelled: it leaves the queue, or passes on a slot it
\* was granted and never saw.
withdraw(j) ==
    IF slot[j] = "granted" THEN release(j)
    ELSE /\ slot' = [slot EXCEPT ![j] = "none"]
         /\ \E i \in 1 .. Len(waiters) : waiters[i] = j /\ waiters' = Without(i)
         /\ UNCHANGED free

\* acquire() returns in the acquire task.
Acquired(j) ==
    /\ slot[j] = "granted"
    /\ slot' = [slot EXCEPT ![j] = "held"]
    /\ UNCHANGED <<pc, free, waiters, cancelled, late, retries, aborted, lost>>

-----------------------------------------------------------------------------
(***************************************************************************)
(* LimitedRunner.run                                                       *)
(***************************************************************************)
\* Mutant: a job that stops waiting keeps its place in the queue.
BugStayQueued(j) ==
    IF slot[j] = "queued"
    THEN slot' = [slot EXCEPT ![j] = "none"] /\ UNCHANGED <<free, waiters>>
    ELSE IF slot[j] = "held" THEN UNCHANGED <<slot, free, waiters>> ELSE release(j)

\* The finally block up to its await: an acquire that is not done is
\* cancelled, a slot that is held waits for the code behind the await.
Finally(j) ==
    IF slot[j] = "held" THEN UNCHANGED <<slot, free, waiters>> ELSE withdraw(j)

\* A job is submitted; one that is cancelled already does not even queue.
\* Each attempt of a job gets its whole time again.
Submit(j) ==
    /\ pc[j] \in {"idle", "backoff"}
    /\ late' = late \ {j}
    /\ IF j \in cancelled
       THEN /\ pc' = [pc EXCEPT ![j] = "done"]
            /\ UNCHANGED <<slot, free, waiters>>
       ELSE /\ pc' = [pc EXCEPT ![j] = "waiting"]
            /\ acquire(j)
    /\ UNCHANGED <<cancelled, retries, aborted, lost>>

\* asyncio.wait returns with the slot and nothing against it.
RunJob(j) ==
    /\ pc[j] = "waiting"
    /\ slot[j] = "held"
    /\ j \notin cancelled /\ j \notin late
    /\ pc' = [pc EXCEPT ![j] = "running"]
    /\ UNCHANGED <<slot, free, waiters, cancelled, late, retries, aborted, lost>>

\* Mutant: the wait has no timeout.
BugWaitForever(j) ==
    /\ pc[j] = "waiting"
    /\ j \in cancelled
    /\ pc' = [pc EXCEPT ![j] = "ending"]
    /\ Finally(j)
    /\ UNCHANGED <<cancelled, late, retries, aborted, lost>>

\* It returns for the cancel event or the deadline, slot or no slot.
GiveUp(j) ==
    /\ pc[j] = "waiting"
    /\ j \in cancelled \/ j \in late
    /\ pc' = [pc EXCEPT ![j] = "ending"]
    /\ Finally(j)
    /\ UNCHANGED <<cancelled, late, retries, aborted, lost>>

\* runner.run returns or raises, whatever its result; it need not do either.
JobEnds(j) ==
    /\ pc[j] = "running"
    /\ pc' = [pc EXCEPT ![j] = "ending"]
    /\ Finally(j)
    /\ UNCHANGED <<cancelled, late, retries, aborted, lost>>

\* The process could not be started: retry_agent_operation tries again.
StartFails(j) ==
    /\ pc[j] = "running"
    /\ Finally(j)
    /\ IF retries[j] = MaxRetries
       THEN /\ pc' = [pc EXCEPT ![j] = "ending"]
            /\ UNCHANGED retries
       ELSE /\ pc' = [pc EXCEPT ![j] = "retrying"]
            /\ retries' = [retries EXCEPT ![j] = @ + 1]
    /\ UNCHANGED <<cancelled, late, aborted, lost>>

\* Mutant: the slot is given back only if asyncio.wait reported it, so one
\* granted while the cancel event was set stays with a finished job.
BugForgetUnseenGrant(j) ==
    /\ pc[j] \in {"ending", "retrying"}
    /\ pc' = [pc EXCEPT ![j] = IF pc[j] = "ending" THEN "done" ELSE "backoff"]
    /\ IF slot[j] = "held" /\ j \notin cancelled
       THEN release(j)
       ELSE slot' = [slot EXCEPT ![j] = "none"] /\ UNCHANGED <<free, waiters>>
    /\ UNCHANGED <<cancelled, late, retries, aborted, lost>>

\* The finally block behind its await: the slot is given back.
Finished(j) ==
    /\ pc[j] \in {"ending", "retrying"}
    /\ pc' = [pc EXCEPT ![j] = IF pc[j] = "ending" THEN "done" ELSE "backoff"]
    /\ IF slot[j] = "held" THEN release(j) ELSE UNCHANGED <<slot, free, waiters>>
    /\ UNCHANGED <<cancelled, late, retries, aborted, lost>>

\* The coroutine of the job is cancelled (the TaskGroup of the reviewers when
\* one of them fails, or shutdown) while it waits, runs or backs off.
Abort(j) ==
    /\ pc[j] \in {"waiting", "running", "backoff"}
    /\ j \notin aborted
    /\ aborted' = aborted \cup {j}
    /\ IF pc[j] = "backoff"
       THEN /\ pc' = [pc EXCEPT ![j] = "done"]
            /\ UNCHANGED <<slot, free, waiters>>
       ELSE /\ pc' = [pc EXCEPT ![j] = "ending"]
            /\ Finally(j)
    /\ UNCHANGED <<cancelled, late, retries, lost>>

\* It is cancelled while the finally block awaits gather: CancelledError
\* leaves the block before the release, and a held slot is never given back.
AbortFinally(j) ==
    /\ pc[j] \in {"ending", "retrying"}
    /\ j \notin aborted
    /\ aborted' = aborted \cup {j}
    /\ pc' = [pc EXCEPT ![j] = "done"]
    /\ slot' = [slot EXCEPT ![j] = "none"]
    /\ lost' = IF slot[j] = "held" THEN lost \cup {j} ELSE lost
    /\ UNCHANGED <<free, waiters, cancelled, late, retries>>

\* A user cancels, or the claim of the task is lost.
Cancel(j) ==
    /\ j \notin cancelled
    /\ cancelled' = cancelled \cup {j}
    /\ UNCHANGED <<pc, slot, free, waiters, late, retries, aborted, lost>>

\* The time of the job is over before it got to run.
Deadline(j) ==
    /\ pc[j] = "waiting" /\ j \notin late
    /\ late' = late \cup {j}
    /\ UNCHANGED <<pc, slot, free, waiters, cancelled, retries, aborted, lost>>

JobStep(j) ==
    \/ Acquired(j) \/ Submit(j) \/ RunJob(j) \/ GiveUp(j)
    \/ JobEnds(j) \/ Finished(j) \/ Deadline(j)

Next == \E j \in Jobs : JobStep(j) \/ StartFails(j) \/ Abort(j)
                          \/ AbortFinally(j) \/ Cancel(j)

Spec == Init /\ [][Next]_vars

\* The event loop resumes who is ready, and the clock of asyncio.wait reaches
\* the deadline.  A job that runs may run for ever: LocalCodexRunner.run may
\* never return once the output of its agent passed the limit.
Fairness == \A j \in Jobs : WF_vars(JobStep(j) /\ pc[j] # "running")

FairSpec == Spec /\ Fairness

-----------------------------------------------------------------------------
\* Every variable keeps its type.
TypeOK ==
    /\ pc \in [Jobs -> Pcs]
    /\ slot \in [Jobs -> {"none", "queued", "granted", "held"}]
    /\ free \in Nat
    /\ waiters \in Seq(Jobs)
    /\ cancelled \in SUBSET Jobs /\ late \in SUBSET Jobs
    /\ retries \in [Jobs -> 0 .. MaxRetries]
    /\ aborted \in SUBSET Jobs /\ lost \in SUBSET Jobs

Holders == {j \in Jobs : slot[j] \in {"granted", "held"}}

\* Whatever the order of grant, cancel event, deadline and abort, no slot is
\* made up, and none goes missing except through a cancellation that hits
\* the await of run()'s finally block.
SlotsConserved == free + Cardinality(Holders) + Cardinality(lost) = Limit

\* Slots and places in the queue belong to live jobs, an agent runs on a slot
\* it holds (so never more than Limit agents), and a job in its finally block
\* is in the semaphore's hands no more.
NoStraySlot ==
    /\ \A j \in Jobs : slot[j] # "none" =>
           pc[j] \in {"waiting", "running", "ending", "retrying"}
    /\ \A j \in Jobs : pc[j] = "running" => slot[j] = "held"
    /\ \A j \in Jobs : pc[j] \in {"ending", "retrying"} => slot[j] \in {"none", "held"}

\* A place in the queue is one job's and is given up with the acquire: a
\* release never goes to a job that has stopped waiting.
QueueIsWaiting ==
    \A i \in 1 .. Len(waiters) :
        /\ slot[waiters[i]] = "queued" /\ pc[waiters[i]] = "waiting"
        /\ \A k \in 1 .. Len(waiters) : waiters[k] = waiters[i] => k = i

\* Every job that was submitted comes to an end, slot or no slot, unless its own
\* agent never returns.  An agent that never returns keeps its slot for good,
\* but the jobs behind it do not wait for it longer than their deadline.
EveryJobEnds ==
    \A j \in Jobs : pc[j] = "waiting" ~> pc[j] = "done" \/ [](pc[j] = "running")

=============================================================================
