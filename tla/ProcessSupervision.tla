------------------------ MODULE ProcessSupervision -------------------------
(***************************************************************************)
(* One command under supervision: the leader of a process group with       *)
(* whatever it starts, the pipes of its output, the two readers, the       *)
(* monitor of the workspace, the timer, and the supervisor that waits for  *)
(* the first of them, terminates the group if it must, and collects the    *)
(* output. There are four supervisors:                                     *)
(*   "develop"  LocalCodexRunner.run for a developer or reviewer           *)
(*   "review"   LocalCodexRunner.run for a PR review: after the native     *)
(*              review a second process converts its result                *)
(*   "async"    processes.run_process                                      *)
(*   "sync"     processes.run_process_sync, in a thread                    *)
(* An event that is set and the task that waits for it are two things: the *)
(* supervisor may wake for one event and not see another one yet. The wait *)
(* of an asyncio process is over when its transport has seen the end of    *)
(* every pipe, not when the process is dead (Python 3.12, external).       *)
(***************************************************************************)
EXTENDS Naturals, FiniteSets

CONSTANTS
    Limit,      \* max_output_bytes, in chunks
    PipeSize,   \* chunks of a stream that wait to be read: the buffer of its
                \* StreamReader, at which the transport pauses, and the pipe
    MaxCancels  \* cancellations of the task that runs the supervisor

ASSUME SupervisionAssumption ==
    Limit \in Nat /\ PipeSize \in Nat \ {0} /\ MaxCancels \in Nat

Streams == {"out", "err"}
Agents  == {"develop", "review"}

VARIABLES
    kind,    \* the supervisor
    group,   \* the leader, its exit code, a descendant (that holds the pipes or has
             \* closed them, and has left the group or not), and whether the
             \* leader was gone before anybody waited for it
    pipe,    \* chunks of each stream that are not read yet
    reader,  \* the readers
    total,   \* chunks the readers have taken
    full,    \* the workspace monitor has set its event
    stop,    \* cancel_event is set
    cancels, \* cancellations of the supervisor's task so far
    expired, \* the time of the job is over
    sup,     \* the supervisor: place, status, phase, whether its output is whole
    dirs     \* the directories of the run

vars == <<kind, group, pipe, reader, total, full, stop, cancels, expired, sup, dirs>>
outside == <<kind, stop, cancels, expired>>

NoGroup == [leader |-> "none", code |-> 0, child |-> "none", away |-> FALSE, early |-> FALSE]

Init ==
    /\ kind \in Agents \cup {"async", "sync"}
    /\ group = NoGroup
    /\ pipe = [s \in Streams |-> 0]
    /\ reader = [s \in Streams |-> "off"]
    /\ total = 0 /\ full = FALSE
    /\ stop = FALSE /\ cancels = 0 /\ expired = FALSE
    /\ sup = [pc |-> "idle", status |-> "none", phase |-> 1, cut |-> FALSE,
              whole |-> TRUE]
    /\ dirs = "none"

At(pc) == sup.pc = pc
Running == group.leader = "running"
Exceeded == total > Limit

\* The descendant has the output pipes of the leader open.
Holds == group.child = "holds"

\* Nobody holds the pipes any more. The transport of a stream then sees its end,
\* unless it is paused for a reader that does not read.
Closed == group.leader = "dead" /\ ~Holds
Disconnected == Closed /\ \A s \in Streams : pipe[s] < PipeSize

\* What poll tells a thread, and Process.wait a task: Process.wait returns at once
\* when the exit code is known as it is called.
Waited == IF kind = "sync" THEN group.leader = "dead"
          ELSE Disconnected \/ group.early
-----------------------------------------------------------------------------
(***************************************************************************)
(* The process group and its pipes.                                        *)
(***************************************************************************)
Write(s) ==
    /\ Running \/ Holds
    /\ pipe[s] < PipeSize
    /\ pipe' = [pipe EXCEPT ![s] = @ + 1]
    /\ UNCHANGED <<outside, group, reader, total, full, sup, dirs>>

\* The leader starts a descendant, in its group or in a session of its own.
Spawn ==
    /\ Running /\ group.child = "none"
    /\ \E away \in BOOLEAN : group' = [group EXCEPT !.child = "holds", !.away = away]
    /\ UNCHANGED <<outside, pipe, reader, total, full, sup, dirs>>

LeaderExits ==
    /\ Running
    /\ \E code \in {0, 1} :
       \E early \in {b \in BOOLEAN : b => At("wait") /\ total = 0} :
            group' = [group EXCEPT !.leader = "dead", !.code = code, !.early = early]
    /\ UNCHANGED <<outside, pipe, reader, total, full, sup, dirs>>

\* The descendant closes the pipes and lives on.
ChildCloses ==
    /\ Holds
    /\ group' = [group EXCEPT !.child = "silent"]
    /\ UNCHANGED <<outside, pipe, reader, total, full, sup, dirs>>

ChildExits ==
    /\ group.child # "none"
    /\ group' = [group EXCEPT !.child = "none"]
    /\ UNCHANGED <<outside, pipe, reader, total, full, sup, dirs>>

\* _read_output, _AsyncOutput.read, _SyncOutput.read: a chunk, of which the one
\* that passes the limit is dropped and ends the reader.
Read(s) ==
    /\ reader[s] = "reading" /\ pipe[s] > 0
    /\ pipe' = [pipe EXCEPT ![s] = @ - 1]
    /\ total' = total + 1
    /\ reader' = [reader EXCEPT ![s] = IF total + 1 > Limit THEN "stopped" ELSE @]
    /\ UNCHANGED <<outside, group, full, sup, dirs>>

\* The end of the stream comes when nobody holds the pipe any more.
ReadEnd(s) ==
    /\ reader[s] = "reading" /\ pipe[s] = 0 /\ Closed
    /\ reader' = [reader EXCEPT ![s] = "end"]
    /\ UNCHANGED <<outside, group, pipe, total, full, sup, dirs>>

\* _monitor_workspace, _monitor_path_size. The supervisor cancels the monitor
\* only after it has collected the output.
MonitorFindsFull ==
    /\ kind # "sync" /\ ~full
    /\ sup.pc \in {"wait", "grace", "killed", "drain", "cgrace", "ckilled", "cdrain"}
    /\ full' = TRUE
    /\ UNCHANGED <<outside, group, pipe, reader, total, sup, dirs>>
-----------------------------------------------------------------------------
(***************************************************************************)
(* The callers.                                                            *)
(***************************************************************************)
\* Someone sets cancel_event; only LocalCodexRunner.run looks at it.
RequestStop ==
    /\ kind \in Agents /\ ~stop /\ stop' = TRUE
    /\ UNCHANGED <<kind, group, pipe, reader, total, full, cancels, expired, sup, dirs>>

Expire ==
    /\ ~expired /\ ~At("idle") /\ expired' = TRUE
    /\ UNCHANGED <<kind, group, pipe, reader, total, full, stop, cancels, sup, dirs>>
-----------------------------------------------------------------------------
(***************************************************************************)
(* The supervisor.                                                         *)
(***************************************************************************)
Step(pc) == [sup EXCEPT !.pc = pc]

\* Where the supervisor goes with a result, and with an exception. A runner
\* removes the directories of the run either way.
Leave(status) == [sup EXCEPT !.pc = IF kind \in Agents THEN "leave" ELSE "ended",
                             !.status = status]

\* run: the directories; nothing is started for a job cancelled already. If an
\* error comes between two of the directories, the first ones stay: nothing
\* removes them yet.
Begin ==
    /\ At("idle")
    /\ \/ /\ kind \in Agents /\ stop
          /\ sup' = [sup EXCEPT !.pc = "ended", !.status = "cancelled"]
          /\ UNCHANGED dirs
       \/ /\ kind \in Agents /\ ~stop
          /\ \/ dirs' = "present" /\ sup' = Step("spawn")
             \/ /\ dirs' \in {"none", "partial"}
                /\ sup' = [sup EXCEPT !.pc = "ended", !.status = "error"]
       \/ /\ kind \notin Agents
          /\ sup' = Step("spawn") /\ UNCHANGED dirs
    /\ UNCHANGED <<outside, group, pipe, reader, total, full>>

\* create_subprocess_exec: a new session, its pipes and readers; or an error. A
\* descendant of the native review that has closed its pipes is followed no
\* further.
Start ==
    /\ At("spawn")
    /\ \/ /\ group' = [NoGroup EXCEPT !.leader = "running"]
          /\ pipe' = [s \in Streams |-> 0]
          /\ reader' = [s \in Streams |-> "reading"]
          /\ total' = 0 /\ full' = FALSE
          /\ sup' = Step("wait")
       \/ /\ sup' = Leave("error")
          /\ UNCHANGED <<group, pipe, reader, total, full>>
    /\ UNCHANGED <<outside, dirs>>

\* What the supervisor may wake for.
Causes ==
    (IF Exceeded THEN {"limit"} ELSE {}) \cup (IF full THEN {"full"} ELSE {})
    \cup (IF Waited THEN {"exit"} ELSE {})
    \cup (IF stop THEN {"stop"} ELSE {})

\* The first reason of those that have completed decides.
Verdict(completed) ==
    IF "limit" \in completed \/ "full" \in completed THEN "failed"
    ELSE IF "exit" \in completed
         THEN IF group.code = 0 \/ kind \notin Agents THEN "succeeded" ELSE "failed"
         ELSE IF "stop" \in completed THEN "cancelled" ELSE "timed_out"

\* asyncio.wait, or the loop of run_process_sync. Only an exit of the process
\* is left to end by itself. _terminate does nothing for a leader that is dead.
Wake ==
    /\ At("wait")
    /\ \E completed \in SUBSET Causes :
        /\ completed = {} => expired
        /\ LET leaves == "exit" \in completed /\ completed \cap {"limit", "full"} = {}
           IN  sup' = [sup EXCEPT !.status = Verdict(completed),
                                  !.pc = IF leaves \/ ~Running THEN "drain" ELSE "grace"]
    /\ UNCHANGED <<outside, group, pipe, reader, total, full, dirs>>

\* killpg: whoever has left the group is not hit.
Gone == [group EXCEPT !.leader = "dead", !.code = IF Running THEN 1 ELSE @,
                      !.child = IF group.away THEN @ ELSE "none"]

\* Mutant: the group is never killed.
BugOnlyTerm == IF Running THEN group ELSE Gone

\* SIGKILL after the grace period: the runner sends it whenever its wait has not
\* ended, the others only to a leader that has not exited.
Killed == IF Running \/ kind \in Agents THEN Gone ELSE group

\* SIGTERM was sent to the group. Its wait ends in time, or the group is killed;
\* the exit of the leader is then waited for without a limit, where a leader that
\* is dead already needs no waiting.
Grace(at, killed, next) ==
    /\ At(at)
    /\ \/ Waited /\ sup' = Step(next) /\ UNCHANGED group
       \/ /\ group' = Killed
          /\ sup' = Step(IF Running THEN killed ELSE next)
    /\ UNCHANGED <<outside, pipe, reader, total, full, dirs>>

GraceEnds == Grace("grace", "killed", "drain")

AfterKill(at, next) ==
    /\ At(at) /\ Waited /\ sup' = Step(next)
    /\ UNCHANGED <<outside, group, pipe, reader, total, full, dirs>>

KillEnds == AfterKill("killed", "drain")

\* Both readers have ended. The runner also waits for the task that it started to
\* wait for the process.
ReadersDone == \A s \in Streams : reader[s] # "reading"
Drained == ReadersDone /\ (kind \in Agents => Waited)

\* The output is collected and the result made. Events that were set after the
\* supervisor woke replace the output of an agent and leave its status; the
\* other supervisors raise what made them terminate, and nothing else.
Collect ==
    /\ At("drain") /\ Drained
    /\ LET whole == ~Exceeded /\ ~(kind \in Agents /\ full)
           after == [sup EXCEPT !.cut = Exceeded, !.whole = @ /\ whole]
       IN  sup' = CASE kind \in Agents -> [after EXCEPT !.pc = "result"]
                    [] OTHER -> [after EXCEPT !.pc = "ended"]
    /\ UNCHANGED <<outside, group, pipe, reader, total, full, dirs>>

\* Mutant: the conversion works with whatever the native review has left.
BugAdaptAnything == sup.whole \in BOOLEAN

\* final_message and finding_inventory accept the output of the native review:
\* all of it is there.
Adaptable == ~sup.cut /\ sup.whole

\* _adapt_review up to its second process, which shares what is left of the
\* time and of the output.
Adapt ==
    /\ At("result") /\ kind = "review" /\ sup.phase = 1 /\ sup.status = "succeeded"
    /\ \/ /\ Adaptable /\ ~stop /\ ~expired
          /\ sup' = [sup EXCEPT !.pc = "spawn", !.phase = 2]
       \/ /\ Adaptable /\ stop /\ sup' = Leave("cancelled")
       \/ /\ Adaptable /\ ~stop /\ expired /\ sup' = Leave("timed_out")
       \/ sup' = Leave("failed")
    /\ UNCHANGED <<outside, group, pipe, reader, total, full, dirs>>

\* Its end: the conversion is checked against the native review, or the result
\* is that of the second process.
Adapted ==
    /\ At("result") /\ kind = "review" /\ sup.phase = 2
    /\ \/ sup.status # "succeeded" /\ sup' = Leave(sup.status)
       \/ sup.status = "succeeded" /\ Adaptable /\ sup' = Leave("succeeded")
       \/ sup.status = "succeeded" /\ sup' = Leave("failed")
    /\ UNCHANGED <<outside, group, pipe, reader, total, full, dirs>>

Result ==
    /\ At("result") /\ (kind = "review" => sup.phase = 1 /\ sup.status # "succeeded")
    /\ sup' = Leave(sup.status)
    /\ UNCHANGED <<outside, group, pipe, reader, total, full, dirs>>

\* Mutant: a second cancellation interrupts run_process as it does the runner.
BugUnshielded == 1

\* Cancellations that a supervisor survives while it cleans up: run_process
\* shields its cleanup from one.
Shielded == IF kind = "async" THEN 2 ELSE 1

\* The task of the supervisor is cancelled at an await. The first time it
\* terminates the group and waits for the readers; once more than it shields
\* against, it leaves everything behind.
Cancel ==
    /\ kind # "sync" /\ cancels < MaxCancels /\ cancels' = cancels + 1
    /\ \/ /\ sup.pc \in {"wait", "grace", "killed", "drain"}
          /\ sup' = [sup EXCEPT !.pc = IF Running THEN "cgrace" ELSE "cdrain",
                                !.status = "error"]
       \/ /\ sup.pc \in {"cgrace", "ckilled"}
          /\ sup' = IF cancels' > Shielded THEN Leave("error") ELSE sup
       \/ /\ At("cdrain") /\ sup' = Leave("error")
    /\ UNCHANGED <<kind, group, pipe, reader, total, full, stop, expired, dirs>>

CancelledGraceEnds == Grace("cgrace", "ckilled", "cdrain")
CancelledKillEnds  == AfterKill("ckilled", "cdrain")

CancelledCollect ==
    /\ At("cdrain") /\ ReadersDone
    /\ sup' = Leave("error")
    /\ UNCHANGED <<outside, group, pipe, reader, total, full, dirs>>

\* _remove_run_directories: rmtree may fail, for one when something still writes
\* there, and its error takes the place of the result.
RemoveDirectories ==
    /\ At("leave")
    /\ \/ dirs' = "removed" /\ sup' = Step("ended")
       \/ sup' = [sup EXCEPT !.pc = "ended", !.status = "unremoved"] /\ UNCHANGED dirs
    /\ UNCHANGED <<outside, group, pipe, reader, total, full>>

Supervise ==
    \/ Begin \/ Start \/ Wake \/ GraceEnds \/ KillEnds \/ Collect \/ Adapt \/ Adapted \/ Result
    \/ CancelledGraceEnds \/ CancelledKillEnds \/ CancelledCollect \/ RemoveDirectories

Next ==
    \/ \E s \in Streams : Write(s) \/ Read(s) \/ ReadEnd(s)
    \/ Spawn \/ LeaderExits \/ ChildCloses \/ ChildExits
    \/ MonitorFindsFull \/ RequestStop \/ Expire \/ Cancel \/ Supervise

Spec == Init /\ [][Next]_vars

\* The event loop and the threads run what can run, and time passes. Nothing
\* says that a process ever exits, stops writing or closes its pipes.
FairSpec ==
    /\ Spec /\ WF_vars(Supervise) /\ WF_vars(Expire)
    /\ \A s \in Streams : WF_vars(Read(s)) /\ WF_vars(ReadEnd(s))
-----------------------------------------------------------------------------
(***************************************************************************)
(* Properties.                                                             *)
(***************************************************************************)
\* Every variable keeps its type.
TypeOK ==
    /\ kind \in Agents \cup {"async", "sync"}
    /\ group \in [leader : {"none", "running", "dead"}, code : {0, 1},
                 child : {"none", "holds", "silent"}, away : BOOLEAN, early : BOOLEAN]
    /\ pipe \in [Streams -> 0 .. PipeSize]
    /\ reader \in [Streams -> {"off", "reading", "end", "stopped"}]
    /\ total \in 0 .. Limit + 2
    /\ full \in BOOLEAN /\ stop \in BOOLEAN /\ expired \in BOOLEAN
    /\ cancels \in 0 .. MaxCancels
    /\ sup \in [pc : {"idle", "spawn", "wait", "grace", "killed", "drain", "result",
                      "cgrace", "ckilled", "cdrain", "leave", "ended"},
                status : {"none", "succeeded", "failed", "cancelled", "timed_out",
                          "error", "unremoved"},
                phase : {1, 2}, cut : BOOLEAN, whole : BOOLEAN]
    /\ dirs \in {"none", "partial", "present", "removed"}

\* A supervisor that has returned or raised leaves no running leader behind,
\* whatever made it end; only cancelling its task again while it cleans up (a
\* second time for the runner, a third time for run_process) does.
LeaderIsReaped ==
    At("ended") /\ cancels <= (IF kind = "async" THEN 2 ELSE 1) => ~Running

\* It leaves no descendant behind that has the output pipes open, in the group
\* or not, but for two cases: its task was cancelled a second time, or the
\* output limit was passed, when nobody reads the pipes to their end.
PipesAreReleased ==
    At("ended") /\ cancels <= 1 => ~Holds \/ Exceeded

\* The directories of a run are not taken away from a leader that still runs,
\* unless the runner was cancelled a second time; and they stay only where
\* rmtree itself has failed, which the run then reports in place of its result.
DirectoriesFollowLeader ==
    /\ dirs = "removed" /\ cancels <= 1 => ~Running
    /\ At("ended") /\ dirs = "present" => sup.status = "unremoved"

\* What a run that has ended leaves behind: no leader, no descendant with open
\* pipes and no directories that were set up, each with the exceptions named
\* above. A descendant that has closed its pipes may live on, and so may the
\* first directories of a run that failed to make the others.
NothingIsLeftBehind == LeaderIsReaped /\ PipesAreReleased /\ DirectoriesFollowLeader

\* A PR review that succeeds rests on two processes whose whole output was
\* read, even if the output limit or the workspace limit is reached after the
\* exit of a process has already decided its status.
ReviewIsWhole ==
    At("ended") /\ kind = "review" /\ sup.status = "succeeded" =>
        sup.phase = 2 /\ sup.whole

\* Somebody still holds the pipes of a leader that is gone, or a stream has more
\* than its transport takes and its reader has stopped.
Held ==
    /\ group.leader = "dead" /\ sup.pc \in {"killed", "drain", "ckilled", "cdrain"}
    /\ Holds \/ \E s \in Streams : reader[s] = "stopped" /\ pipe[s] = PipeSize

\* Every supervisor ends, by its exit, its limits or its time, but for two things
\* it waits for without end after the leader is dead: a descendant that keeps the
\* pipes open, and a stream that is full and nobody reads.
OnlyHeldPipesHang == At("wait") ~> (At("ended") \/ Held)

\* An agent that exceeds the output limit is terminated and its run ends
\* (tests/runner/test_local.py:877).
OutputLimitEndsRun ==
    (At("wait") /\ kind \in Agents /\ Exceeded) ~> (At("ended") \/ Holds)
=============================================================================
