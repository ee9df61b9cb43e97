--------------------- MODULE ProcessSupervision_proofs ---------------------
(***************************************************************************)
(* Supervised commands: what a run may leave behind, and that a review     *)
(* that succeeds rests on whole outputs, for every output limit, every     *)
(* size of the pipes and every number of cancellations.                    *)
(*                                                                         *)
(* The invariant says where in the supervisor the leader may still run     *)
(* (LeaderKnown): whatever wakes the supervisor, it gets past its waits    *)
(* only over a dead leader, or by more cancellations than it shields       *)
(* against. And it says what the state of a reader tells of the pipes      *)
(* (PipesKnown): one that has come to the end met nobody who holds them,   *)
(* and one that has stopped has passed the limit.                          *)
(***************************************************************************)
EXTENDS ProcessSupervision, TLAPS

Places == {"idle", "spawn", "wait", "grace", "killed", "drain", "result",
           "cgrace", "ckilled", "cdrain", "leave", "ended"}
Groups == [leader : {"none", "running", "dead"}, code : {0, 1},
           child : {"none", "holds", "silent"}, away : BOOLEAN, early : BOOLEAN]
Verdicts == {"none", "succeeded", "failed", "cancelled", "timed_out", "error",
             "unremoved"}
Supervisors == [pc : Places, status : Verdicts, phase : {1, 2}, cut : BOOLEAN,
                whole : BOOLEAN]

\* The limit stops the reader that passes it, so that two readers pass it by
\* two chunks at most.
ReadersStop ==
    /\ total > Limit => \E s \in Streams : reader[s] = "stopped"
    /\ total > Limit + 1 => \A s \in Streams : reader[s] = "stopped"

\* A leader that was gone before anybody waited for it is dead.
EarlyIsDead == group.early => group.leader = "dead"

\* Where the leader may run.
LeaderKnown ==
    Running => \/ sup.pc \in {"wait", "grace", "cgrace"}
               \/ sup.pc \in {"leave", "ended"} /\ cancels > Shielded

\* Only runners have directories, from their first step to their last.
DirsKnown ==
    /\ kind \notin Agents => dirs = "none" /\ sup.pc # "leave"
    /\ sup.pc = "idle" => dirs = "none"
    /\ dirs = "removed" => sup.pc = "ended"
    /\ sup.pc = "ended" /\ dirs = "present" => sup.status = "unremoved"
    /\ dirs = "partial" => sup.pc = "ended"

\* What the readers tell of the pipes, and where they have finished.
PipesKnown ==
    /\ \A s \in Streams :
          /\ reader[s] \in {"off", "end"} => ~Running /\ ~Holds
          /\ reader[s] = "stopped" => Exceeded
    /\ sup.pc \in {"idle", "spawn", "result"} => ReadersDone
    /\ sup.pc \in {"leave", "ended"} /\ cancels <= 1 => ReadersDone
    /\ sup.pc \in {"cgrace", "ckilled", "cdrain"} => cancels > 0

\* A review leaves with success only over two whole outputs.
SuccessKnown ==
    sup.pc \in {"leave", "ended"} /\ kind = "review" /\ sup.status = "succeeded" =>
        sup.phase = 2 /\ sup.whole

\* The inductive invariant.
SupervisionInv ==
    /\ TypeOK /\ ReadersStop /\ EarlyIsDead /\ LeaderKnown
    /\ DirsKnown /\ SuccessKnown /\ PipesKnown

-----------------------------------------------------------------------------
LEMMA SupervisionInit == Init => SupervisionInv
  <1> SUFFICES ASSUME Init PROVE SupervisionInv
    OBVIOUS
  <1>1. group \in Groups /\ ~Running /\ ~group.early
    BY DEF Init, NoGroup, Groups, Running
  <1>2. sup \in Supervisors /\ sup.pc = "idle"
    BY DEF Init, Supervisors, Places, Verdicts
  <1>3. full \in BOOLEAN /\ stop \in BOOLEAN /\ expired \in BOOLEAN
    BY Zenon DEF Init
  <1>4. TypeOK
    BY <1>1, <1>2, <1>3, SupervisionAssumption
       DEF Init, TypeOK, Groups, Supervisors, Places, Verdicts
  <1> QED BY <1>1, <1>2, <1>4, SupervisionAssumption DEF Init, SupervisionInv, ReadersStop,
        EarlyIsDead, LeaderKnown, DirsKnown, SuccessKnown, PipesKnown, ReadersDone, Holds,
        NoGroup

\* A step that starts no process and leaves the readers alone: what they tell
\* stays true.
LEMMA PipesStay ==
    ASSUME PipesKnown, UNCHANGED <<reader, total, cancels>>,
           ~Running /\ ~Holds => ~Running' /\ ~Holds',
           sup'.pc \in {"idle", "spawn", "result"} => ReadersDone,
           sup'.pc \in {"leave", "ended"} /\ cancels <= 1 => ReadersDone,
           sup'.pc \in {"cgrace", "ckilled", "cdrain"} => cancels > 0
    PROVE  PipesKnown'
  BY DEF PipesKnown, ReadersDone, Exceeded

\* What the supervisor waits for is the end of the leader.
LEMMA WaitedIsDead ==
    ASSUME SupervisionInv, Waited
    PROVE  group.leader = "dead" /\ ~Running
  BY DEF SupervisionInv, EarlyIsDead, Waited, Disconnected, Closed, Running

\* The processes and the readers: nothing starts a leader.
LEMMA ProcessesKeep ==
    ASSUME SupervisionInv,
           \/ \E s \in Streams : Write(s) \/ Read(s) \/ ReadEnd(s)
           \/ Spawn \/ LeaderExits \/ ChildCloses \/ ChildExits
    PROVE  SupervisionInv'
  <1>0. TypeOK /\ group \in Groups /\ Limit \in Nat /\ PipeSize \in Nat
    BY SupervisionAssumption DEF SupervisionInv, TypeOK, Groups
  <1>1. ASSUME NEW s \in Streams, Write(s) PROVE SupervisionInv'
    <2>1. pipe' \in [Streams -> 0 .. PipeSize]
      <3>1. pipe[s] + 1 \in 0 .. PipeSize /\ pipe' = [pipe EXCEPT ![s] = pipe[s] + 1]
        BY <1>0, <1>1 DEF Write, TypeOK
      <3> QED BY <1>0, <3>1 DEF TypeOK
    <2>2. UNCHANGED <<kind, stop, cancels, expired, group, reader, total, full, sup, dirs>>
      BY <1>1 DEF Write, outside
    <2>3. TypeOK'
      BY <1>0, <2>1, <2>2 DEF TypeOK
    <2>4. PipesKnown'
      BY <2>2, PipesStay DEF SupervisionInv, PipesKnown, Running, Holds
    <2> QED BY <2>2, <2>3, <2>4 DEF SupervisionInv, ReadersStop, EarlyIsDead, LeaderKnown,
               DirsKnown, SuccessKnown, Running, Shielded
  <1>2. ASSUME NEW s \in Streams, Read(s) PROVE SupervisionInv'
    <2>1. UNCHANGED <<kind, stop, cancels, expired, group, full, sup, dirs>>
      BY <1>2 DEF Read, outside
    <2>2. pipe' \in [Streams -> 0 .. PipeSize]
      <3>1. pipe[s] - 1 \in 0 .. PipeSize /\ pipe' = [pipe EXCEPT ![s] = pipe[s] - 1]
        BY <1>0, <1>2 DEF Read, TypeOK
      <3> QED BY <1>0, <3>1 DEF TypeOK
    <2>3. /\ reader[s] = "reading" /\ total' = total + 1 /\ total \in Nat
          /\ reader' = [reader EXCEPT ![s] = IF total + 1 > Limit THEN "stopped" ELSE "reading"]
          /\ reader \in [Streams -> {"off", "reading", "end", "stopped"}]
      BY <1>0, <1>2 DEF Read, TypeOK
    <2>4. total <= Limit + 1
      BY <1>0, <2>3 DEF SupervisionInv, ReadersStop
    <2>5. ReadersStop'
      <3>1. CASE total + 1 > Limit
        <4>1. reader'[s] = "stopped" /\ \A r \in Streams : r # s => reader'[r] = reader[r]
          BY <2>3, <3>1
        <4>2. total + 1 > Limit + 1 => \E r \in Streams : r # s /\ reader[r] = "stopped"
          BY <1>0, <2>3 DEF SupervisionInv, ReadersStop
        <4> QED BY <2>3, <4>1, <4>2 DEF ReadersStop, Streams
      <3>2. CASE ~(total + 1 > Limit)
        BY <1>0, <2>3, <3>2 DEF ReadersStop
      <3> QED BY <3>1, <3>2
    <2>6. TypeOK'
      BY <1>0, <2>1, <2>2, <2>3, <2>4 DEF TypeOK
    <2>7. PipesKnown'
      <3>1. /\ reader' = [reader EXCEPT ![s] = IF total' > Limit THEN "stopped" ELSE "reading"]
            /\ total \in Nat /\ total' > total
        BY <2>3
      <3>2. \A r \in Streams : reader'[r] \in {"off", "end"} => reader[r] = reader'[r]
        BY <2>3, <3>1
      <3>3. \A r \in Streams : reader'[r] = "stopped" => total' > Limit
        BY <1>0, <2>3, <3>1 DEF SupervisionInv, PipesKnown, Exceeded
      <3>4. ~ReadersDone
        BY <2>3 DEF ReadersDone
      <3> QED BY <2>1, <3>2, <3>3, <3>4 DEF SupervisionInv, PipesKnown, Exceeded, Running, Holds
    <2> QED BY <2>1, <2>5, <2>6, <2>7 DEF SupervisionInv, EarlyIsDead, LeaderKnown,
               DirsKnown, SuccessKnown, Running, Shielded
  <1>3. ASSUME NEW s \in Streams, ReadEnd(s) PROVE SupervisionInv'
    <2>1. UNCHANGED <<kind, stop, cancels, expired, group, full, sup, dirs, pipe, total>>
      BY <1>3 DEF ReadEnd, outside
    <2>2. /\ reader[s] = "reading" /\ reader' = [reader EXCEPT ![s] = "end"]
          /\ reader \in [Streams -> {"off", "reading", "end", "stopped"}]
      BY <1>0, <1>3 DEF ReadEnd, TypeOK
    <2>3. TypeOK'
      BY <1>0, <2>1, <2>2 DEF TypeOK
    <2>4. ReadersStop'
      BY <2>1, <2>2 DEF SupervisionInv, ReadersStop
    <2>5. PipesKnown'
      <3>1. ~Running /\ ~Holds /\ ~ReadersDone
        BY <1>3, <2>2 DEF ReadEnd, Closed, Running, ReadersDone
      <3>2. \A r \in Streams : reader'[r] \in {"off", "stopped"} => reader[r] = reader'[r]
        BY <2>2
      <3> QED BY <2>1, <3>1, <3>2 DEF SupervisionInv, PipesKnown, Exceeded, Running, Holds
    <2> QED BY <2>1, <2>3, <2>4, <2>5 DEF SupervisionInv, EarlyIsDead, LeaderKnown,
               DirsKnown, SuccessKnown, Running, Shielded
  <1>4. CASE Spawn \/ LeaderExits \/ ChildCloses \/ ChildExits
    <2>1. UNCHANGED <<kind, stop, cancels, expired, pipe, reader, total, full, sup, dirs>>
      BY <1>4 DEF Spawn, LeaderExits, ChildCloses, ChildExits, outside
    <2>2. /\ group' \in Groups
          /\ group'.early => group'.leader = "dead"
          /\ group'.leader = "running" => group.leader = "running"
          /\ ~Running /\ ~Holds => ~Running' /\ ~Holds'
      BY <1>0, <1>4 DEF Spawn, LeaderExits, ChildCloses, ChildExits, Groups, Running, Holds,
         SupervisionInv, EarlyIsDead
    <2>3. TypeOK'
      BY <1>0, <2>1, <2>2 DEF TypeOK, Groups
    <2>4. PipesKnown'
      BY <2>1, <2>2, PipesStay DEF SupervisionInv, PipesKnown
    <2> QED BY <2>1, <2>2, <2>3, <2>4 DEF SupervisionInv, ReadersStop, EarlyIsDead, LeaderKnown,
               DirsKnown, SuccessKnown, Running, Shielded
  <1> QED BY <1>1, <1>2, <1>3, <1>4

\* Events that are set, and time.
LEMMA EventsKeep ==
    ASSUME SupervisionInv, MonitorFindsFull \/ RequestStop \/ Expire
    PROVE  SupervisionInv'
  <1>1. UNCHANGED <<kind, cancels, group, pipe, reader, total, sup, dirs>>
    BY DEF MonitorFindsFull, RequestStop, Expire, outside
  <1>2. /\ full' = full \/ full' = TRUE
        /\ stop' = stop \/ stop' = TRUE
        /\ expired' = expired \/ expired' = TRUE
    BY DEF MonitorFindsFull, RequestStop, Expire, outside
  <1>3. full' \in BOOLEAN /\ stop' \in BOOLEAN /\ expired' \in BOOLEAN
    BY <1>2, Zenon DEF SupervisionInv, TypeOK
  <1>4. TypeOK'
    BY <1>1, <1>3 DEF SupervisionInv, TypeOK
  <1>5. PipesKnown'
    BY <1>1, PipesStay DEF SupervisionInv, PipesKnown, Running, Holds
  <1> QED BY <1>1, <1>4, <1>5 DEF SupervisionInv, ReadersStop, EarlyIsDead, LeaderKnown,
        DirsKnown, SuccessKnown, Running, Shielded

\* A step of the supervisor alone.
LEMMA SupKeeps ==
    ASSUME SupervisionInv, group' \in Groups, sup' \in Supervisors,
           UNCHANGED <<kind, stop, cancels, expired, pipe, reader, total, full>>,
           EarlyIsDead', LeaderKnown', DirsKnown', SuccessKnown', PipesKnown',
           dirs' \in {"none", "partial", "present", "removed"}
    PROVE  SupervisionInv'
  <1>1. TypeOK'
    BY DEF SupervisionInv, TypeOK, Groups, Supervisors, Places, Verdicts
  <1> QED BY <1>1 DEF SupervisionInv, ReadersStop

LEMMA InvTypes ==
    ASSUME SupervisionInv
    PROVE  /\ TypeOK /\ group \in Groups /\ sup \in Supervisors
           /\ kind \in Agents \cup {"async", "sync"} /\ cancels \in Nat
           /\ dirs \in {"none", "partial", "present", "removed"}
  BY SupervisionAssumption DEF SupervisionInv, TypeOK, Groups, Supervisors, Places, Verdicts

\* Where Leave goes.
LEMMA LeaveIs ==
    ASSUME SupervisionInv, NEW v \in Verdicts
    PROVE  /\ Leave(v) \in Supervisors /\ Leave(v).status = v
           /\ Leave(v).phase = sup.phase /\ (Leave(v).whole <=> sup.whole)
           /\ Leave(v).pc = IF kind \in Agents THEN "leave" ELSE "ended"
  BY InvTypes DEF Leave, Supervisors, Places

\* A step over a leader that is not started, to a place where it is not ended.
LEMMA MidKeeps ==
    ASSUME SupervisionInv, group' \in Groups, sup' \in Supervisors,
           UNCHANGED <<kind, stop, cancels, expired, pipe, reader, total, full, dirs>>,
           group'.early => group'.leader = "dead", sup.pc \notin {"idle", "ended"},
           sup'.pc \notin {"idle", "leave", "ended"},
           ~Running /\ ~Holds => ~Running' /\ ~Holds',
           sup'.pc \in {"spawn", "result"} => ReadersDone,
           sup'.pc \in {"cgrace", "ckilled", "cdrain"} => cancels > 0,
           group'.leader = "running" => sup'.pc \in {"wait", "grace", "cgrace"}
    PROVE  SupervisionInv'
  <1>1. EarlyIsDead' /\ LeaderKnown' /\ SuccessKnown'
    BY DEF EarlyIsDead, LeaderKnown, SuccessKnown, Running
  <1>2. DirsKnown'
    BY DEF SupervisionInv, DirsKnown
  <1>3. PipesKnown'
    BY PipesStay DEF SupervisionInv
  <1> QED BY <1>1, <1>2, <1>3, InvTypes, SupKeeps

\* A supervisor leaves with a result or an error over a leader that is dead.
LEMMA LeavingKeeps ==
    ASSUME SupervisionInv, NEW v \in Verdicts, sup' = Leave(v),
           UNCHANGED <<kind, stop, cancels, expired, group, pipe, reader, total, full, dirs>>,
           ~Running, sup.pc \notin {"idle", "ended"}, ReadersDone,
           kind = "review" /\ v = "succeeded" => sup.phase = 2 /\ sup.whole
    PROVE  SupervisionInv'
  <1>1. /\ sup' \in Supervisors /\ sup'.status = v
        /\ sup'.phase = sup.phase /\ (sup'.whole <=> sup.whole)
        /\ sup'.pc = IF kind \in Agents THEN "leave" ELSE "ended"
    BY LeaveIs
  <1>2. EarlyIsDead' /\ LeaderKnown' /\ SuccessKnown'
    BY <1>1 DEF SupervisionInv, EarlyIsDead, LeaderKnown, SuccessKnown, Running
  <1>3. DirsKnown'
    BY <1>1 DEF SupervisionInv, DirsKnown
  <1>4. PipesKnown'
    BY <1>1, PipesStay DEF SupervisionInv, Running, Holds
  <1> QED BY <1>1, <1>2, <1>3, <1>4, InvTypes, SupKeeps

\* From the start to the end of the waits.
LEMMA WaitsKeep ==
    ASSUME SupervisionInv, Begin \/ Start \/ Wake
    PROVE  SupervisionInv'
  <1>0. /\ TypeOK /\ group \in Groups /\ sup \in Supervisors
        /\ kind \in Agents \cup {"async", "sync"} /\ dirs \in {"none", "partial", "present", "removed"}
    BY InvTypes
  <1>1. CASE Begin
    <2>1. UNCHANGED <<kind, stop, cancels, expired, group, pipe, reader, total, full>>
      BY <1>1 DEF Begin, outside
    <2>2. /\ sup.pc = "idle" /\ dirs = "none" /\ ~Running /\ sup' \in Supervisors
          /\ \/ sup'.pc = "ended" /\ sup'.status \in {"cancelled", "error"} /\ dirs' = dirs
             \/ /\ sup'.pc = "ended" /\ sup'.status = "error"
                /\ kind \in Agents /\ dirs' = "partial"
             \/ sup'.pc = "spawn" /\ dirs' = IF kind \in Agents THEN "present" ELSE dirs
      BY <1>0, <1>1 DEF Begin, At, Step, Supervisors, Places, Verdicts, SupervisionInv,
         DirsKnown, LeaderKnown
    <2>3. EarlyIsDead' /\ LeaderKnown' /\ SuccessKnown' /\ DirsKnown'
      BY <2>1, <2>2 DEF SupervisionInv, EarlyIsDead, LeaderKnown, SuccessKnown, DirsKnown,
         Running
    <2>4. PipesKnown'
      BY <2>1, <2>2, PipesStay DEF SupervisionInv, PipesKnown, Running, Holds
    <2> QED BY <1>0, <2>1, <2>2, <2>3, <2>4, SupKeeps
  <1>2. CASE Start
    <2>1. CASE sup' = Leave("error") /\ UNCHANGED <<group, pipe, reader, total, full>>
      <3>1. ~Running /\ sup.pc = "spawn" /\ ReadersDone
        BY <1>2 DEF Start, At, SupervisionInv, LeaderKnown, PipesKnown
      <3> QED BY <1>2, <2>1, <3>1, LeavingKeeps DEF Start, outside, Verdicts
    <2>2. CASE /\ group' = [NoGroup EXCEPT !.leader = "running"]
               /\ pipe' = [s \in Streams |-> 0]
               /\ reader' = [s \in Streams |-> "reading"]
               /\ total' = 0 /\ full' = FALSE
               /\ sup' = Step("wait")
      <3>1. sup.pc = "spawn" /\ UNCHANGED <<kind, stop, cancels, expired, dirs>>
        BY <1>2 DEF Start, At, outside
      <3>2. group' \in Groups /\ ~group'.early
        BY <2>2 DEF NoGroup, Groups
      <3>3. sup' \in Supervisors /\ sup'.pc = "wait"
        BY <1>0, <2>2 DEF Step, Supervisors, Places
      <3>4. full' \in BOOLEAN
        BY <2>2, Zenon
      <3>5. TypeOK'
        BY <1>0, <2>2, <3>1, <3>2, <3>3, <3>4, SupervisionAssumption
           DEF TypeOK, Groups, Supervisors, Places, Verdicts
      <3>6. ReadersStop' /\ EarlyIsDead' /\ LeaderKnown' /\ SuccessKnown'
        BY <2>2, <3>2, <3>3, SupervisionAssumption DEF ReadersStop, EarlyIsDead, LeaderKnown,
           SuccessKnown
      <3>7. DirsKnown'
        BY <3>1, <3>3 DEF SupervisionInv, DirsKnown
      <3>8. PipesKnown'
        BY <2>2, <3>3 DEF PipesKnown
      <3> QED BY <3>5, <3>6, <3>7, <3>8 DEF SupervisionInv
    <2> QED BY <1>2, <2>1, <2>2 DEF Start
  <1>3. CASE Wake
    <2>1. /\ sup.pc = "wait"
          /\ UNCHANGED <<kind, stop, cancels, expired, group, pipe, reader, total, full, dirs>>
      BY <1>3 DEF Wake, At, outside
    <2>2. PICK completed \in SUBSET Causes :
             sup' = [sup EXCEPT !.status = Verdict(completed),
                       !.pc = IF \/ "exit" \in completed /\ completed \cap {"limit", "full"} = {}
                                 \/ ~Running
                              THEN "drain" ELSE "grace"]
      BY <1>3 DEF Wake
    <2>3. Verdict(completed) \in Verdicts
      BY DEF Verdict, Verdicts
    <2>4. "exit" \in completed => ~Running
      BY WaitedIsDead DEF Causes
    <2>5. sup' \in Supervisors /\ sup'.pc \in {"drain", "grace"} /\ (Running => sup'.pc = "grace")
      BY <1>0, <2>2, <2>3, <2>4 DEF Supervisors, Places
    <2> QED BY <1>0, <2>1, <2>5, MidKeeps DEF SupervisionInv, EarlyIsDead, Running, Holds
  <1> QED BY <1>1, <1>2, <1>3

\* The grace period and the kill, on the way to a result or to an exception.
LEMMA GraceKeeps ==
    ASSUME SupervisionInv, NEW at \in {"grace", "cgrace"}, NEW killed \in {"killed", "ckilled"},
           NEW next \in {"drain", "cdrain"}, Grace(at, killed, next),
           at = "grace" => killed = "killed" /\ next = "drain"
    PROVE  SupervisionInv'
  <1>0. group \in Groups /\ sup \in Supervisors
    BY InvTypes
  <1>1. /\ sup.pc = at
        /\ UNCHANGED <<kind, stop, cancels, expired, pipe, reader, total, full, dirs>>
    BY DEF Grace, At, outside
  <1>4. at = "cgrace" => cancels > 0
    BY <1>1 DEF SupervisionInv, PipesKnown
  <1>2. CASE Waited /\ sup' = Step(next) /\ group' = group
    <2>1. sup' \in Supervisors /\ sup'.pc = next
      BY <1>0, <1>2 DEF Step, Supervisors, Places
    <2> QED BY <1>0, <1>1, <1>4, <1>2, <2>1, WaitedIsDead, MidKeeps DEF Running, Holds
  <1>3. CASE group' = Killed /\ sup' = Step(IF Running THEN killed ELSE next)
    <2>1. sup' \in Supervisors /\ sup'.pc \in {killed, next}
      BY <1>0, <1>3 DEF Step, Supervisors, Places
    <2>2. Gone \in Groups /\ Gone.leader = "dead"
      BY <1>0 DEF Gone, Groups
    <2>3. group' \in Groups /\ group'.leader # "running"
      BY <1>0, <1>3, <2>2 DEF Killed, Running
    <2>4. group'.early => group'.leader = "dead"
      BY <1>0, <1>3, <2>2 DEF Killed, SupervisionInv, EarlyIsDead
    <2>5. ~Running /\ ~Holds => ~Running' /\ ~Holds'
      BY <1>0, <1>3 DEF Killed, Gone, Groups, Running, Holds
    <2> QED BY <1>1, <1>4, <2>1, <2>3, <2>4, <2>5, MidKeeps
  <1> QED BY <1>2, <1>3 DEF Grace

LEMMA AfterKillKeeps ==
    ASSUME SupervisionInv, NEW at \in {"killed", "ckilled"},
           NEW next \in {"drain", "cdrain"}, AfterKill(at, next),
           at = "killed" => next = "drain"
    PROVE  SupervisionInv'
  <1>0. group \in Groups /\ sup \in Supervisors
    BY InvTypes
  <1>1. /\ sup.pc = at /\ Waited /\ sup' = Step(next)
        /\ UNCHANGED <<kind, stop, cancels, expired, group, pipe, reader, total, full, dirs>>
    BY DEF AfterKill, At, outside
  <1>3. at = "ckilled" => cancels > 0
    BY <1>1 DEF SupervisionInv, PipesKnown
  <1>2. sup' \in Supervisors /\ sup'.pc = next
    BY <1>0, <1>1 DEF Step, Supervisors, Places
  <1> QED BY <1>0, <1>1, <1>3, <1>2, WaitedIsDead, MidKeeps DEF Running, Holds

\* The result and the conversion of a review.
LEMMA ResultKeeps ==
    ASSUME SupervisionInv,
           Collect \/ Adapt \/ Adapted \/ Result \/ CancelledCollect \/ RemoveDirectories
    PROVE  SupervisionInv'
  <1>0. /\ TypeOK /\ group \in Groups /\ sup \in Supervisors
        /\ kind \in Agents \cup {"async", "sync"} /\ dirs \in {"none", "partial", "present", "removed"}
    BY InvTypes
  <1>1. CASE Collect
    <2>1. /\ sup.pc = "drain" /\ ~Running /\ ReadersDone
          /\ UNCHANGED <<kind, stop, cancels, expired, group, pipe, reader, total, full, dirs>>
      BY <1>1 DEF Collect, Drained, At, outside, SupervisionInv, LeaderKnown
    <2> DEFINE whole == ~Exceeded /\ ~(kind \in Agents /\ full)
    <2>2. /\ Exceeded \in BOOLEAN /\ (sup.whole /\ whole) \in BOOLEAN
      BY DEF Exceeded
    <2>3. sup' = [sup EXCEPT !.cut = Exceeded, !.whole = @ /\ whole,
                             !.pc = IF kind \in Agents THEN "result" ELSE "ended"]
      BY <1>0, <1>1 DEF Collect, Supervisors
    <2>4. sup' \in Supervisors /\ sup'.pc = IF kind \in Agents THEN "result" ELSE "ended"
      BY <1>0, <2>2, <2>3 DEF Supervisors, Places
    <2>5. EarlyIsDead' /\ LeaderKnown' /\ SuccessKnown' /\ DirsKnown'
      BY <2>1, <2>4 DEF SupervisionInv, EarlyIsDead, LeaderKnown, SuccessKnown, DirsKnown,
         Running, Agents
    <2>6. PipesKnown'
      BY <2>1, <2>4, PipesStay DEF SupervisionInv, Running, Holds
    <2> QED BY <1>0, <2>1, <2>4, <2>5, <2>6, SupKeeps
  <1>2. CASE Adapt
    <2>1. /\ sup.pc = "result" /\ ~Running /\ ReadersDone
          /\ UNCHANGED <<kind, stop, cancels, expired, group, pipe, reader, total, full, dirs>>
      BY <1>2 DEF Adapt, At, outside, SupervisionInv, LeaderKnown, PipesKnown
    <2>2. CASE sup' = [sup EXCEPT !.pc = "spawn", !.phase = 2]
      <3>1. sup' \in Supervisors /\ sup'.pc = "spawn"
        BY <1>0, <2>2 DEF Supervisors, Places
      <3> QED BY <1>0, <2>1, <3>1, MidKeeps DEF SupervisionInv, EarlyIsDead, Running, Holds
    <2>3. CASE \E v \in {"cancelled", "timed_out", "failed"} : sup' = Leave(v)
      BY <2>1, <2>3, LeavingKeeps DEF Verdicts
    <2> QED BY <1>2, <2>2, <2>3 DEF Adapt
  <1>3. CASE Adapted \/ Result
    <2>1. /\ sup.pc = "result" /\ ~Running /\ ReadersDone
          /\ UNCHANGED <<kind, stop, cancels, expired, group, pipe, reader, total, full, dirs>>
      BY <1>3 DEF Adapted, Result, At, outside, SupervisionInv, LeaderKnown, PipesKnown
    <2>2. \E v \in Verdicts :
             /\ sup' = Leave(v)
             /\ kind = "review" /\ v = "succeeded" => sup.phase = 2 /\ sup.whole
      BY <1>0, <1>3 DEF Adapted, Result, Adaptable, Verdicts, Supervisors
    <2> QED BY <2>1, <2>2, LeavingKeeps
  <1>4. CASE CancelledCollect
    <2>1. /\ sup.pc = "cdrain" /\ ~Running /\ ReadersDone /\ sup' = Leave("error")
          /\ UNCHANGED <<kind, stop, cancels, expired, group, pipe, reader, total, full, dirs>>
      BY <1>4 DEF CancelledCollect, At, outside, SupervisionInv, LeaderKnown
    <2> QED BY <2>1, LeavingKeeps DEF Verdicts
  <1>5. CASE RemoveDirectories
    <2>1. /\ sup.pc = "leave" /\ kind \in Agents
          /\ UNCHANGED <<kind, stop, cancels, expired, group, pipe, reader, total, full>>
      BY <1>5 DEF RemoveDirectories, At, outside, SupervisionInv, DirsKnown
    <2>2. /\ sup' \in Supervisors /\ sup'.pc = "ended"
          /\ sup'.phase = sup.phase /\ (sup'.whole <=> sup.whole)
          /\ \/ dirs' = "removed" /\ sup'.status = sup.status
             \/ dirs' = dirs /\ sup'.status = "unremoved"
      BY <1>0, <1>5 DEF RemoveDirectories, Step, Supervisors, Places, Verdicts
    <2>3. EarlyIsDead' /\ LeaderKnown' /\ SuccessKnown'
      BY <2>1, <2>2 DEF SupervisionInv, EarlyIsDead, LeaderKnown, SuccessKnown, Running, Shielded
    <2>4. DirsKnown'
      BY <2>1, <2>2 DEF SupervisionInv, DirsKnown
    <2>5. PipesKnown'
      BY <2>1, <2>2, PipesStay DEF SupervisionInv, PipesKnown, Running, Holds
    <2> QED BY <1>0, <2>1, <2>2, <2>3, <2>4, <2>5, SupKeeps
  <1> QED BY <1>1, <1>2, <1>3, <1>4, <1>5

\* The task of the supervisor is cancelled.
LEMMA CancelKeeps ==
    ASSUME SupervisionInv, Cancel
    PROVE  SupervisionInv'
  <1>0. /\ TypeOK /\ group \in Groups /\ sup \in Supervisors /\ cancels \in Nat
        /\ kind \in Agents \cup {"async", "sync"}
    BY InvTypes
  <1>1. /\ kind # "sync" /\ cancels' = cancels + 1 /\ cancels' \in 0 .. MaxCancels
        /\ UNCHANGED <<kind, group, pipe, reader, total, full, stop, expired, dirs>>
    BY <1>0, SupervisionAssumption DEF Cancel, TypeOK
  <1>2. Leave("error") \in Supervisors /\ Leave("error").status = "error"
        /\ Leave("error").pc = IF kind \in Agents THEN "leave" ELSE "ended"
    BY LeaveIs DEF Verdicts
  <1>3. /\ sup' \in Supervisors /\ sup.pc \notin {"idle", "leave", "ended"}
        /\ \/ sup'.pc = IF Running THEN "cgrace" ELSE "cdrain"
           \/ sup' = sup /\ sup.pc \in {"cgrace", "ckilled"}
           \/ /\ sup' = Leave("error") /\ sup.pc \in {"cgrace", "ckilled", "cdrain"}
              /\ sup.pc = "cdrain" \/ cancels' > Shielded
    BY <1>0, <1>2 DEF Cancel, At, Supervisors, Places, Verdicts
  <1>4. TypeOK'
    BY <1>0, <1>1, <1>3 DEF TypeOK, Supervisors, Places, Verdicts
  <1>5. LeaderKnown'
    BY <1>0, <1>1, <1>2, <1>3 DEF SupervisionInv, LeaderKnown, Running, Shielded, Agents
  <1>6. SuccessKnown' /\ DirsKnown'
    BY <1>1, <1>2, <1>3 DEF SupervisionInv, SuccessKnown, DirsKnown
  <1>7. PipesKnown'
    <2>1. sup'.pc \notin {"idle", "spawn", "result"}
      BY <1>2, <1>3
    <2>2. sup'.pc \in {"leave", "ended"} => cancels' > 1
      BY <1>0, <1>1, <1>2, <1>3 DEF SupervisionInv, PipesKnown
    <2> QED BY <1>0, <1>1, <2>1, <2>2 DEF SupervisionInv, PipesKnown, ReadersDone, Exceeded,
               Running, Holds
  <1> QED BY <1>1, <1>4, <1>5, <1>6, <1>7 DEF SupervisionInv, ReadersStop, EarlyIsDead

LEMMA SupervisionInvariant == Spec => []SupervisionInv
  <1>1. SupervisionInv /\ [Next]_vars => SupervisionInv'
    <2> SUFFICES ASSUME SupervisionInv, [Next]_vars PROVE SupervisionInv'
      OBVIOUS
    <2>1. CASE UNCHANGED vars
      BY <2>1 DEF vars, SupervisionInv, TypeOK, ReadersStop, EarlyIsDead, LeaderKnown,
         DirsKnown, SuccessKnown, PipesKnown, ReadersDone, Exceeded, Running, Holds, Shielded
    <2>2. CASE GraceEnds \/ CancelledGraceEnds
      BY <2>2, GraceKeeps DEF GraceEnds, CancelledGraceEnds
    <2>3. CASE KillEnds \/ CancelledKillEnds
      BY <2>3, AfterKillKeeps DEF KillEnds, CancelledKillEnds
    <2> QED BY <2>1, <2>2, <2>3, ProcessesKeep, EventsKeep, WaitsKeep, ResultKeeps, CancelKeeps
           DEF Next, Supervise
  <1> QED BY <1>1, SupervisionInit, PTL DEF Spec

-----------------------------------------------------------------------------
\* Every variable of a supervised command keeps its type; the readers take two
\* chunks more than the limit at most.
THEOREM SupervisionTypes == Spec => []TypeOK
  <1>1. SupervisionInv => TypeOK
    BY DEF SupervisionInv
  <1> QED BY <1>1, SupervisionInvariant, PTL

\* A supervisor that has ended leaves no running leader, unless its task was
\* cancelled more often than it shields its cleanup against; no descendant with
\* the output pipes open, unless the task was cancelled twice or the output
\* limit passed; and no directories, unless rmtree failed and the run says so.
THEOREM RunsAreCleanedUp == Spec => []NothingIsLeftBehind
  <1>1. SupervisionInv => NothingIsLeftBehind
    <2> SUFFICES ASSUME SupervisionInv PROVE NothingIsLeftBehind
      OBVIOUS
    <2>0. cancels \in Nat
      BY InvTypes
    <2>1. LeaderIsReaped
      BY <2>0 DEF SupervisionInv, LeaderKnown, LeaderIsReaped, At, Shielded
    <2>2. PipesAreReleased
      <3> SUFFICES ASSUME At("ended"), cancels <= 1, Holds PROVE Exceeded
        BY DEF PipesAreReleased
      <3>1. \A s \in Streams : reader[s] \notin {"reading", "off", "end"}
        BY DEF SupervisionInv, PipesKnown, ReadersDone, At
      <3>2. \A s \in Streams : reader[s] = "stopped"
        BY <3>1 DEF SupervisionInv, TypeOK
      <3> QED BY <3>2 DEF SupervisionInv, PipesKnown, Streams
    <2>3. dirs = "removed" /\ cancels <= 1 => ~Running
      BY <2>0 DEF SupervisionInv, LeaderKnown, DirsKnown, Shielded, Agents
    <2>4. At("ended") /\ dirs = "present" => sup.status = "unremoved"
      BY DEF SupervisionInv, DirsKnown, At
    <2> QED BY <2>1, <2>2, <2>3, <2>4 DEF NothingIsLeftBehind, DirectoriesFollowLeader
  <1> QED BY <1>1, SupervisionInvariant, PTL

\* A PR review that succeeds rests on two processes whose whole output was read,
\* whatever limit was reached after an exit had decided the status.
THEOREM SuccessfulReviewsAreWhole == Spec => []ReviewIsWhole
  <1>1. SupervisionInv => ReviewIsWhole
    BY DEF SupervisionInv, SuccessKnown, ReviewIsWhole, At
  <1> QED BY <1>1, SupervisionInvariant, PTL
=============================================================================
