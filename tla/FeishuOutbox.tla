---------------------------- MODULE FeishuOutbox ----------------------------
(***************************************************************************)
(* Commands that arrive by Feishu, their replies and the notices of        *)
(* completed tasks. The relay thread handles one message after the other   *)
(* and sends the reply itself; the outbox thread sends what is pending in  *)
(* the database, again and again. Both send under the delivery lock, but a *)
(* reply is committed to the database before the relay asks for it.        *)
(*                                                                         *)
(* Feishu may deliver a message several times, sending may fail with or    *)
(* without the text having arrived, a database operation may fail, and the *)
(* process may be killed at any point.                                     *)
(***************************************************************************)
EXTENDS Naturals, FiniteSets

CONSTANTS
    Commands,      \* messages with a command that creates a task or a review
    Notices,       \* notices of completed tasks
    MaxDeliveries, \* deliveries of one message by Feishu
    MaxErrors,     \* sends that report an error
    MaxFaults,     \* database operations that fail
    MaxCrashes

ASSUME OutboxAssumption ==
    /\ Commands \cap Notices = {} /\ Commands \cup Notices # {}
    /\ {MaxDeliveries, MaxErrors, MaxFaults, MaxCrashes} \subseteq Nat

Messages == Commands \cup Notices

VARIABLES
    event,    \* feishu_events: status, reply_status and reply_text
    effect,   \* tasks and reviews that a command has created
    relay,    \* the relay thread: its place, message and text to send
    outbox,   \* the outbox thread: its place, message and what is left to send
    lock,     \* holder of the delivery lock
    up,       \* the process: down, starting (the drain of start()) or up
    told,     \* texts of each message that have arrived
    inbox,    \* deliveries of each command
    budget    \* errors, faults and crashes so far

vars == <<event, effect, relay, outbox, lock, up, told, inbox, budget>>

Texts == {"none", "done", "refused", "failed", "interrupted", "apology"}

NoEvent == [status |-> "none", reply |-> "none", text |-> "none"]
IdleRelay == [pc |-> "idle", m |-> CHOOSE m \in Messages : TRUE, text |-> "none", err |-> FALSE]
IdleOutbox == [pc |-> "idle", m |-> CHOOSE m \in Messages : TRUE, left |-> {}, err |-> FALSE]

Init ==
    /\ event = [m \in Messages |-> NoEvent]
    /\ effect = [m \in Commands |-> 0]
    /\ relay = IdleRelay /\ outbox = IdleOutbox
    /\ lock = "free" /\ up = "starting"
    /\ told = [m \in Messages |-> {}]
    /\ inbox = [m \in Commands |-> 0]
    /\ budget = [errors |-> 0, faults |-> 0, crashes |-> 0]

\* A database operation raises something that is not an IntegrityError.
Fault ==
    /\ budget.faults < MaxFaults
    /\ budget' = [budget EXCEPT !.faults = @ + 1]

-----------------------------------------------------------------------------
(***************************************************************************)
(* FeishuBot._handle and FeishuCommandService.handle, in the relay thread. *)
(***************************************************************************)
Receive(m) ==
    /\ up = "up" /\ relay.pc = "idle"
    /\ inbox[m] < MaxDeliveries
    /\ inbox' = [inbox EXCEPT ![m] = @ + 1]
    /\ relay' = [IdleRelay EXCEPT !.pc = "insert", !.m = m]
    /\ UNCHANGED <<event, effect, outbox, lock, up, told, budget>>

\* _queue_reply, with the status of the event.
Answered(m, status, text) ==
    [event EXCEPT ![m] = [status |-> status, reply |-> "pending", text |-> text]]

\* The relay goes on to send a text.
ToSend(text) == [relay EXCEPT !.pc = "send", !.text = text]

\* Mutant: the message id is not unique.
BugNoDedupe ==
    /\ relay.pc = "insert"
    /\ event' = [event EXCEPT ![relay.m] = [NoEvent EXCEPT !.status = "processing"]]
    /\ relay' = [relay EXCEPT !.pc = "work"]
    /\ UNCHANGED <<effect, outbox, lock, up, told, inbox, budget>>

\* The event is inserted; a message that was seen before is dropped.
Insert ==
    /\ relay.pc = "insert"
    /\ IF event[relay.m].status # "none"
       THEN relay' = IdleRelay /\ UNCHANGED event
       ELSE \/ /\ event' = [event EXCEPT ![relay.m].status = "processing"]
               /\ relay' = [relay EXCEPT !.pc = "work"]
            \/ /\ event' = Answered(relay.m, "failed", "failed") \* no sender
               /\ relay' = ToSend("failed")
    /\ UNCHANGED <<effect, outbox, lock, up, told, inbox, budget>>

\* The command is carried out: what it creates, the status and the reply are
\* committed together.
CarryOut ==
    /\ relay.pc = "work"
    /\ effect' = [effect EXCEPT ![relay.m] = @ + 1]
    /\ event' = Answered(relay.m, "processed", "done")
    /\ relay' = ToSend("done")
    /\ UNCHANGED <<outbox, lock, up, told, inbox, budget>>

\* The release gate is closed, or the command fails and is rolled back.
TurnDown ==
    /\ relay.pc = "work"
    /\ \E a \in {<<"processed", "refused">>, <<"failed", "failed">>} :
          /\ event' = Answered(relay.m, a[1], a[2])
          /\ relay' = ToSend(a[2])
    /\ UNCHANGED <<effect, outbox, lock, up, told, inbox, budget>>

\* handle() raises from one of its commits: the transaction is lost, and a
\* text that is not in the outbox is sent.
HandleRaises ==
    /\ relay.pc \in {"insert", "work"}
    /\ Fault
    /\ relay' = ToSend("apology")
    /\ UNCHANGED <<event, effect, outbox, lock, up, told, inbox>>

-----------------------------------------------------------------------------
(***************************************************************************)
(* _send_unlocked: send_text, then mark_reply_result.                      *)
(***************************************************************************)
\* The text arrives, does not arrive, or arrives and the answer is lost.
Transmit(m, text, err) ==
    LET arrives == [told EXCEPT ![m] = @ \cup {text}]
    IN \/ ~err /\ told' = arrives /\ UNCHANGED budget
       \/ /\ err /\ budget.errors < MaxErrors
          /\ budget' = [budget EXCEPT !.errors = @ + 1]
          /\ told' \in {told, arrives}

\* Mutant: whatever happened, the reply counts as sent.
BugMarkAlways(m, err) ==
    IF event[m].reply = "pending" THEN [event EXCEPT ![m].reply = "sent"] ELSE event

\* An error leaves the reply pending (with a time to wait). The result goes to
\* the reply of the message id, whatever text was sent: an apology that arrives
\* marks a reply that is still pending.
mark_reply_result(m, err) ==
    IF event[m].reply = "pending" /\ ~err THEN [event EXCEPT ![m].reply = "sent"] ELSE event

RelayLocks ==
    /\ relay.pc = "send" /\ lock = "free"
    /\ lock' = "relay"
    /\ relay' = [relay EXCEPT !.pc = "sending"]
    /\ UNCHANGED <<event, effect, outbox, up, told, inbox, budget>>

\* The reply is sent even if the outbox has sent it in the meantime.
RelaySends ==
    /\ relay.pc = "sending"
    /\ \E err \in BOOLEAN :
          /\ Transmit(relay.m, relay.text, err)
          /\ relay' = [relay EXCEPT !.pc = "mark", !.err = err]
    /\ UNCHANGED <<event, effect, outbox, lock, up, inbox>>

RelayMarks ==
    /\ relay.pc = "mark"
    /\ event' = mark_reply_result(relay.m, relay.err)
    /\ relay' = IdleRelay /\ lock' = "free"
    /\ UNCHANGED <<effect, outbox, up, told, inbox, budget>>

\* Nothing catches an exception of mark_reply_result: the relay thread ends.
RelayDies ==
    /\ relay.pc = "mark"
    /\ Fault
    /\ relay' = [IdleRelay EXCEPT !.pc = "dead"] /\ lock' = "free"
    /\ UNCHANGED <<event, effect, outbox, up, told, inbox>>

-----------------------------------------------------------------------------
(***************************************************************************)
(* FeishuBot._drain_pending, in the outbox thread and in start().          *)
(* pending_replies reads the first 100 pending rows; here it reads all, as *)
(* it does while at most 100 are pending.                                  *)
(***************************************************************************)
Drain ==
    /\ up # "down" /\ outbox.pc = "idle" /\ lock = "free"
    /\ lock' = "outbox"
    /\ outbox' = [outbox EXCEPT !.pc = "next",
                     !.left = {m \in Messages : event[m].reply = "pending"}]
    /\ UNCHANGED <<event, effect, relay, up, told, inbox, budget>>

DrainSends(m) ==
    /\ outbox.pc = "next" /\ m \in outbox.left
    /\ \E err \in BOOLEAN :
          /\ Transmit(m, event[m].text, err)
          /\ outbox' = [pc |-> "mark", m |-> m, left |-> outbox.left \ {m}, err |-> err]
    /\ UNCHANGED <<event, effect, relay, lock, up, inbox>>

DrainMarks ==
    /\ outbox.pc = "mark"
    /\ event' = mark_reply_result(outbox.m, outbox.err)
    /\ outbox' = [outbox EXCEPT !.pc = "next"]
    /\ UNCHANGED <<effect, relay, lock, up, told, inbox, budget>>

\* The gateway starts after the drain of start().
DrainEnds ==
    /\ outbox.pc = "next" /\ outbox.left = {}
    /\ outbox' = IdleOutbox /\ lock' = "free" /\ up' = "up"
    /\ UNCHANGED <<event, effect, relay, told, inbox, budget>>

\* pending_replies or mark_reply_result raises: start() fails with it, the
\* loop of the outbox thread ends.
OutboxDies ==
    /\ \/ outbox.pc = "idle" /\ up # "down" /\ lock = "free"
       \/ outbox.pc = "mark"
    /\ Fault
    /\ lock' = "free"
    /\ outbox' = [IdleOutbox EXCEPT !.pc = IF up = "starting" THEN "idle" ELSE "dead"]
    /\ up' = IF up = "starting" THEN "down" ELSE up
    /\ UNCHANGED <<event, effect, relay, told, inbox>>

-----------------------------------------------------------------------------
\* FeishuTaskNotifier.notify: the notice of a task is written once.
notify(n) ==
    /\ up # "down" /\ event[n].status = "none"
    /\ event' = Answered(n, "processed", "done")
    /\ UNCHANGED <<effect, relay, outbox, lock, up, told, inbox, budget>>

\* The process is killed.
Crash ==
    /\ up # "down" /\ budget.crashes < MaxCrashes
    /\ budget' = [budget EXCEPT !.crashes = @ + 1]
    /\ up' = "down" /\ lock' = "free"
    /\ relay' = IdleRelay /\ outbox' = IdleOutbox
    /\ UNCHANGED <<event, effect, told, inbox>>

\* Mutant: the repair queues no reply.
BugRepairSilently ==
    [m \in Messages |-> IF event[m].status = "processing"
        THEN [NoEvent EXCEPT !.status = "failed"] ELSE event[m]]

\* The repair of interrupted commands when the process starts.
Repaired ==
    [m \in Messages |-> IF event[m].status = "processing"
        THEN [status |-> "failed", reply |-> "pending", text |-> "interrupted"] ELSE event[m]]

Restart ==
    /\ up = "down"
    /\ up' = "starting"
    /\ event' = Repaired
    /\ UNCHANGED <<effect, relay, outbox, lock, told, inbox, budget>>

RelayStep ==
    Insert \/ CarryOut \/ TurnDown \/ RelayLocks \/ RelaySends \/ RelayMarks

OutboxStep ==
    Drain \/ (\E m \in Messages : DrainSends(m)) \/ DrainMarks \/ DrainEnds

Next ==
    \/ \E m \in Commands : Receive(m)
    \/ RelayStep \/ HandleRaises \/ RelayDies
    \/ OutboxStep \/ OutboxDies
    \/ \E n \in Notices : notify(n)
    \/ Crash \/ Restart

Spec == Init /\ [][Next]_vars

\* The threads run, the delivery lock is granted to the relay in the end
\* although the outbox takes it again and again, and the service is restarted.
Fairness ==
    /\ WF_vars(RelayStep) /\ SF_vars(RelayLocks)
    /\ WF_vars(OutboxStep) /\ WF_vars(Restart)

FairSpec == Spec /\ Fairness

-----------------------------------------------------------------------------
Places == {"idle", "insert", "work", "send", "sending", "mark", "dead"}

\* Every variable keeps its type.
TypeOK ==
    /\ event \in [Messages -> [status : {"none", "processing", "processed", "failed"},
                               reply : {"none", "pending", "sent"}, text : Texts]]
    /\ effect \in [Commands -> 0 .. 1]
    /\ relay \in [pc : Places, m : Messages, text : Texts, err : BOOLEAN]
    /\ outbox \in [pc : {"idle", "next", "mark", "dead"}, m : Messages,
                   left : SUBSET Messages, err : BOOLEAN]
    /\ lock \in {"free", "relay", "outbox"} /\ up \in {"down", "starting", "up"}
    /\ told \in [Messages -> SUBSET Texts]
    /\ inbox \in [Commands -> 0 .. MaxDeliveries]
    /\ budget \in [errors : 0 .. MaxErrors, faults : 0 .. MaxFaults, crashes : 0 .. MaxCrashes]

\* A command takes effect once at most, however often it is delivered and
\* wherever the process was killed, and the reply says whether it did.
ReplyTellsEffect ==
    \A m \in Commands : /\ effect[m] = IF event[m].text = "done" THEN 1 ELSE 0
                        /\ event[m].status \in {"none", "processing"} => effect[m] = 0

\* What has arrived of the stored reply of a message and the apology for it.
Answers(m) == {event[m].text, "apology"} \cap told[m]

\* What arrived is the reply that is stored, or an apology, which is not stored,
\* or both; and a reply is marked as sent only when it has arrived itself or an
\* apology under its message id has.
ToldWhatIsStored ==
    \A m \in Messages :
        /\ told[m] \ {"apology"} \subseteq {event[m].text}
        /\ event[m].reply = "sent" => Answers(m) # {}

\* The text of every reply and every notice in the outbox arrives, across
\* errors of sending and crashes, with two exceptions: an exception of the
\* database has ended the outbox thread, or handle() raised for a repeated
\* delivery and the apology for that has marked the pending reply as sent. And
\* every command that was taken on is answered, if no exception lost it.
PendingIsDelivered ==
    \A m \in Messages :
        /\ event[m].reply = "pending" ~>
              \/ event[m].text \in told[m]
              \/ event[m].reply = "sent" /\ "apology" \in told[m]
              \/ outbox.pc = "dead"
        /\ event[m].status = "processing" ~> told[m] # {} \/ budget.faults > 0

=============================================================================
