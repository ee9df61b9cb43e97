--------------------------- MODULE FeishuGateway ----------------------------
(***************************************************************************)
(* The gateway to Feishu: a child process holds the websocket and puts     *)
(* what happens into a bounded multiprocessing queue; the relay thread of  *)
(* the manager takes it out, hands messages to the bot, keeps the status   *)
(* the health check reads, and replaces a child that has failed, vanished  *)
(* or tried to reconnect for too long. All children write to one queue.    *)
(*                                                                         *)
(* A put takes a slot of the queue and leaves the item to the feeder       *)
(* thread of the child, which writes it into a pipe under a lock of all    *)
(* children. A child that is killed loses what its feeder has not written, *)
(* never gives back the slots, and may die in possession of the lock.      *)
(***************************************************************************)
EXTENDS Naturals, Sequences

CONSTANTS
    QUEUE_CAPACITY,
    MaxMessages,  \* messages from Feishu
    MaxFaults     \* failures of children, connections, starts and handlers

ASSUME GatewayAssumption ==
    QUEUE_CAPACITY \in Nat \ {0} /\ MaxMessages \in Nat /\ MaxFaults \in Nat

VARIABLES
    child,      \* _process: its generation and what it does
    generation,
    queue,      \* items with the feeder and in the pipe, slots lost, lock lost
    relay,      \* the relay thread: its place, whether reconnect_started_at is
                \* set, and whether the restart at work will reset it
    manager,    \* the thread that calls start and stop
    stopping,   \* _relay_stop
    running,    \* feishu_running of the runtime
    messages, faults,
    presumed,   \* history: running was set by the start, nothing is known since
    missed      \* history: a notice of the present child found the queue full

vars == <<child, generation, queue, relay, manager, stopping, running, messages,
          faults, presumed, missed>>

NoChild == [gen |-> 0, does |-> "none"]
NoRelay == [pc |-> "none", timer |-> FALSE, resets |-> FALSE]

Init ==
    /\ child = NoChild /\ generation = 0
    /\ queue = [feeder |-> <<>>, pipe |-> <<>>, lost |-> 0, locked |-> FALSE]
    /\ relay = NoRelay /\ manager = "new"
    /\ stopping = FALSE /\ running = FALSE
    /\ messages = 0 /\ faults = 0 /\ presumed = FALSE /\ missed = FALSE

Fault == faults < MaxFaults /\ faults' = faults + 1

Alive == child.does \notin {"none", "dead"}
-----------------------------------------------------------------------------
(***************************************************************************)
(* The child: _run_websocket and the client of the SDK.                    *)
(***************************************************************************)
Full == Len(queue.feeder) + Len(queue.pipe) + queue.lost >= QUEUE_CAPACITY

\* _put_gateway_item: an item that finds no slot is dropped.
Put(kind) ==
    IF Full THEN queue' = queue /\ missed' = (missed \/ kind # "message")
    ELSE /\ queue' = [queue EXCEPT !.feeder = Append(@, [kind |-> kind, gen |-> child.gen])]
         /\ missed' = missed

ChildUnchanged == UNCHANGED <<generation, relay, manager, stopping, running, presumed>>

Connects ==
    /\ child.does \in {"connects", "reconnects"}
    /\ child' = [child EXCEPT !.does = "serves"]
    /\ Put("connected")
    /\ UNCHANGED <<messages, faults>> /\ ChildUnchanged

LosesConnection ==
    /\ Fault /\ child.does \in {"connects", "serves"}
    /\ child' = [child EXCEPT !.does = "reconnects"]
    /\ Put("reconnecting")
    /\ UNCHANGED messages /\ ChildUnchanged

\* The client raises or returns: the failure is the last item.
Fails ==
    /\ Fault /\ child.does \in {"connects", "serves", "reconnects"}
    /\ child' = [child EXCEPT !.does = "exits"]
    /\ Put("failure")
    /\ UNCHANGED messages /\ ChildUnchanged

Receives ==
    /\ child.does = "serves" /\ messages < MaxMessages
    /\ messages' = messages + 1
    /\ Put("message")
    /\ UNCHANGED <<child, faults>> /\ ChildUnchanged

Feed ==
    /\ Alive /\ queue.feeder # <<>> /\ ~queue.locked
    /\ queue' = [queue EXCEPT !.feeder = Tail(@), !.pipe = Append(@, Head(queue.feeder))]
    /\ UNCHANGED <<child, messages, faults, missed>> /\ ChildUnchanged

\* A process that ends by itself waits for its feeder.
Exits ==
    /\ child.does = "exits" /\ queue.feeder = <<>>
    /\ child' = [child EXCEPT !.does = "dead"]
    /\ UNCHANGED <<queue, messages, faults, missed>> /\ ChildUnchanged

\* What a killed child leaves of the queue.
Abandoned ==
    LET left == Len(queue.feeder) IN
    {[queue EXCEPT !.feeder = <<>>, !.lost = @ + left, !.locked = @ \/ l] :
        l \in IF left > 0 THEN BOOLEAN ELSE {FALSE}}

IsKilled ==
    /\ Fault /\ Alive
    /\ child' = [child EXCEPT !.does = "dead"]
    /\ queue' \in Abandoned
    /\ UNCHANGED <<messages, missed>> /\ ChildUnchanged
-----------------------------------------------------------------------------
(***************************************************************************)
(* Both threads start and stop children under _process_lock.               *)
(***************************************************************************)
\* Mutant: a child may be started although the gateway is stopping.
BugStartAnyway ==
    /\ generation' = generation + 1
    /\ child' = [gen |-> generation', does |-> "connects"]
    /\ missed' = FALSE

\* _start_process.
StartProcess ==
    IF stopping THEN UNCHANGED <<generation, child, missed>>
    ELSE /\ generation' = generation + 1
         /\ child' = [gen |-> generation', does |-> "connects"]
         /\ missed' = FALSE

\* _stop_process: a live child is terminated and joined.
StopProcess ==
    /\ child' = NoChild
    /\ IF Alive THEN queue' \in Abandoned ELSE UNCHANGED queue
-----------------------------------------------------------------------------
(***************************************************************************)
(* The relay thread.                                                       *)
(***************************************************************************)
Relaying == relay.pc = "get" /\ ~stopping
RelayUnchanged == UNCHANGED <<generation, manager, stopping, messages>>

\* on_error, before _restart_process.
Restart(resets) ==
    /\ running' = FALSE /\ presumed' = FALSE
    /\ relay' = [relay EXCEPT !.pc = "restart", !.resets = resets]

\* Mutant: a notice counts whoever sent it.
BugAnyGeneration(item) == TRUE

\* _is_current_generation.
Current(item) == item.gen = generation

Take(kind) ==
    /\ Relaying /\ queue.pipe # <<>> /\ Head(queue.pipe).kind = kind
    /\ queue' = [queue EXCEPT !.pipe = Tail(@)]
    /\ UNCHANGED <<child, faults, missed>> /\ RelayUnchanged

TakeStale ==
    /\ \E kind \in {"failure", "reconnecting", "connected"} : Take(kind)
    /\ ~Current(Head(queue.pipe))
    /\ UNCHANGED <<relay, running, presumed>>

TakeFailure ==
    /\ Take("failure") /\ Current(Head(queue.pipe))
    /\ Restart(TRUE)

TakeReconnecting ==
    /\ Take("reconnecting") /\ Current(Head(queue.pipe))
    /\ relay' = [relay EXCEPT !.timer = TRUE]
    /\ UNCHANGED <<running, presumed>>

TakeConnected ==
    /\ Take("connected") /\ Current(Head(queue.pipe))
    /\ relay' = [relay EXCEPT !.timer = FALSE]
    /\ running' = TRUE /\ presumed' = FALSE

TakeMessage ==
    /\ Take("message")
    /\ relay' = [relay EXCEPT !.pc = "message"]
    /\ UNCHANGED <<running, presumed>>

\* FeishuBot._handle returns, or raises, which ends the thread.
Handled ==
    /\ relay.pc = "message"
    /\ \/ relay' = [relay EXCEPT !.pc = "get"] /\ UNCHANGED faults
       \/ relay' = [relay EXCEPT !.pc = "ended"] /\ Fault
    /\ UNCHANGED <<child, queue, running, presumed, missed>> /\ RelayUnchanged

\* Nothing came for a while ...
Waited ==
    /\ Relaying /\ queue.pipe = <<>>
    /\ relay' = [relay EXCEPT !.pc = "empty"]
    /\ UNCHANGED <<child, queue, running, faults, presumed, missed>> /\ RelayUnchanged

\* ... and the child has tried to reconnect for too long ...
ReconnectTimeout ==
    /\ relay.pc = "empty" /\ relay.timer
    /\ Restart(TRUE)
    /\ UNCHANGED <<child, queue, faults, missed>> /\ RelayUnchanged

\* Mutant: a child that died silently is not noticed.
BugTrustChild == FALSE

\* ... or is gone ...
NoticesDeath == ~Alive

ConnectionClosed ==
    /\ relay.pc = "empty" /\ NoticesDeath
    /\ Restart(FALSE)
    /\ UNCHANGED <<child, queue, faults, missed>> /\ RelayUnchanged

\* ... or all is well.
WaitAgain ==
    /\ relay.pc = "empty" /\ ~NoticesDeath
    /\ relay' = [relay EXCEPT !.pc = "get"]
    /\ UNCHANGED <<child, queue, running, faults, presumed, missed>> /\ RelayUnchanged

\* _restart_process: the child may have told something since it was given up.
StopOld ==
    /\ relay.pc = "restart"
    /\ relay' = [relay EXCEPT !.pc = "backoff"]
    /\ StopProcess
    /\ UNCHANGED <<running, faults, presumed, missed>> /\ RelayUnchanged

\* The delay, which a stop cuts short, then a new
\* child, unless it cannot be started.
Restarted ==
    /\ relay.pc = "backoff"
    /\ \/ StartProcess /\ UNCHANGED faults
       \/ ~stopping /\ Fault /\ UNCHANGED <<child, generation, missed>>
    /\ relay' = [relay EXCEPT !.pc = IF stopping THEN "ended" ELSE "get",
                              !.timer = @ /\ ~relay.resets, !.resets = FALSE]
    /\ UNCHANGED <<queue, manager, stopping, running, messages, presumed>>

RelayEnds ==
    /\ relay.pc = "get" /\ stopping
    /\ relay' = [relay EXCEPT !.pc = "ended"]
    /\ UNCHANGED <<child, queue, running, faults, presumed, missed>> /\ RelayUnchanged
-----------------------------------------------------------------------------
(***************************************************************************)
(* start and stop, called by the runtime through the bot.                  *)
(***************************************************************************)
ManagerUnchanged == UNCHANGED <<messages, presumed>>

StartChild ==
    /\ manager = "new"
    /\ \/ StartProcess /\ manager' = "child" /\ UNCHANGED faults
       \/ Fault /\ manager' = "stopped" /\ UNCHANGED <<child, generation, missed>>
    /\ UNCHANGED <<queue, relay, stopping, running>> /\ ManagerUnchanged

\* A thread that cannot be started makes start call stop.
StartRelay ==
    /\ manager = "child"
    /\ \/ /\ relay' = [NoRelay EXCEPT !.pc = "get"] /\ manager' = "told"
          /\ UNCHANGED <<stopping, faults>>
       \/ Fault /\ stopping' = TRUE /\ manager' = "stop" /\ UNCHANGED relay
    /\ UNCHANGED <<child, generation, queue, running, missed>> /\ ManagerUnchanged

\* The runtime calls the bot running, whatever the relay has told meanwhile.
TellRunning ==
    /\ manager = "told"
    /\ manager' = "up" /\ running' = TRUE /\ presumed' = TRUE
    /\ UNCHANGED <<child, generation, queue, relay, stopping, faults, missed, messages>>

Stop ==
    /\ manager = "up"
    /\ manager' = "stop" /\ stopping' = TRUE
    /\ UNCHANGED <<child, generation, queue, relay, running, faults, missed>>
    /\ ManagerUnchanged

StopChild ==
    /\ manager = "stop"
    /\ manager' = "join" /\ StopProcess
    /\ UNCHANGED <<generation, relay, stopping, running, faults, missed>>
    /\ ManagerUnchanged

\* The relay is joined for two seconds, which a message may take longer than.
Stopped ==
    /\ manager = "join" /\ relay.pc \in {"none", "ended", "message"}
    /\ manager' = "stopped" /\ running' = FALSE
    /\ UNCHANGED <<child, generation, queue, relay, stopping, faults, missed>>
    /\ ManagerUnchanged

ChildStep == Connects \/ LosesConnection \/ Fails \/ Receives \/ Feed \/ Exits \/ IsKilled
RelayStep ==
    \/ TakeStale \/ TakeFailure \/ TakeReconnecting \/ TakeConnected \/ TakeMessage
    \/ Handled \/ Waited \/ ReconnectTimeout \/ ConnectionClosed \/ WaitAgain
    \/ StopOld \/ Restarted \/ RelayEnds
StopStep == StopChild \/ Stopped

Next == ChildStep \/ RelayStep \/ StartChild \/ StartRelay \/ TellRunning \/ Stop \/ StopStep

Spec == Init /\ [][Next]_vars

\* A child that connects for the first time gets an answer or an error in the
\* end; one that reconnects may try for ever, and one look at the clock is the one
\* that finds the time expired.
FairSpec ==
    /\ Spec
    /\ WF_vars(child.does = "connects" /\ (Connects \/ LosesConnection \/ Fails))
    /\ WF_vars(Feed \/ Exits) /\ WF_vars(RelayStep) /\ SF_vars(ReconnectTimeout)
    /\ WF_vars(StartChild) /\ WF_vars(StartRelay) /\ WF_vars(TellRunning) /\ WF_vars(StopStep)
-----------------------------------------------------------------------------
(***************************************************************************)
(* Properties.                                                             *)
(***************************************************************************)
\* What FeishuGateway.is_running and the health check make of it.
Ready == running /\ Alive /\ relay.pc \notin {"none", "ended"}

Told == {queue.feeder[n] : n \in DOMAIN queue.feeder}
            \cup {queue.pipe[n] : n \in DOMAIN queue.pipe}

\* A health check that calls the gateway ready is right, or about to be put right:
\* the child serves, or the relay has started its timer, or a notice of this very
\* child is on its way. Exceptions: the start, which calls the gateway running
\* before it has connected, and a notice that found the queue full.
ReadyIsServing ==
    Ready => \/ child.does = "serves" \/ relay.timer \/ presumed \/ missed
             \/ \E i \in Told : i.gen = child.gen /\ i.kind # "message"

\* Once the child was stopped for good no other one is started, wherever the relay
\* thread was: in its delay, about to start a child, or in a message.
NoChildAfterStop == manager \in {"join", "stopped"} => ~Alive

\* Whatever has happened to its children, a gateway that is not stopped ends up with
\* one that serves, unless a handler has ended the relay, a notice found the queue
\* full, or killed children took the lock or all slots of the queue with them.
GatewayRecovers ==
    <>[](\/ manager # "up" \/ relay.pc = "ended" \/ missed
         \/ queue.locked \/ queue.lost >= QUEUE_CAPACITY
         \/ child.does = "serves")

\* Every variable keeps its type.
TypeOK ==
    /\ child.gen \in Nat
    /\ child.does \in {"none", "connects", "serves", "reconnects", "exits", "dead"}
    /\ generation \in Nat
    /\ queue.lost \in 0 .. QUEUE_CAPACITY /\ queue.locked \in BOOLEAN
    /\ Len(queue.feeder) + Len(queue.pipe) + queue.lost <= QUEUE_CAPACITY
    /\ relay \in [pc : {"none", "get", "empty", "message", "restart", "backoff", "ended"},
                  timer : BOOLEAN, resets : BOOLEAN]
    /\ manager \in {"new", "child", "told", "up", "stop", "join", "stopped"}
    /\ {stopping, running, presumed, missed} \subseteq BOOLEAN
    /\ messages \in 0 .. MaxMessages /\ faults \in 0 .. MaxFaults
=============================================================================
