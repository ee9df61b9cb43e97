------------------------ MODULE FeishuOutbox_proofs ------------------------
(***************************************************************************)
(* Commands by Feishu: a reply says whether its command took effect, and   *)
(* nobody is told anything else than what is stored, for any number of     *)
(* commands, deliveries, errors, faults and crashes.                       *)
(*                                                                         *)
(* The two threads share nothing but the stored reply, and that does not   *)
(* change any more once it is there (EventsAreWhole): what a thread has in *)
(* hand is what is stored, whoever sends first.                            *)
(***************************************************************************)
EXTENDS FeishuOutbox, TLAPS

\* The event is closed: its reply is there and stays.
Settled(m) == event[m].status \in {"processed", "failed"}

Replies == {"done", "refused", "failed", "interrupted"}

\* An event has its reply exactly when it is closed.
EventsAreWhole ==
    \A m \in Messages :
        IF Settled(m)
        THEN event[m].reply \in {"pending", "sent"} /\ event[m].text \in Replies
        ELSE event[m].reply = "none" /\ event[m].text = "none"

\* The relay runs only in a process that is up.  It works on an event that is
\* open, and sends what is stored or an apology.
RelayHolds ==
    /\ up # "up" => relay.pc = "idle"
    /\ relay.pc \notin {"idle", "dead"} => relay.m \in Commands
    /\ relay.pc = "work" => event[relay.m].status = "processing"
    /\ relay.pc \in {"send", "sending", "mark"} =>
          relay.text = "apology" \/ (Settled(relay.m) /\ relay.text = event[relay.m].text)
    /\ relay.pc = "mark" /\ ~relay.err => relay.text \in told[relay.m]

\* The outbox holds closed events only, and marks the one whose reply it sent.
OutboxHolds ==
    /\ up = "down" => outbox.pc = "idle"
    /\ outbox.pc \in {"next", "mark"} => \A m \in outbox.left : Settled(m)
    /\ outbox.pc = "mark" => Settled(outbox.m)
    /\ outbox.pc = "mark" /\ ~outbox.err => event[outbox.m].text \in told[outbox.m]

\* Whatever arrived is an apology or the reply, and no reply is empty.
ToldIsReply ==
    \A m \in Messages : \A x \in told[m] :
        x = "apology" \/ (x # "none" /\ x = event[m].text)

SentIsTold ==
    \A m \in Messages :
        event[m].reply = "sent" => event[m].text \in told[m] \/ "apology" \in told[m]

\* The inductive invariant.
OutboxInv ==
    /\ TypeOK /\ EventsAreWhole /\ RelayHolds /\ OutboxHolds
    /\ ReplyTellsEffect /\ ToldIsReply /\ SentIsTold

Statuses == {"none", "processing", "processed", "failed"}
Event    == [status : Statuses, reply : {"none", "pending", "sent"}, text : Texts]

-----------------------------------------------------------------------------
\* The idle threads are well formed.
LEMMA IdleTypes ==
    /\ IdleRelay \in [pc : Places, m : Messages, text : Texts, err : BOOLEAN]
    /\ IdleOutbox \in [pc : {"idle", "next", "mark", "dead"}, m : Messages,
                       left : SUBSET Messages, err : BOOLEAN]
    /\ IdleRelay.pc = "idle" /\ IdleOutbox.pc = "idle"
  <1>1. (CHOOSE m \in Messages : TRUE) \in Messages
    BY OutboxAssumption DEF Messages
  <1> QED BY <1>1 DEF IdleRelay, IdleOutbox, Places, Texts

LEMMA OutboxInit == Init => OutboxInv
  <1> SUFFICES ASSUME Init PROVE OutboxInv
    OBVIOUS
  <1>1. TypeOK
    BY IdleTypes, OutboxAssumption DEF Init, TypeOK, NoEvent, Texts
  <1>2. \A m \in Messages : ~Settled(m) /\ event[m] = NoEvent
    BY DEF Init, Settled, NoEvent
  <1>3. \A m \in Commands : event[m] = NoEvent
    BY <1>2 DEF Messages
  <1> QED BY <1>1, <1>2, <1>3, IdleTypes DEF Init, OutboxInv, EventsAreWhole, RelayHolds,
        OutboxHolds, ReplyTellsEffect, ToldIsReply, SentIsTold, NoEvent

-----------------------------------------------------------------------------
(***************************************************************************)
(* What is stored and what arrives, by the four ways they change.          *)
(***************************************************************************)
\* The part of the invariant that does not look at the threads.
Stored ==
    /\ event \in [Messages -> Event] /\ told \in [Messages -> SUBSET Texts]
    /\ EventsAreWhole /\ ToldIsReply /\ SentIsTold

\* _queue_reply closes an event that was open.
LEMMA AnswerKeeps ==
    ASSUME Stored, NEW m \in Messages, ~Settled(m),
           NEW s \in {"processed", "failed"}, NEW x \in Replies,
           event' = Answered(m, s, x), told' = told
    PROVE  /\ Stored'
           /\ event'[m].status = s /\ event'[m].text = x
           /\ \A n \in Messages \ {m} : event'[n] = event[n]
  <1>1. /\ event'[m] = [status |-> s, reply |-> "pending", text |-> x]
        /\ event' \in [Messages -> Event]
        /\ \A n \in Messages \ {m} : event'[n] = event[n]
    BY DEF Stored, Answered, Event, Statuses, Replies, Texts
  <1>2. \A y \in told[m] : y = "apology"
    BY DEF Stored, EventsAreWhole, ToldIsReply
  <1> QED BY <1>1, <1>2 DEF Stored, EventsAreWhole, ToldIsReply, SentIsTold, Settled

\* Sending what is stored, or an apology, with an error or without.
LEMMA SendKeeps ==
    ASSUME Stored, NEW m \in Messages, NEW x \in Texts, NEW err \in BOOLEAN,
           x = "apology" \/ (Settled(m) /\ x = event[m].text),
           Transmit(m, x, err), event' = event
    PROVE  /\ Stored'
           /\ ~err => x \in told'[m]
           /\ \A n \in Messages : told[n] \subseteq told'[n]
  <1> DEFINE arrives == [told EXCEPT ![m] = @ \cup {x}]
  <1>1. told' = arrives \/ (err /\ told' = told)
    BY DEF Transmit
  <1>2. CASE told' = arrives
    <2>1. /\ told'[m] = told[m] \cup {x} /\ told' \in [Messages -> SUBSET Texts]
          /\ \A n \in Messages \ {m} : told'[n] = told[n]
      BY <1>2 DEF Stored
    <2>2. x = "apology" \/ (x # "none" /\ x = event[m].text)
      BY DEF Stored, EventsAreWhole, Replies
    <2> QED BY <2>1, <2>2 DEF Stored, EventsAreWhole, ToldIsReply, SentIsTold, Settled
  <1>3. CASE err /\ told' = told
    BY <1>3 DEF Stored, EventsAreWhole, ToldIsReply, SentIsTold, Settled
  <1> QED BY <1>1, <1>2, <1>3

\* mark_reply_result after a text that has arrived.
LEMMA MarkKeeps ==
    ASSUME Stored, NEW m \in Messages, NEW err \in BOOLEAN,
           ~err => event[m].text \in told[m] \/ "apology" \in told[m],
           event' = mark_reply_result(m, err), told' = told
    PROVE  /\ Stored'
           /\ \A n \in Messages : event'[n].status = event[n].status
                                  /\ event'[n].text = event[n].text
  <1>1. CASE event' = event
    BY <1>1 DEF Stored, EventsAreWhole, ToldIsReply, SentIsTold, Settled
  <1>2. CASE event[m].reply = "pending" /\ ~err /\ event' = [event EXCEPT ![m].reply = "sent"]
    <2>1. /\ event' \in [Messages -> Event] /\ event'[m].reply = "sent"
          /\ event'[m].status = event[m].status /\ event'[m].text = event[m].text
          /\ \A n \in Messages \ {m} : event'[n] = event[n]
      BY <1>2 DEF Stored, Event
    <2>2. Settled(m)
      BY <1>2 DEF Stored, EventsAreWhole
    <2> QED BY <1>2, <2>1, <2>2 DEF Stored, EventsAreWhole, ToldIsReply, SentIsTold, Settled
  <1> QED BY <1>1, <1>2 DEF mark_reply_result

\* The repair at the start answers every command that was interrupted.
LEMMA RepairKeeps ==
    ASSUME Stored, event' = Repaired, told' = told
    PROVE  /\ Stored'
           /\ \A n \in Messages :
                 \/ event'[n] = event[n] /\ event[n].status # "processing"
                 \/ /\ event[n].status = "processing" /\ event'[n].status = "failed"
                    /\ event'[n].text = "interrupted"
  <1>1. \A n \in Messages :
           event'[n] = IF event[n].status = "processing"
                       THEN [status |-> "failed", reply |-> "pending", text |-> "interrupted"]
                       ELSE event[n]
    BY DEF Repaired
  <1>2. event' \in [Messages -> Event]
    BY DEF Stored, Repaired, Event, Statuses, Texts
  <1>3. \A n \in Messages : event[n].status = "processing" => \A y \in told[n] : y = "apology"
    BY DEF Stored, EventsAreWhole, ToldIsReply, Settled
  <1> QED BY <1>1, <1>2, <1>3 DEF Stored, EventsAreWhole, ToldIsReply, SentIsTold, Settled,
        Replies

-----------------------------------------------------------------------------
(***************************************************************************)
(* The steps.                                                              *)
(***************************************************************************)
LEMMA InvStored == OutboxInv <=> /\ TypeOK /\ Stored /\ RelayHolds /\ OutboxHolds
                                 /\ ReplyTellsEffect
  BY DEF OutboxInv, Stored, TypeOK, Event, Statuses

\* What does not touch the stored events keeps what is said of them.
LEMMA StillStored ==
    ASSUME OutboxInv, UNCHANGED <<event, effect, told>>, TypeOK', RelayHolds', OutboxHolds'
    PROVE  OutboxInv'
  BY DEF OutboxInv, EventsAreWhole, ReplyTellsEffect, ToldIsReply, SentIsTold, Settled

\* A failing database operation stays within its bound.
LEMMA FaultKeeps ==
    ASSUME TypeOK, Fault
    PROVE  budget' \in [errors : 0 .. MaxErrors, faults : 0 .. MaxFaults,
                        crashes : 0 .. MaxCrashes]
  BY OutboxAssumption DEF TypeOK, Fault

LEMMA TransmitKeeps ==
    ASSUME TypeOK, NEW m, NEW x, NEW err, Transmit(m, x, err)
    PROVE  budget' \in [errors : 0 .. MaxErrors, faults : 0 .. MaxFaults,
                        crashes : 0 .. MaxCrashes]
  BY OutboxAssumption DEF TypeOK, Transmit

\* A reply is stored for an open command, with what it has created.
LEMMA EffectKeeps ==
    ASSUME OutboxInv, NEW m \in Commands, event[m].status \in {"none", "processing"},
           NEW s \in {"processed", "failed"}, NEW x \in Replies,
           event' = Answered(m, s, x),
           effect' = IF x = "done" THEN [effect EXCEPT ![m] = @ + 1] ELSE effect
    PROVE  effect' \in [Commands -> 0 .. 1] /\ ReplyTellsEffect'
  <1>1. /\ event'[m].text = x /\ event'[m].status = s
        /\ \A n \in Commands \ {m} : event'[n] = event[n]
    BY DEF OutboxInv, TypeOK, Answered, Messages
  <1>2. effect[m] = 0 /\ effect \in [Commands -> 0 .. 1]
    BY DEF OutboxInv, ReplyTellsEffect, TypeOK
  <1>3. CASE x = "done"
    <2>1. effect' = [effect EXCEPT ![m] = 1]
      BY <1>2, <1>3
    <2> QED BY <1>1, <1>2, <1>3, <2>1 DEF OutboxInv, ReplyTellsEffect
  <1>4. CASE x # "done"
    BY <1>1, <1>2, <1>4 DEF OutboxInv, ReplyTellsEffect
  <1> QED BY <1>3, <1>4

\* The relay answers its command and goes on to send the reply.
LEMMA RelayAnswers ==
    ASSUME OutboxInv, relay.pc \in {"insert", "work"},
           event[relay.m].status \in {"none", "processing"},
           NEW s \in {"processed", "failed"}, NEW x \in Replies,
           event' = Answered(relay.m, s, x), relay' = ToSend(x),
           effect' = IF x = "done" THEN [effect EXCEPT ![relay.m] = @ + 1] ELSE effect,
           UNCHANGED <<outbox, lock, up, told, inbox, budget>>
    PROVE  OutboxInv'
  <1>1. relay.m \in Commands /\ relay.m \in Messages /\ ~Settled(relay.m) /\ up = "up"
    BY DEF OutboxInv, RelayHolds, Settled, Messages, TypeOK
  <1>2. Stored
    BY InvStored
  <1>3. /\ Stored' /\ event'[relay.m].status = s /\ event'[relay.m].text = x
        /\ \A n \in Messages \ {relay.m} : event'[n] = event[n]
    BY <1>1, <1>2, AnswerKeeps
  <1>4. effect' \in [Commands -> 0 .. 1] /\ ReplyTellsEffect'
    BY <1>1, EffectKeeps
  <1>5. /\ relay' = [relay EXCEPT !.pc = "send", !.text = x]
        /\ relay' \in [pc : Places, m : Messages, text : Texts, err : BOOLEAN]
    BY DEF ToSend, OutboxInv, TypeOK, Places, Texts, Replies
  <1>6. TypeOK'
    BY <1>3, <1>4, <1>5 DEF OutboxInv, TypeOK, Stored, Event, Statuses
  <1>7. RelayHolds'
    BY <1>1, <1>3, <1>5 DEF RelayHolds, OutboxInv, TypeOK, Settled
  <1>8. OutboxHolds'
    BY <1>1, <1>3 DEF OutboxHolds, OutboxInv, TypeOK, Settled
  <1>9. OutboxInv' <=> /\ TypeOK' /\ Stored' /\ RelayHolds' /\ OutboxHolds'
                       /\ ReplyTellsEffect'
    BY DEF OutboxInv, Stored, TypeOK, Event, Statuses
  <1> QED BY <1>3, <1>4, <1>6, <1>7, <1>8, <1>9

\* The relay handles a command: dropped, taken on or answered.
LEMMA HandleKeeps ==
    ASSUME OutboxInv, Insert \/ CarryOut \/ TurnDown \/ HandleRaises
    PROVE  OutboxInv'
  <1>0. relay \in [pc : Places, m : Messages, text : Texts, err : BOOLEAN]
    BY DEF OutboxInv, TypeOK
  <1>1. CASE CarryOut
    <2>1. event[relay.m].status = "processing" /\ relay.pc = "work"
      BY <1>1 DEF CarryOut, OutboxInv, RelayHolds
    <2> QED BY <1>1, <2>1, RelayAnswers DEF CarryOut, Replies
  <1>2. CASE TurnDown
    <2>1. event[relay.m].status = "processing" /\ relay.pc = "work"
      BY <1>2 DEF TurnDown, OutboxInv, RelayHolds
    <2>2. \/ event' = Answered(relay.m, "processed", "refused") /\ relay' = ToSend("refused")
          \/ event' = Answered(relay.m, "failed", "failed") /\ relay' = ToSend("failed")
      BY <1>2 DEF TurnDown
    <2>3. UNCHANGED <<effect, outbox, lock, up, told, inbox, budget>>
      BY <1>2 DEF TurnDown
    <2>4. CASE event' = Answered(relay.m, "processed", "refused") /\ relay' = ToSend("refused")
      BY <2>1, <2>3, <2>4, RelayAnswers DEF Replies
    <2>5. CASE event' = Answered(relay.m, "failed", "failed") /\ relay' = ToSend("failed")
      BY <2>1, <2>3, <2>5, RelayAnswers DEF Replies
    <2> QED BY <2>2, <2>4, <2>5
  <1>3. CASE Insert
    <2>1. relay.m \in Commands /\ relay.m \in Messages /\ up = "up" /\ relay.pc = "insert"
      BY <1>3 DEF Insert, OutboxInv, RelayHolds, TypeOK
    <2>2. CASE event[relay.m].status # "none"
      BY <1>3, <2>1, <2>2, IdleTypes DEF Insert, OutboxInv, TypeOK, EventsAreWhole,
         RelayHolds, OutboxHolds, ReplyTellsEffect, ToldIsReply, SentIsTold, Settled
    <2>3. CASE /\ event[relay.m].status = "none"
               /\ event' = [event EXCEPT ![relay.m].status = "processing"]
               /\ relay' = [relay EXCEPT !.pc = "work"]
      <3>1. /\ event'[relay.m] = [event[relay.m] EXCEPT !.status = "processing"]
            /\ \A n \in Messages \ {relay.m} : event'[n] = event[n]
            /\ event' \in [Messages -> Event]
        BY <2>1, <2>3 DEF OutboxInv, TypeOK, Event, Statuses
      <3>2. /\ event'[relay.m].status = "processing"
            /\ event'[relay.m].text = event[relay.m].text
            /\ event'[relay.m].reply = event[relay.m].reply
        BY <2>1, <3>1 DEF OutboxInv, TypeOK, Event, Statuses
      <3>3. UNCHANGED <<effect, outbox, lock, up, told, inbox, budget>>
        BY <1>3 DEF Insert
      <3>4. /\ relay' \in [pc : Places, m : Messages, text : Texts, err : BOOLEAN]
            /\ relay'.pc = "work" /\ relay'.m = relay.m
        BY <1>0, <2>3 DEF Places
      <3>5. TypeOK'
        BY <3>1, <3>3, <3>4 DEF OutboxInv, TypeOK, Event, Statuses
      <3>6. (EventsAreWhole /\ ToldIsReply /\ SentIsTold)'
        BY <2>1, <2>3, <3>1, <3>2, <3>3 DEF OutboxInv, EventsAreWhole, ToldIsReply,
           SentIsTold, Settled
      <3>7. RelayHolds'
        BY <2>1, <3>2, <3>3, <3>4 DEF RelayHolds
      <3>8. OutboxHolds'
        BY <2>1, <2>3, <3>1, <3>3 DEF OutboxInv, OutboxHolds, Settled, TypeOK
      <3>9. ReplyTellsEffect'
        BY <2>1, <2>3, <3>1, <3>2, <3>3 DEF OutboxInv, ReplyTellsEffect, Messages
      <3> QED BY <3>5, <3>6, <3>7, <3>8, <3>9 DEF OutboxInv
    <2>4. CASE /\ event[relay.m].status = "none"
               /\ event' = Answered(relay.m, "failed", "failed")
               /\ relay' = ToSend("failed")
      BY <1>3, <2>1, <2>4, RelayAnswers DEF Insert, Replies
    <2> QED BY <1>3, <2>2, <2>3, <2>4 DEF Insert
  <1>4. CASE HandleRaises
    <2>1. /\ relay' \in [pc : Places, m : Messages, text : Texts, err : BOOLEAN]
          /\ relay'.pc = "send" /\ relay'.m = relay.m /\ relay'.text = "apology"
      BY <1>0, <1>4 DEF HandleRaises, ToSend, Places, Texts
    <2>2. relay.m \in Commands /\ up = "up"
      BY <1>4 DEF HandleRaises, OutboxInv, RelayHolds
    <2>3. UNCHANGED <<event, effect, outbox, lock, up, told, inbox>>
      BY <1>4 DEF HandleRaises
    <2>4. TypeOK'
      BY <1>4, <2>1, <2>3, FaultKeeps DEF HandleRaises, OutboxInv, TypeOK
    <2>5. RelayHolds'
      <3>1. relay'.m \in Commands /\ up' = "up" /\ relay'.pc = "send" /\ relay'.text = "apology"
        BY <2>1, <2>2, <2>3
      <3> QED BY <3>1 DEF RelayHolds
    <2>6. OutboxHolds'
      BY <2>3 DEF OutboxInv, OutboxHolds, Settled
    <2> QED BY <2>3, <2>4, <2>5, <2>6, StillStored
  <1> QED BY <1>1, <1>2, <1>3, <1>4

\* A thread sends: the other thread holds what it held.
LEMMA SendingKeeps ==
    ASSUME OutboxInv, NEW m \in Messages, NEW x \in Texts, NEW err \in BOOLEAN,
           x = "apology" \/ (Settled(m) /\ x = event[m].text),
           Transmit(m, x, err), UNCHANGED <<event, effect, up>>
    PROVE  /\ Stored' /\ ReplyTellsEffect'
           /\ ~err => x \in told'[m]
           /\ UNCHANGED relay => RelayHolds'
           /\ UNCHANGED outbox => OutboxHolds'
  <1>1. /\ Stored' /\ (~err => x \in told'[m])
        /\ \A n \in Messages : told[n] \subseteq told'[n]
    BY InvStored, SendKeeps
  <1>2. ReplyTellsEffect'
    BY DEF OutboxInv, ReplyTellsEffect
  <1>3. relay.m \in Messages /\ outbox.m \in Messages
    BY DEF OutboxInv, TypeOK
  <1>4. ASSUME UNCHANGED relay PROVE RelayHolds'
    BY <1>1, <1>3, <1>4 DEF OutboxInv, RelayHolds, Settled
  <1>5. ASSUME UNCHANGED outbox PROVE OutboxHolds'
    BY <1>1, <1>3, <1>5 DEF OutboxInv, OutboxHolds, Settled
  <1> QED BY <1>1, <1>2, <1>4, <1>5

\* A thread marks: the other thread holds what it held.
LEMMA MarkingKeeps ==
    ASSUME OutboxInv, NEW m \in Messages, NEW err \in BOOLEAN,
           ~err => event[m].text \in told[m] \/ "apology" \in told[m],
           event' = mark_reply_result(m, err), UNCHANGED <<effect, told, up>>
    PROVE  /\ Stored' /\ ReplyTellsEffect'
           /\ UNCHANGED relay => RelayHolds'
           /\ UNCHANGED outbox => OutboxHolds'
           /\ \A n \in Messages : Settled(n) => Settled(n)'
  <1>1. /\ Stored'
        /\ \A n \in Messages : event'[n].status = event[n].status
                               /\ event'[n].text = event[n].text
    BY InvStored, MarkKeeps
  <1>2. ReplyTellsEffect'
    BY <1>1 DEF OutboxInv, ReplyTellsEffect, Messages
  <1>3. relay.m \in Messages /\ outbox.m \in Messages /\ outbox.left \subseteq Messages
    BY DEF OutboxInv, TypeOK
  <1>4. ASSUME UNCHANGED relay PROVE RelayHolds'
    BY <1>1, <1>3, <1>4 DEF OutboxInv, RelayHolds, Settled
  <1>5. ASSUME UNCHANGED outbox PROVE OutboxHolds'
    BY <1>1, <1>3, <1>5 DEF OutboxInv, OutboxHolds, Settled
  <1> QED BY <1>1, <1>2, <1>4, <1>5 DEF Settled

\* The parts of the invariant, put together.
LEMMA InvNext ==
    ASSUME TypeOK', Stored', RelayHolds', OutboxHolds', ReplyTellsEffect'
    PROVE  OutboxInv'
  BY DEF OutboxInv, Stored

\* The relay takes messages, locks, sends, marks or ends.
LEMMA RelayKeeps ==
    ASSUME OutboxInv,
           \/ \E m \in Commands : Receive(m)
           \/ RelayLocks \/ RelaySends \/ RelayMarks \/ RelayDies
    PROVE  OutboxInv'
  <1> DEFINE Relays == [pc : Places, m : Messages, text : Texts, err : BOOLEAN]
  <1>0. relay \in Relays /\ TypeOK
    BY DEF OutboxInv, TypeOK
  <1>1. ASSUME NEW m \in Commands, Receive(m) PROVE OutboxInv'
    <2>1. relay' \in Relays /\ relay'.pc = "insert" /\ relay'.m = m /\ up = "up"
      BY <1>1, IdleTypes DEF Receive, Places, Messages
    <2>2. UNCHANGED <<event, effect, outbox, lock, up, told, budget>>
      BY <1>1 DEF Receive
    <2>3. inbox' \in [Commands -> 0 .. MaxDeliveries]
      <3>1. inbox \in [Commands -> 0 .. MaxDeliveries] /\ MaxDeliveries \in Nat
        BY <1>0, OutboxAssumption DEF TypeOK
      <3>2. inbox[m] < MaxDeliveries /\ inbox' = [inbox EXCEPT ![m] = inbox[m] + 1]
        BY <1>1 DEF Receive
      <3>3. inbox[m] + 1 \in 0 .. MaxDeliveries
        BY <3>1, <3>2
      <3> QED BY <3>1, <3>2, <3>3
    <2>4. TypeOK'
      BY <1>0, <2>1, <2>2, <2>3 DEF TypeOK
    <2>5. RelayHolds'
      BY <2>1, <2>2 DEF RelayHolds
    <2>6. OutboxHolds'
      BY <2>2 DEF OutboxInv, OutboxHolds, Settled
    <2> QED BY <2>2, <2>4, <2>5, <2>6, StillStored
  <1>2. CASE RelayLocks
    <2>1. /\ relay' \in Relays /\ relay'.pc = "sending" /\ relay.pc = "send"
          /\ relay'.m = relay.m /\ relay'.text = relay.text
      BY <1>0, <1>2 DEF RelayLocks, Places
    <2>2. UNCHANGED <<event, effect, outbox, up, told, inbox, budget>> /\ lock' = "relay"
      BY <1>2 DEF RelayLocks
    <2>3. TypeOK'
      BY <1>0, <2>1, <2>2 DEF TypeOK
    <2>4. RelayHolds'
      BY <2>1, <2>2 DEF OutboxInv, RelayHolds, Settled
    <2>5. OutboxHolds'
      BY <2>2 DEF OutboxInv, OutboxHolds, Settled
    <2> QED BY <2>2, <2>3, <2>4, <2>5, StillStored
  <1>3. CASE RelaySends
    <2>1. PICK err \in BOOLEAN : /\ Transmit(relay.m, relay.text, err)
                                 /\ relay' = [relay EXCEPT !.pc = "mark", !.err = err]
      BY <1>3 DEF RelaySends
    <2>2. /\ relay' \in Relays /\ relay'.pc = "mark" /\ relay.pc = "sending"
          /\ relay'.m = relay.m /\ relay'.text = relay.text /\ (relay'.err <=> err)
      BY <1>0, <1>3, <2>1 DEF RelaySends, Places
    <2>3. UNCHANGED <<event, effect, outbox, lock, up, inbox>>
      BY <1>3 DEF RelaySends
    <2>4. /\ relay.m \in Messages /\ relay.text \in Texts
          /\ relay.text = "apology" \/ (Settled(relay.m) /\ relay.text = event[relay.m].text)
      BY <1>0, <2>2 DEF OutboxInv, RelayHolds
    <2>5. Stored' /\ ReplyTellsEffect' /\ OutboxHolds' /\ (~err => relay.text \in told'[relay.m])
      BY <2>1, <2>3, <2>4, SendingKeeps
    <2>6. TypeOK'
      BY <1>0, <2>1, <2>2, <2>3, <2>5, TransmitKeeps DEF TypeOK, Stored
    <2>7. RelayHolds'
      BY <2>2, <2>3, <2>4, <2>5 DEF OutboxInv, RelayHolds, Settled
    <2> QED BY <2>5, <2>6, <2>7, InvNext
  <1>4. CASE RelayMarks
    <2>1. UNCHANGED <<effect, outbox, up, told, inbox, budget>> /\ relay' = IdleRelay
          /\ lock' = "free" /\ event' = mark_reply_result(relay.m, relay.err)
      BY <1>4 DEF RelayMarks
    <2>2. /\ relay.m \in Messages /\ relay.err \in BOOLEAN
          /\ ~relay.err => \/ event[relay.m].text \in told[relay.m]
                           \/ "apology" \in told[relay.m]
      BY <1>0, <1>4 DEF RelayMarks, OutboxInv, RelayHolds
    <2>3. Stored' /\ ReplyTellsEffect' /\ OutboxHolds'
      BY <2>1, <2>2, MarkingKeeps
    <2>4. TypeOK'
      BY <1>0, <2>1, <2>3, IdleTypes DEF TypeOK, Stored, Event, Statuses
    <2>5. RelayHolds'
      BY <2>1, IdleTypes DEF RelayHolds
    <2> QED BY <2>3, <2>4, <2>5, InvNext
  <1>5. CASE RelayDies
    <2>1. /\ relay' \in Relays /\ relay'.pc = "dead" /\ lock' = "free" /\ relay.pc = "mark"
      BY <1>5, IdleTypes DEF RelayDies, Places
    <2>2. UNCHANGED <<event, effect, outbox, up, told, inbox>>
      BY <1>5 DEF RelayDies
    <2>3. TypeOK'
      BY <1>0, <1>5, <2>1, <2>2, FaultKeeps DEF RelayDies, TypeOK
    <2>4. RelayHolds'
      BY <2>1, <2>2 DEF OutboxInv, RelayHolds
    <2>5. OutboxHolds'
      BY <2>2 DEF OutboxInv, OutboxHolds, Settled
    <2> QED BY <2>2, <2>3, <2>4, <2>5, StillStored
  <1> QED BY <1>1, <1>2, <1>3, <1>4, <1>5

\* The outbox drains, sends, marks or ends.
LEMMA OutboxKeeps ==
    ASSUME OutboxInv,
           \/ Drain \/ DrainMarks \/ DrainEnds \/ OutboxDies
           \/ \E m \in Messages : DrainSends(m)
    PROVE  OutboxInv'
  <1> DEFINE Boxes == [pc : {"idle", "next", "mark", "dead"}, m : Messages,
                       left : SUBSET Messages, err : BOOLEAN]
  <1>0. outbox \in Boxes /\ TypeOK
    BY DEF OutboxInv, TypeOK
  <1>1. CASE Drain
    <2> DEFINE pending == {m \in Messages : event[m].reply = "pending"}
    <2>1. /\ outbox' = [outbox EXCEPT !.pc = "next", !.left = pending]
          /\ UNCHANGED <<event, effect, relay, up, told, inbox, budget>>
          /\ lock' = "outbox" /\ up # "down"
      BY <1>1 DEF Drain
    <2>2. \A m \in pending : Settled(m)
      BY DEF OutboxInv, EventsAreWhole
    <2>3. pending \subseteq Messages
      OBVIOUS
    <2> HIDE DEF pending
    <2>4. outbox' \in Boxes /\ outbox'.pc = "next" /\ outbox'.left = pending
      BY <1>0, <2>1, <2>3
    <2>5. TypeOK'
      BY <1>0, <2>1, <2>4 DEF TypeOK
    <2>6. RelayHolds'
      BY <2>1 DEF OutboxInv, RelayHolds, Settled
    <2>7. OutboxHolds'
      BY <2>1, <2>2, <2>4 DEF OutboxHolds, Settled
    <2> QED BY <2>1, <2>5, <2>6, <2>7, StillStored
  <1>2. ASSUME NEW m \in Messages, DrainSends(m) PROVE OutboxInv'
    <2>1. PICK err \in BOOLEAN :
             /\ Transmit(m, event[m].text, err)
             /\ outbox' = [pc |-> "mark", m |-> m, left |-> outbox.left \ {m}, err |-> err]
      BY <1>2 DEF DrainSends
    <2>2. /\ UNCHANGED <<event, effect, relay, lock, up, inbox>>
          /\ m \in outbox.left /\ outbox.pc = "next"
      BY <1>2 DEF DrainSends
    <2>3. Settled(m) /\ event[m].text \in Texts
      BY <1>0, <2>2 DEF OutboxInv, OutboxHolds, TypeOK
    <2>4. Stored' /\ ReplyTellsEffect' /\ RelayHolds' /\ (~err => event[m].text \in told'[m])
      BY <2>1, <2>2, <2>3, SendingKeeps
    <2>5. /\ outbox' \in Boxes /\ outbox'.pc = "mark" /\ outbox'.m = m
          /\ outbox'.left \subseteq outbox.left /\ (outbox'.err <=> err)
      BY <1>0, <2>1
    <2>6. TypeOK'
      BY <1>0, <2>1, <2>2, <2>4, <2>5, TransmitKeeps DEF TypeOK, Stored
    <2>7. OutboxHolds'
      BY <2>2, <2>4, <2>5 DEF OutboxInv, OutboxHolds, Settled
    <2> QED BY <2>4, <2>6, <2>7, InvNext
  <1>3. CASE DrainMarks
    <2>1. /\ event' = mark_reply_result(outbox.m, outbox.err)
          /\ UNCHANGED <<effect, relay, lock, up, told, inbox, budget>>
          /\ outbox' = [outbox EXCEPT !.pc = "next"] /\ outbox.pc = "mark"
      BY <1>3 DEF DrainMarks
    <2>2. /\ outbox.m \in Messages /\ outbox.err \in BOOLEAN
          /\ ~outbox.err => event[outbox.m].text \in told[outbox.m]
      BY <1>0, <2>1 DEF OutboxInv, OutboxHolds
    <2>3. Stored' /\ ReplyTellsEffect' /\ RelayHolds' /\ \A n \in Messages : Settled(n) => Settled(n)'
      BY <2>1, <2>2, MarkingKeeps
    <2>4. outbox' \in Boxes /\ outbox'.pc = "next" /\ outbox'.left = outbox.left
      BY <1>0, <2>1
    <2>5. TypeOK'
      BY <1>0, <2>1, <2>3, <2>4 DEF TypeOK, Stored, Event, Statuses
    <2>6. OutboxHolds'
      BY <1>0, <2>1, <2>3, <2>4 DEF OutboxInv, OutboxHolds
    <2> QED BY <2>3, <2>5, <2>6, InvNext
  <1>4. CASE DrainEnds
    <2>1. /\ outbox' = IdleOutbox /\ lock' = "free" /\ up' = "up"
          /\ UNCHANGED <<event, effect, relay, told, inbox, budget>>
      BY <1>4 DEF DrainEnds
    <2>2. TypeOK'
      BY <1>0, <2>1, IdleTypes DEF TypeOK
    <2>3. RelayHolds'
      BY <2>1 DEF OutboxInv, RelayHolds, Settled
    <2>4. OutboxHolds'
      BY <2>1, IdleTypes DEF OutboxHolds
    <2> QED BY <2>1, <2>2, <2>3, <2>4, StillStored
  <1>5. CASE OutboxDies
    <2>1. /\ UNCHANGED <<event, effect, relay, told, inbox>> /\ lock' = "free"
          /\ up' = IF up = "starting" THEN "down" ELSE up
          /\ up # "down"
      BY <1>5 DEF OutboxDies, OutboxInv, OutboxHolds
    <2>2. /\ outbox' \in Boxes
          /\ outbox'.pc = IF up = "starting" THEN "idle" ELSE "dead"
      BY <1>5, IdleTypes DEF OutboxDies
    <2>3. TypeOK'
      BY <1>0, <1>5, <2>1, <2>2, FaultKeeps DEF OutboxDies, TypeOK
    <2>4. RelayHolds'
      BY <1>0, <2>1 DEF OutboxInv, RelayHolds, Settled
    <2>5. OutboxHolds'
      BY <2>1, <2>2 DEF OutboxHolds
    <2> QED BY <2>1, <2>3, <2>4, <2>5, StillStored
  <1> QED BY <1>1, <1>2, <1>3, <1>4, <1>5

\* Notices, crash and restart.
LEMMA OthersKeep ==
    ASSUME OutboxInv, (\E n \in Notices : notify(n)) \/ Crash \/ Restart
    PROVE  OutboxInv'
  <1>0. TypeOK /\ {relay.m, outbox.m} \subseteq Messages /\ outbox.left \subseteq Messages
    BY DEF OutboxInv, TypeOK
  <1>1. ASSUME NEW n \in Notices, notify(n) PROVE OutboxInv'
    <2>1. /\ event' = Answered(n, "processed", "done") /\ event[n].status = "none"
          /\ UNCHANGED <<effect, relay, outbox, lock, up, told, inbox, budget>>
      BY <1>1 DEF notify
    <2>2. n \in Messages /\ ~Settled(n) /\ n \notin Commands
      BY <2>1, OutboxAssumption DEF Messages, Settled
    <2>3. /\ Stored' /\ \A k \in Messages \ {n} : event'[k] = event[k]
          /\ event'[n].status = "processed"
      BY <2>1, <2>2, InvStored, AnswerKeeps DEF Replies
    <2>4. ReplyTellsEffect'
      BY <2>1, <2>2, <2>3 DEF OutboxInv, ReplyTellsEffect, Messages
    <2>5. RelayHolds'
      BY <1>0, <2>1, <2>2, <2>3 DEF OutboxInv, RelayHolds, Settled
    <2>6. OutboxHolds'
      BY <1>0, <2>1, <2>2, <2>3 DEF OutboxInv, OutboxHolds, Settled
    <2>7. TypeOK'
      BY <1>0, <2>1, <2>3 DEF TypeOK, Stored, Event, Statuses
    <2> QED BY <2>3, <2>4, <2>5, <2>6, <2>7, InvNext
  <1>2. CASE Crash
    <2>1. /\ UNCHANGED <<event, effect, told, inbox>> /\ up' = "down" /\ lock' = "free"
          /\ relay' = IdleRelay /\ outbox' = IdleOutbox
      BY <1>2 DEF Crash
    <2>2. budget' \in [errors : 0 .. MaxErrors, faults : 0 .. MaxFaults,
                       crashes : 0 .. MaxCrashes]
      BY <1>0, <1>2, OutboxAssumption DEF Crash, TypeOK
    <2>3. TypeOK'
      BY <1>0, <2>1, <2>2, IdleTypes DEF TypeOK
    <2>4. RelayHolds' /\ OutboxHolds'
      BY <2>1, IdleTypes DEF RelayHolds, OutboxHolds
    <2> QED BY <2>1, <2>3, <2>4, StillStored
  <1>3. CASE Restart
    <2>1. /\ event' = Repaired /\ up = "down" /\ up' = "starting"
          /\ UNCHANGED <<effect, relay, outbox, lock, told, inbox, budget>>
      BY <1>3 DEF Restart
    <2>2. relay.pc = "idle" /\ outbox.pc = "idle"
      BY <2>1 DEF OutboxInv, RelayHolds, OutboxHolds
    <2>3. /\ Stored'
          /\ \A n \in Messages :
                \/ event'[n] = event[n]
                \/ /\ event[n].status = "processing" /\ event'[n].status = "failed"
                   /\ event'[n].text = "interrupted"
      BY <2>1, InvStored, RepairKeeps
    <2>4. \A n \in Commands : event[n].status = "processing" => effect[n] = 0
      BY DEF OutboxInv, ReplyTellsEffect
    <2>5. ReplyTellsEffect'
      BY <2>1, <2>3, <2>4 DEF OutboxInv, ReplyTellsEffect, Messages
    <2>6. RelayHolds' /\ OutboxHolds'
      BY <2>1, <2>2 DEF RelayHolds, OutboxHolds
    <2>7. TypeOK'
      BY <1>0, <2>1, <2>3 DEF TypeOK, Stored, Event, Statuses
    <2> QED BY <2>3, <2>5, <2>6, <2>7, InvNext
  <1> QED BY <1>1, <1>2, <1>3

LEMMA OutboxInvariant == Spec => []OutboxInv
  <1>1. OutboxInv /\ [Next]_vars => OutboxInv'
    <2> SUFFICES ASSUME OutboxInv, [Next]_vars PROVE OutboxInv'
      OBVIOUS
    <2>1. CASE UNCHANGED vars
      BY <2>1 DEF vars, OutboxInv, TypeOK, EventsAreWhole, RelayHolds, OutboxHolds,
         ReplyTellsEffect, ToldIsReply, SentIsTold, Settled
    <2> QED BY <2>1, HandleKeeps, RelayKeeps, OutboxKeeps, OthersKeep
           DEF Next, RelayStep, OutboxStep
  <1> QED BY <1>1, OutboxInit, PTL DEF Spec

-----------------------------------------------------------------------------
\* Every variable of the commands and the outbox keeps its type.
THEOREM OutboxTypes == Spec => []TypeOK
  <1>1. OutboxInv => TypeOK
    BY DEF OutboxInv
  <1> QED BY <1>1, OutboxInvariant, PTL

\* A command takes effect once at most, and its reply says whether it did,
\* for any number of deliveries, faults and crashes.
THEOREM RepliesTellEffects == Spec => []ReplyTellsEffect
  <1>1. OutboxInv => ReplyTellsEffect
    BY DEF OutboxInv
  <1> QED BY <1>1, OutboxInvariant, PTL

\* Whoever sends it, and however often: what arrived is the stored reply or an
\* apology, and a reply is marked as sent only when it has arrived itself or an
\* apology under its message id has.
THEOREM SentIsAnswered == Spec => []ToldWhatIsStored
  <1>1. OutboxInv => ToldWhatIsStored
    BY DEF OutboxInv, ToldIsReply, SentIsTold, ToldWhatIsStored, Answers
  <1> QED BY <1>1, OutboxInvariant, PTL
=============================================================================
