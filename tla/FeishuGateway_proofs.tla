----------------------- MODULE FeishuGateway_proofs ------------------------
(***************************************************************************)
(* The gateway to Feishu: no child outlives the stop, and a gateway that   *)
(* is called ready serves or is about to be put right, for every capacity  *)
(* of the queue and any number of messages and faults.                     *)
(*                                                                         *)
(* Feeder and pipe are one line of items (Line): a put goes to its end,    *)
(* the feeder leaves it alone, the relay takes its head. What a child has  *)
(* said last is what it does, so a notice "connected" of a child that does *)
(* not serve any more is followed by another one (Overtaken).              *)
(***************************************************************************)
EXTENDS FeishuGateway, SequenceTheorems, TLAPS

Kinds == {"connected", "reconnecting", "failure", "message"}
Items == [kind : Kinds, gen : Nat]
Does  == {"none", "connects", "serves", "reconnects", "exits", "dead"}
Child == [gen : Nat, does : Does]
Queue == [feeder : Seq(Items), pipe : Seq(Items), lost : Nat, locked : BOOLEAN]
Relay == [pc : {"none", "get", "empty", "message", "restart", "backoff", "ended"},
          timer : BOOLEAN, resets : BOOLEAN]

Notice(x, g) == x.gen = g /\ x.kind # "message"

\* The items that have been put and not taken.
Line == queue.pipe \o queue.feeder

NoticeIn(l, g) == \E i \in 1 .. Len(l) : Notice(l[i], g)

\* A notice "connected" of child g is not the last that it has said.
Overtaken(l, g) ==
    \A i \in 1 .. Len(l) : l[i].gen = g /\ l[i].kind = "connected" =>
        \E j \in i + 1 .. Len(l) : Notice(l[j], g)

Old(l, g) == \A i \in 1 .. Len(l) : l[i].gen <= g

-----------------------------------------------------------------------------
(***************************************************************************)
(* Lines of items.                                                         *)
(***************************************************************************)
LEMMA PutAtEnd ==
    ASSUME NEW l \in Seq(Items), NEW x \in Items, NEW g \in Nat
    PROVE  /\ NoticeIn(l, g) => NoticeIn(Append(l, x), g)
           /\ Notice(x, g) => NoticeIn(Append(l, x), g)
           /\ Notice(x, g) /\ x.kind # "connected" => Overtaken(Append(l, x), g)
           /\ x.kind = "message" /\ Overtaken(l, g) => Overtaken(Append(l, x), g)
           /\ Old(l, g) /\ x.gen <= g => Old(Append(l, x), g)
  <1> DEFINE m == Append(l, x)
  <1>1. /\ Len(l) \in Nat /\ Len(m) = Len(l) + 1 /\ m[Len(l) + 1] = x
        /\ \A i \in 1 .. Len(l) : m[i] = l[i]
    BY AppendProperties
  <1> HIDE DEF m
  <1>2. \A i \in 1 .. Len(m) : i \in 1 .. Len(l) \/ i = Len(l) + 1
    BY <1>1
  <1>3. 1 .. Len(l) \subseteq 1 .. Len(m) /\ Len(l) + 1 \in 1 .. Len(m)
    BY <1>1
  <1>4. NoticeIn(l, g) => NoticeIn(m, g)
    BY <1>1, <1>3 DEF NoticeIn
  <1>5. Notice(x, g) => NoticeIn(m, g)
    BY <1>1, <1>3 DEF NoticeIn
  <1>6. ASSUME Notice(x, g), x.kind # "connected" PROVE Overtaken(m, g)
    <2> SUFFICES ASSUME NEW i \in 1 .. Len(m), m[i].gen = g, m[i].kind = "connected"
                 PROVE  \E j \in i + 1 .. Len(m) : Notice(m[j], g)
      BY DEF Overtaken
    <2>1. i # Len(l) + 1
      BY <1>1, <1>6
    <2>2. Len(l) + 1 \in i + 1 .. Len(m)
      BY <1>1, <1>2, <2>1
    <2> QED BY <1>1, <1>6, <2>2
  <1>7. ASSUME x.kind = "message", Overtaken(l, g) PROVE Overtaken(m, g)
    <2> SUFFICES ASSUME NEW i \in 1 .. Len(m), m[i].gen = g, m[i].kind = "connected"
                 PROVE  \E j \in i + 1 .. Len(m) : Notice(m[j], g)
      BY DEF Overtaken
    <2>1. i \in 1 .. Len(l) /\ l[i] = m[i]
      BY <1>1, <1>2, <1>7
    <2>2. PICK j \in i + 1 .. Len(l) : Notice(l[j], g)
      BY <1>7, <2>1 DEF Overtaken
    <2>3. j \in i + 1 .. Len(m) /\ m[j] = l[j]
      BY <1>1, <2>1
    <2> QED BY <2>2, <2>3
  <1>8. Old(l, g) /\ x.gen <= g => Old(m, g)
    BY <1>1, <1>2 DEF Old
  <1> QED BY <1>4, <1>5, <1>6, <1>7, <1>8 DEF m

LEMMA TakeHead ==
    ASSUME NEW l \in Seq(Items), l # <<>>, NEW g \in Nat
    PROVE  /\ NoticeIn(l, g) /\ ~Notice(Head(l), g) => NoticeIn(Tail(l), g)
           /\ Overtaken(l, g) => Overtaken(Tail(l), g)
           /\ Overtaken(l, g) /\ Head(l).gen = g /\ Head(l).kind = "connected"
                 => NoticeIn(Tail(l), g)
           /\ Old(l, g) => Old(Tail(l), g)
  <1> DEFINE m == Tail(l)
             h == Head(l)
  <1>1. /\ Len(l) \in Nat \ {0} /\ Len(m) = Len(l) - 1 /\ h = l[1]
        /\ \A i \in 1 .. Len(m) : m[i] = l[i + 1]
    BY HeadTailProperties, EmptySeq
  <1> HIDE DEF m, h
  <1>2. \A i \in 2 .. Len(l) : i - 1 \in 1 .. Len(m) /\ m[i - 1] = l[i]
    BY <1>1
  <1>3. ASSUME NoticeIn(l, g), ~Notice(h, g) PROVE NoticeIn(m, g)
    <2>1. PICK i \in 1 .. Len(l) : Notice(l[i], g)
      BY <1>3 DEF NoticeIn
    <2>2. i \in 2 .. Len(l)
      BY <1>1, <1>3, <2>1
    <2> QED BY <1>2, <2>1, <2>2 DEF NoticeIn
  <1>4. ASSUME Overtaken(l, g) PROVE Overtaken(m, g)
    <2> SUFFICES ASSUME NEW i \in 1 .. Len(m), m[i].gen = g, m[i].kind = "connected"
                 PROVE  \E j \in i + 1 .. Len(m) : Notice(m[j], g)
      BY DEF Overtaken
    <2>1. i + 1 \in 1 .. Len(l) /\ l[i + 1] = m[i]
      BY <1>1
    <2>2. PICK j \in (i + 1) + 1 .. Len(l) : Notice(l[j], g)
      BY <1>4, <2>1 DEF Overtaken
    <2>3. j \in 2 .. Len(l) /\ j - 1 \in i + 1 .. Len(m)
      BY <1>1, <2>2
    <2> QED BY <1>2, <2>2, <2>3
  <1>5. ASSUME Overtaken(l, g), h.gen = g, h.kind = "connected" PROVE NoticeIn(m, g)
    <2>1. PICK j \in 1 + 1 .. Len(l) : Notice(l[j], g)
      BY <1>1, <1>5 DEF Overtaken
    <2> QED BY <1>2, <2>1 DEF NoticeIn
  <1>6. ASSUME Old(l, g) PROVE Old(m, g)
    BY <1>1, <1>6 DEF Old
  <1> QED BY <1>3, <1>4, <1>5, <1>6 DEF m, h

\* What feeding, putting and taking do to pipe and feeder as one line.
LEMMA LineFacts ==
    ASSUME NEW p \in Seq(Items), NEW f \in Seq(Items)
    PROVE  /\ p \o f \in Seq(Items)
           /\ f # <<>> => Append(p, Head(f)) \o Tail(f) = p \o f
           /\ \A x \in Items : p \o Append(f, x) = Append(p \o f, x)
           /\ p # <<>> => /\ p \o f # <<>> /\ Tail(p) \o f = Tail(p \o f)
                          /\ Head(p \o f) = Head(p)
           /\ \A g \in Nat : Old(p \o f, g) => Old(p \o <<>>, g)
  <1>1. p \o f \in Seq(Items)
    BY ConcatProperties
  <1>2. ASSUME f # <<>> PROVE Append(p, Head(f)) \o Tail(f) = p \o f
    BY <1>2
  <1>3. ASSUME NEW x \in Items PROVE p \o Append(f, x) = Append(p \o f, x)
    OBVIOUS
  <1>4. ASSUME p # <<>>
        PROVE  p \o f # <<>> /\ Tail(p) \o f = Tail(p \o f) /\ Head(p \o f) = Head(p)
    BY <1>4
  <1>5. ASSUME NEW g \in Nat, Old(p \o f, g) PROVE Old(p \o <<>>, g)
    BY <1>5 DEF Old
  <1> QED BY <1>1, <1>2, <1>3, <1>4, <1>5

-----------------------------------------------------------------------------
(***************************************************************************)
(* The invariant.                                                          *)
(***************************************************************************)
Typed == TypeOK /\ child \in Child /\ queue \in Queue

\* The child at work is the last one that was started, and nothing in the line
\* is from a later one.
Newest ==
    /\ child.does # "none" => child.gen = generation
    /\ Old(Line, generation)

\* What the thread that starts and stops relies on.
ManagerKnows ==
    /\ manager = "new" => child = NoChild
    /\ manager \in {"new", "child"} => relay.pc = "none" /\ ~running
    /\ manager \in {"stop", "join"} => stopping
    /\ manager \in {"join", "stopped"} => ~Alive /\ (stopping \/ relay.pc = "none")

\* While a child is replaced, only the start calls the gateway running.
RestartKnows == relay.pc \in {"restart", "backoff"} /\ running => presumed

\* What a child that does not serve has said last says so.
SaysSo == Alive /\ child.does # "serves" /\ ~missed => Overtaken(Line, child.gen)

\* ReadyIsServing, without the relay.
RunningIsServing ==
    running /\ Alive => \/ child.does = "serves" \/ relay.timer \/ presumed \/ missed
                        \/ NoticeIn(Line, child.gen)

\* The inductive invariant.
GatewayInv ==
    Typed /\ Newest /\ ManagerKnows /\ RestartKnows /\ SaysSo /\ RunningIsServing

LEMMA GatewayInit == Init => GatewayInv
  <1> SUFFICES ASSUME Init PROVE GatewayInv
    OBVIOUS
  <1>1. queue \in Queue /\ Line = <<>> /\ child \in Child /\ child.does = "none"
    BY DEF Init, Queue, Line, NoChild, Child, Does
  <1>2. {stopping, running, presumed, missed} \subseteq BOOLEAN
    BY Zenon DEF Init
  <1>3. TypeOK
    BY <1>1, <1>2, GatewayAssumption DEF Init, TypeOK, NoRelay, NoChild
  <1> QED BY <1>1, <1>3 DEF Init, GatewayInv, Typed, Newest, Old, ManagerKnows, RestartKnows,
        SaysSo, RunningIsServing, Alive, NoRelay

LEMMA TypedFacts ==
    ASSUME Typed
    PROVE  /\ TypeOK /\ child \in Child /\ queue \in Queue /\ relay \in Relay
           /\ Line \in Seq(Items) /\ generation \in Nat /\ child.gen \in Nat
           /\ queue.pipe \in Seq(Items) /\ queue.feeder \in Seq(Items)
           /\ Len(queue.feeder) \in Nat /\ Len(queue.pipe) \in Nat /\ queue.lost \in Nat
           /\ stopping \in BOOLEAN /\ running \in BOOLEAN
           /\ presumed \in BOOLEAN /\ missed \in BOOLEAN
  <1>1. TypeOK /\ child \in Child /\ queue \in Queue /\ relay \in Relay /\ generation \in Nat
    BY DEF Typed, TypeOK, Relay
  <1>2. /\ queue.pipe \in Seq(Items) /\ queue.feeder \in Seq(Items) /\ queue.lost \in Nat
        /\ child.gen \in Nat
    BY <1>1 DEF Queue, Child
  <1>3. /\ Len(queue.feeder) \in Nat /\ Len(queue.pipe) \in Nat /\ Line \in Seq(Items)
    BY <1>2, ConcatProperties DEF Line
  <1>4. /\ stopping \in BOOLEAN /\ running \in BOOLEAN
        /\ presumed \in BOOLEAN /\ missed \in BOOLEAN
    BY <1>1, Zenon DEF TypeOK
  <1> QED BY <1>1, <1>2, <1>3, <1>4

\* The bound of the queue: items and lost slots.
Within(q) == Len(q.feeder) + Len(q.pipe) + q.lost <= QUEUE_CAPACITY

\* _put_gateway_item.
LEMMA PutIs ==
    ASSUME Typed, NEW k \in Kinds, Put(k)
    PROVE  /\ queue' \in Queue /\ Within(queue')
           /\ missed' \in BOOLEAN
           /\ \/ Line' = Line /\ (missed' <=> missed \/ k # "message")
              \/ Line' = Append(Line, [kind |-> k, gen |-> child.gen]) /\ missed' = missed
  <1> DEFINE x == [kind |-> k, gen |-> child.gen]
  <1>0. /\ queue \in Queue /\ queue.pipe \in Seq(Items) /\ queue.feeder \in Seq(Items)
        /\ x \in Items
    BY TypedFacts DEF Items
  <1>n. /\ QUEUE_CAPACITY \in Nat /\ Within(queue)
        /\ Len(queue.feeder) \in Nat /\ Len(queue.pipe) \in Nat /\ queue.lost \in Nat
    BY TypedFacts, GatewayAssumption DEF Within, TypeOK
  <1>1. CASE Full
    <2>1. queue' = queue /\ missed' = (missed \/ k # "message")
      BY <1>1, Zenon DEF Put
    <2>2. missed' \in BOOLEAN /\ (missed' <=> missed \/ k # "message")
      <3> DEFINE b == missed \/ k # "message"
      <3>1. b \in BOOLEAN
        OBVIOUS
      <3>2. missed' = b
        BY <2>1, Zenon
      <3> HIDE DEF b
      <3>3. missed' \in BOOLEAN /\ (missed' <=> b)
        BY <3>1, <3>2
      <3> QED BY <3>3 DEF b
    <2> QED BY <1>0, <1>n, <2>1, <2>2 DEF Line
  <1>2. CASE ~Full
    <2>1. queue' = [queue EXCEPT !.feeder = Append(queue.feeder, x)] /\ missed' = missed
      BY <1>2 DEF Put
    <2> HIDE DEF x
    <2>2. Append(queue.feeder, x) \in Seq(Items) /\ Len(Append(queue.feeder, x)) = Len(queue.feeder) + 1
      BY <1>0, AppendProperties
    <2>3. /\ queue' \in Queue /\ queue'.feeder = Append(queue.feeder, x)
          /\ queue'.pipe = queue.pipe /\ queue'.lost = queue.lost
      BY <1>0, <2>1, <2>2 DEF Queue
    <2>4. Within(queue')
      <3> DEFINE f == Len(queue.feeder)
                 p == Len(queue.pipe)
                 o == queue.lost
      <3>1. f \in Nat /\ p \in Nat /\ o \in Nat /\ ~(f + p + o >= QUEUE_CAPACITY)
        BY <1>n, <1>2 DEF Full
      <3>2. Len(queue'.feeder) = f + 1 /\ Len(queue'.pipe) = p /\ queue'.lost = o
        BY <2>2, <2>3
      <3> HIDE DEF f, p, o
      <3>3. (f + 1) + p + o <= QUEUE_CAPACITY
        BY <1>n, <3>1
      <3> QED BY <3>2, <3>3 DEF Within
    <2>5. Line' = Append(Line, x)
      <3>1. queue.pipe \o Append(queue.feeder, x) = Append(queue.pipe \o queue.feeder, x)
        BY <1>0, LineFacts
      <3> QED BY <2>3, <3>1 DEF Line
    <2>6. missed' \in BOOLEAN
      BY <2>1, TypedFacts
    <2> QED BY <2>1, <2>3, <2>4, <2>5, <2>6 DEF x
  <1> QED BY <1>1, <1>2

\* A child that is killed or terminated leaves the pipe as it was.
LEMMA AbandonIs ==
    ASSUME Typed, queue' \in Abandoned
    PROVE  /\ queue' \in Queue /\ Within(queue')
           /\ \A g \in Nat : Old(Line, g) => Old(Line', g)
  <1> DEFINE f == Len(queue.feeder)
             p == Len(queue.pipe)
             o == queue.lost
  <1>0. /\ queue \in Queue /\ queue.pipe \in Seq(Items) /\ queue.feeder \in Seq(Items)
        /\ f \in Nat /\ p \in Nat /\ o \in Nat /\ f + p + o <= QUEUE_CAPACITY
    BY TypedFacts DEF TypeOK
  <1>1. PICK l \in BOOLEAN :
           queue' = [queue EXCEPT !.feeder = <<>>, !.lost = o + f,
                                  !.locked = queue.locked \/ l]
    BY DEF Abandoned
  <1> DEFINE b == queue.locked \/ l
             n == o + f
             e == <<>>
  <1>b. queue' = [queue EXCEPT !.feeder = e, !.lost = n, !.locked = b]
    BY <1>1
  <1>e. e \in Seq(Items)
    OBVIOUS
  <1>3. b \in BOOLEAN
    OBVIOUS
  <1> HIDE DEF f, p, o, b
  <1>2. n \in Nat /\ 0 + p + n <= QUEUE_CAPACITY
    BY <1>0, GatewayAssumption
  <1> HIDE DEF n, e
  <1>4. /\ queue' \in Queue /\ queue'.feeder = e /\ queue'.pipe = queue.pipe
        /\ queue'.lost = n
    BY <1>0, <1>b, <1>e, <1>2, <1>3 DEF Queue
  <1>5. Len(queue'.feeder) = 0 /\ Len(queue'.pipe) = p
    BY <1>4 DEF p, e
  <1>6. Within(queue')
    BY <1>2, <1>4, <1>5 DEF Within
  <1>7. Line' = queue.pipe \o <<>>
    BY <1>4 DEF Line, e
  <1>8. \A g \in Nat : Old(queue.pipe \o queue.feeder, g) => Old(queue.pipe \o <<>>, g)
    BY <1>0, LineFacts
  <1> QED BY <1>4, <1>6, <1>7, <1>8 DEF Line

\* The feeder moves an item within the line.
LEMMA FeedIs ==
    ASSUME Typed, Feed
    PROVE  queue' \in Queue /\ Within(queue') /\ Line' = Line
  <1> DEFINE f == Len(queue.feeder)
             p == Len(queue.pipe)
             o == queue.lost
             t == Tail(queue.feeder)
             a == Append(queue.pipe, Head(queue.feeder))
  <1>0. /\ queue \in Queue /\ queue.pipe \in Seq(Items) /\ queue.feeder \in Seq(Items)
        /\ f \in Nat /\ p \in Nat /\ o \in Nat /\ f + p + o <= QUEUE_CAPACITY
    BY TypedFacts DEF TypeOK
  <1>1. queue.feeder # <<>> /\ queue' = [queue EXCEPT !.feeder = t, !.pipe = a]
    BY DEF Feed
  <1>2. /\ Head(queue.feeder) \in Items /\ t \in Seq(Items) /\ Len(t) = f - 1
        /\ f \in Nat \ {0}
    BY <1>0, <1>1, HeadTailProperties, EmptySeq
  <1>3. a \in Seq(Items) /\ Len(a) = p + 1
    BY <1>0, <1>2, AppendProperties
  <1>4. a \o t = Line
    BY <1>0, <1>1, LineFacts DEF Line
  <1> HIDE DEF f, p, o, t, a
  <1>5. /\ queue' \in Queue /\ queue'.feeder = t /\ queue'.pipe = a /\ queue'.lost = o
    BY <1>0, <1>1, <1>2, <1>3 DEF Queue, o
  <1>6. (f - 1) + (p + 1) + o <= QUEUE_CAPACITY
    BY <1>0, <1>2, GatewayAssumption
  <1> QED BY <1>2, <1>3, <1>4, <1>5, <1>6 DEF Within, Line

\* The relay takes the head of the line.
LEMMA TakeIs ==
    ASSUME Typed, NEW k, Take(k)
    PROVE  /\ queue' \in Queue /\ Within(queue') /\ Line # <<>> /\ Line' = Tail(Line)
           /\ Head(queue.pipe) = Head(Line) /\ Head(Line).kind = k
           /\ Head(Line) \in Items
  <1> DEFINE f == Len(queue.feeder)
             p == Len(queue.pipe)
             o == queue.lost
             t == Tail(queue.pipe)
  <1>0. /\ queue \in Queue /\ queue.pipe \in Seq(Items) /\ queue.feeder \in Seq(Items)
        /\ f \in Nat /\ p \in Nat /\ o \in Nat /\ f + p + o <= QUEUE_CAPACITY
    BY TypedFacts DEF TypeOK
  <1>1. queue.pipe # <<>> /\ queue' = [queue EXCEPT !.pipe = t] /\ Head(queue.pipe).kind = k
    BY DEF Take
  <1>2. /\ Head(queue.pipe) \in Items /\ t \in Seq(Items) /\ Len(t) = p - 1
        /\ p \in Nat \ {0}
    BY <1>0, <1>1, HeadTailProperties, EmptySeq
  <1>3. Line # <<>> /\ t \o queue.feeder = Tail(Line) /\ Head(Line) = Head(queue.pipe)
    BY <1>0, <1>1, LineFacts DEF Line
  <1>4. /\ queue' \in Queue /\ queue'.feeder = queue.feeder /\ queue'.pipe = t
        /\ queue'.lost = o
    BY <1>0, <1>1, <1>2 DEF Queue
  <1>5. Len(queue'.feeder) = f
    BY <1>4
  <1>6. Line' = Tail(Line)
    BY <1>3, <1>4 DEF Line
  <1> HIDE DEF f, p, o, t
  <1>7. f + (p - 1) + o <= QUEUE_CAPACITY
    BY <1>0, <1>2, GatewayAssumption
  <1> QED BY <1>1, <1>2, <1>3, <1>4, <1>5, <1>6, <1>7 DEF Within

Managers == {"new", "child", "told", "up", "stop", "join", "stopped"}

LEMMA TypedNext ==
    ASSUME child' \in Child, queue' \in Queue, Within(queue'), relay' \in Relay,
           manager' \in Managers, generation' \in Nat,
           {stopping', running', presumed', missed'} \subseteq BOOLEAN,
           messages' \in 0 .. MaxMessages, faults' \in 0 .. MaxFaults
    PROVE  Typed'
  <1> DEFINE f == Len(queue'.feeder)
             p == Len(queue'.pipe)
             o == queue'.lost
  <1>1. f \in Nat /\ p \in Nat /\ o \in Nat /\ queue'.locked \in BOOLEAN
    BY DEF Queue
  <1>2. f + p + o <= QUEUE_CAPACITY
    BY DEF Within
  <1>3. child'.gen \in Nat /\ child'.does \in Does
    BY DEF Child
  <1> HIDE DEF f, p, o
  <1>4. o \in 0 .. QUEUE_CAPACITY
    BY <1>1, <1>2, GatewayAssumption
  <1> QED BY <1>1, <1>2, <1>3, <1>4 DEF Typed, TypeOK, Does, Managers, Relay, f, p, o

-----------------------------------------------------------------------------
(***************************************************************************)
(* The steps of the child.                                                 *)
(***************************************************************************)
LEMMA FaultKeeps ==
    ASSUME Typed, Fault
    PROVE  faults' \in 0 .. MaxFaults
  BY GatewayAssumption DEF Typed, TypeOK, Fault

\* A live child says something, and does what it says.
LEMMA SaidKeeps ==
    ASSUME GatewayInv, Alive, NEW k \in Kinds, Put(k),
           NEW d \in {"serves", "reconnects", "exits"},
           d = "serves" \/ k \in {"reconnecting", "failure"},
           child' \in Child, child'.gen = child.gen, child'.does = d,
           ChildUnchanged, messages' \in 0 .. MaxMessages, faults' \in 0 .. MaxFaults
    PROVE  GatewayInv'
  <1>0. Typed /\ Line \in Seq(Items) /\ child.gen \in Nat /\ generation \in Nat
        /\ child.gen = generation
    BY TypedFacts DEF GatewayInv, Newest, Alive
  <1> DEFINE x == [kind |-> k, gen |-> child.gen]
  <1>1. /\ queue' \in Queue /\ Within(queue') /\ missed' \in BOOLEAN
        /\ \/ Line' = Line /\ (missed' <=> missed \/ k # "message")
           \/ Line' = Append(Line, x) /\ missed' = missed
    BY <1>0, PutIs
  <1>2. x \in Items /\ x.kind = k /\ x.gen = child.gen
    BY <1>0 DEF Items
  <1>3. UNCHANGED <<generation, relay, manager, stopping, running, presumed>>
    BY DEF ChildUnchanged
  <1>4. /\ relay \in Relay /\ manager \in Managers /\ stopping \in BOOLEAN
        /\ running \in BOOLEAN /\ presumed \in BOOLEAN
    BY <1>0, TypedFacts DEF TypeOK, Managers
  <1>5. Typed'
    BY <1>0, <1>1, <1>3, <1>4, TypedNext
  <1> HIDE DEF x
  <1>6. Old(Line', generation)
    <2>1. Old(Line, generation) /\ x.gen <= generation
      BY <1>0, <1>2 DEF GatewayInv, Newest
    <2>2. Old(Append(Line, x), generation)
      BY <1>0, <1>2, <2>1, PutAtEnd
    <2> QED BY <1>1, <2>1, <2>2
  <1>7. d # "serves" /\ ~missed' => Overtaken(Line', child.gen) /\ NoticeIn(Line', child.gen)
    BY <1>0, <1>1, <1>2, PutAtEnd DEF Notice
  <1>8. ManagerKnows'
    BY <1>3 DEF GatewayInv, ManagerKnows, Alive, NoChild
  <1>9. Newest' /\ RestartKnows' /\ SaysSo' /\ RunningIsServing'
    BY <1>0, <1>3, <1>6, <1>7 DEF GatewayInv, Newest, RestartKnows, SaysSo, RunningIsServing
  <1> QED BY <1>5, <1>8, <1>9 DEF GatewayInv

\* A child ends.
LEMMA DeathKeeps ==
    ASSUME GatewayInv, child' = [child EXCEPT !.does = "dead"], child.does # "none",
           queue' = queue \/ queue' \in Abandoned,
           ChildUnchanged, UNCHANGED <<messages, missed>>, faults' \in 0 .. MaxFaults
    PROVE  GatewayInv'
  <1>0. Typed /\ Line \in Seq(Items) /\ child \in Child /\ generation \in Nat
    BY TypedFacts DEF GatewayInv
  <1>1. child' \in Child /\ child'.gen = child.gen /\ child'.does = "dead"
    BY <1>0 DEF Child, Does
  <1>2. queue' \in Queue /\ Within(queue') /\ Old(Line', generation)
    <2>1. CASE queue' = queue
      BY <1>0, <2>1, TypedFacts DEF Within, TypeOK, Line, GatewayInv, Newest
    <2>2. CASE queue' \in Abandoned
      BY <1>0, <2>2, AbandonIs DEF GatewayInv, Newest
    <2> QED BY <2>1, <2>2
  <1>3. UNCHANGED <<generation, relay, manager, stopping, running, presumed, messages, missed>>
    BY DEF ChildUnchanged
  <1>4. /\ relay \in Relay /\ manager \in Managers /\ stopping \in BOOLEAN
        /\ running \in BOOLEAN /\ presumed \in BOOLEAN /\ missed \in BOOLEAN
        /\ messages \in 0 .. MaxMessages
    BY <1>0, TypedFacts DEF TypeOK, Managers
  <1>5. Typed'
    BY <1>0, <1>1, <1>2, <1>3, <1>4, TypedNext
  <1>6. ~Alive'
    BY <1>1 DEF Alive
  <1>7. ManagerKnows'
    BY <1>3, <1>6 DEF GatewayInv, ManagerKnows, NoChild
  <1>8. Newest' /\ RestartKnows' /\ SaysSo' /\ RunningIsServing'
    BY <1>1, <1>2, <1>3, <1>6 DEF GatewayInv, Newest, RestartKnows, SaysSo, RunningIsServing
  <1> QED BY <1>5, <1>7, <1>8 DEF GatewayInv

LEMMA ChildKeeps ==
    ASSUME GatewayInv, ChildStep
    PROVE  GatewayInv'
  <1>0. /\ Typed /\ child \in Child /\ messages \in 0 .. MaxMessages
        /\ faults \in 0 .. MaxFaults
    BY TypedFacts DEF GatewayInv, TypeOK
  <1>1. CASE Connects
    <2>1. /\ Alive /\ Put("connected") /\ ChildUnchanged /\ UNCHANGED <<messages, faults>>
          /\ child' = [child EXCEPT !.does = "serves"]
      BY <1>1 DEF Connects, Alive
    <2>2. child' \in Child /\ child'.gen = child.gen /\ child'.does = "serves"
      BY <1>0, <2>1 DEF Child, Does
    <2> QED BY <1>0, <2>1, <2>2, SaidKeeps DEF Kinds
  <1>2. CASE LosesConnection
    <2>1. /\ Alive /\ Put("reconnecting") /\ ChildUnchanged /\ UNCHANGED messages /\ Fault
          /\ child' = [child EXCEPT !.does = "reconnects"]
      BY <1>2 DEF LosesConnection, Alive
    <2>2. child' \in Child /\ child'.gen = child.gen /\ child'.does = "reconnects"
      BY <1>0, <2>1 DEF Child, Does
    <2> QED BY <1>0, <2>1, <2>2, SaidKeeps, FaultKeeps DEF Kinds
  <1>3. CASE Fails
    <2>1. /\ Alive /\ Put("failure") /\ ChildUnchanged /\ UNCHANGED messages /\ Fault
          /\ child' = [child EXCEPT !.does = "exits"]
      BY <1>3 DEF Fails, Alive
    <2>2. child' \in Child /\ child'.gen = child.gen /\ child'.does = "exits"
      BY <1>0, <2>1 DEF Child, Does
    <2> QED BY <1>0, <2>1, <2>2, SaidKeeps, FaultKeeps DEF Kinds
  <1>4. CASE Receives
    <2>1. /\ Alive /\ Put("message") /\ ChildUnchanged /\ UNCHANGED <<child, faults>>
          /\ messages' = messages + 1 /\ messages < MaxMessages /\ child.does = "serves"
      BY <1>4 DEF Receives, Alive
    <2>2. messages' \in 0 .. MaxMessages
      BY <1>0, <2>1, GatewayAssumption
    <2> QED BY <1>0, <2>1, <2>2, SaidKeeps DEF Kinds
  <1>5. CASE Feed
    <2>1. /\ queue' \in Queue /\ Within(queue') /\ Line' = Line
      BY <1>0, <1>5, FeedIs
    <2>2. UNCHANGED <<child, messages, faults, missed, generation, relay, manager, stopping,
                      running, presumed>>
      BY <1>5 DEF Feed, ChildUnchanged
    <2>3. Typed'
      BY <1>0, <2>1, <2>2, TypedFacts, TypedNext DEF TypeOK, Managers
    <2> QED BY <2>1, <2>2, <2>3 DEF GatewayInv, Newest, ManagerKnows, RestartKnows, SaysSo,
               RunningIsServing, Alive
  <1>6. CASE Exits
    BY <1>0, <1>6, DeathKeeps DEF Exits
  <1>7. CASE IsKilled
    BY <1>0, <1>7, DeathKeeps, FaultKeeps DEF IsKilled, Alive
  <1> QED BY <1>1, <1>2, <1>3, <1>4, <1>5, <1>6, <1>7 DEF ChildStep

-----------------------------------------------------------------------------
(***************************************************************************)
(* The steps of the relay and of the manager.                              *)
(***************************************************************************)
\* The relay goes on without looking at the queue.
LEMMA RelayGoes ==
    ASSUME GatewayInv, relay' \in Relay, relay.pc # "none", relay'.pc # "none",
           relay'.timer = relay.timer, relay'.pc \notin {"restart", "backoff"},
           UNCHANGED <<child, queue, running, presumed, missed>>, RelayUnchanged,
           faults' \in 0 .. MaxFaults
    PROVE  GatewayInv'
  <1>1. UNCHANGED <<child, queue, running, presumed, missed, generation, manager, stopping,
                    messages>>
    BY DEF RelayUnchanged
  <1>2. Line' = Line
    BY <1>1 DEF Line
  <1>3. Typed'
    BY <1>1 DEF GatewayInv, Typed, TypeOK, Relay
  <1>4. ManagerKnows'
    BY <1>1 DEF GatewayInv, ManagerKnows, Alive
  <1> QED BY <1>1, <1>2, <1>3, <1>4 DEF GatewayInv, Newest, RestartKnows, SaysSo,
             RunningIsServing, Alive

\* The relay gives up a child.
LEMMA GivesUp ==
    ASSUME GatewayInv, NEW b \in BOOLEAN, Restart(b), relay.pc # "none",
           queue' \in Queue, Within(queue'), Old(Line', generation),
           Overtaken(Line, child.gen) => Overtaken(Line', child.gen),
           UNCHANGED <<child, faults, missed>>, RelayUnchanged
    PROVE  GatewayInv'
  <1>0. Typed /\ relay \in Relay
    BY TypedFacts DEF GatewayInv
  <1>1. relay' \in Relay /\ relay'.pc = "restart"
    BY <1>0 DEF Restart, Relay
  <1>2. /\ running' = FALSE /\ presumed' = FALSE
        /\ UNCHANGED <<child, faults, missed, generation, manager, stopping, messages>>
    BY DEF Restart, RelayUnchanged
  <1>3. running' \in BOOLEAN /\ presumed' \in BOOLEAN
    BY <1>2, Zenon
  <1>4. Typed'
    BY <1>0, <1>1, <1>2, <1>3, TypedFacts, TypedNext DEF TypeOK, Managers
  <1>5. ManagerKnows'
    BY <1>1, <1>2 DEF GatewayInv, ManagerKnows, Alive
  <1>6. Newest' /\ RestartKnows' /\ SaysSo' /\ RunningIsServing'
    BY <1>2 DEF GatewayInv, Newest, RestartKnows, SaysSo, RunningIsServing, Alive
  <1> QED BY <1>4, <1>5, <1>6 DEF GatewayInv

\* The relay takes an item.
LEMMA TakesKeep ==
    ASSUME GatewayInv,
           TakeStale \/ TakeFailure \/ TakeReconnecting \/ TakeConnected \/ TakeMessage
    PROVE  GatewayInv'
  <1>0. /\ Typed /\ relay \in Relay /\ Line \in Seq(Items) /\ generation \in Nat
        /\ child.gen \in Nat
    BY TypedFacts DEF GatewayInv
  <1>1. PICK k \in Kinds : Take(k)
    BY DEF TakeStale, TakeFailure, TakeReconnecting, TakeConnected, TakeMessage, Kinds
  <1>2. /\ queue' \in Queue /\ Within(queue') /\ Line # <<>> /\ Line' = Tail(Line)
        /\ Head(queue.pipe) = Head(Line) /\ Head(Line).kind = k
    BY <1>0, <1>1, TakeIs
  <1>3. /\ UNCHANGED <<child, faults, missed, generation, manager, stopping, messages>>
        /\ relay.pc = "get" /\ RelayUnchanged
    BY <1>1 DEF Take, RelayUnchanged, Relaying
  <1>4. Old(Line', generation) /\ (Overtaken(Line, child.gen) => Overtaken(Line', child.gen))
    BY <1>0, <1>2, TakeHead DEF GatewayInv, Newest
  <1>5. NoticeIn(Line, child.gen) /\ ~Notice(Head(Line), child.gen) => NoticeIn(Line', child.gen)
    BY <1>0, <1>2, TakeHead
  <1>6. Newest' /\ SaysSo'
    BY <1>3, <1>4 DEF GatewayInv, Newest, SaysSo, Alive
  <1>7. CASE TakeFailure
    BY <1>2, <1>3, <1>4, <1>7, GivesUp DEF TakeFailure
  <1>8. CASE TakeStale \/ TakeMessage
    <2>1. Alive => ~Notice(Head(Line), child.gen)
      BY <1>2, <1>8 DEF TakeStale, TakeMessage, Take, Current, Notice, GatewayInv, Newest, Alive
    <2>2. /\ relay' \in Relay /\ relay'.timer = relay.timer /\ relay'.pc \in {"get", "message"}
          /\ UNCHANGED <<running, presumed>>
      BY <1>0, <1>3, <1>8 DEF TakeStale, TakeMessage, Relay
    <2>3. Typed'
      BY <1>0, <1>2, <1>3, <2>2, TypedFacts, TypedNext DEF TypeOK, Managers
    <2>4. ManagerKnows' /\ RestartKnows'
      BY <1>3, <2>2 DEF GatewayInv, ManagerKnows, RestartKnows, Alive
    <2>5. RunningIsServing'
      BY <1>3, <1>5, <2>1, <2>2 DEF GatewayInv, RunningIsServing, Alive
    <2> QED BY <1>6, <2>3, <2>4, <2>5 DEF GatewayInv
  <1>9. CASE TakeReconnecting
    <2>1. /\ relay' = [relay EXCEPT !.timer = TRUE] /\ UNCHANGED <<running, presumed>>
      BY <1>9 DEF TakeReconnecting
    <2>2. relay' \in Relay /\ relay'.timer /\ relay'.pc = "get"
      BY <1>0, <1>3, <2>1 DEF Relay
    <2>3. Typed'
      BY <1>0, <1>2, <1>3, <2>1, <2>2, TypedFacts, TypedNext DEF TypeOK, Managers
    <2>4. ManagerKnows' /\ RestartKnows' /\ RunningIsServing'
      BY <1>3, <2>1, <2>2 DEF GatewayInv, ManagerKnows, RestartKnows, RunningIsServing, Alive
    <2> QED BY <1>6, <2>3, <2>4 DEF GatewayInv
  <1>10. CASE TakeConnected
    <2>1. /\ relay' = [relay EXCEPT !.timer = FALSE] /\ running' = TRUE /\ presumed' = FALSE
          /\ Take("connected") /\ Current(Head(queue.pipe))
      BY <1>10 DEF TakeConnected
    <2>2. relay' \in Relay /\ relay'.pc = "get"
      BY <1>0, <1>3, <2>1 DEF Relay
    <2>3. running' \in BOOLEAN /\ presumed' \in BOOLEAN
      BY <2>1, Zenon
    <2>4. Typed'
      BY <1>0, <1>2, <1>3, <2>2, <2>3, TypedFacts, TypedNext DEF TypeOK, Managers
    <2>5. ManagerKnows' /\ RestartKnows'
      BY <1>3, <2>1, <2>2 DEF GatewayInv, ManagerKnows, RestartKnows, Alive
    <2>6. Alive => Head(Line).gen = child.gen /\ Head(Line).kind = "connected"
      BY <1>2, <2>1 DEF Take, Current, GatewayInv, Newest, Alive
    <2>7. Alive /\ Overtaken(Line, child.gen) => NoticeIn(Line', child.gen)
      BY <1>0, <1>2, <2>6, TakeHead
    <2>8. RunningIsServing'
      BY <1>3, <2>7 DEF GatewayInv, SaysSo, RunningIsServing, Alive
    <2> QED BY <1>6, <2>4, <2>5, <2>8 DEF GatewayInv
  <1> QED BY <1>7, <1>8, <1>9, <1>10

\* _stop_process: whoever calls it, no child is left.
LEMMA StopIs ==
    ASSUME GatewayInv, StopProcess
    PROVE  /\ child' = NoChild /\ child' \in Child /\ ~Alive'
           /\ queue' \in Queue /\ Within(queue') /\ Old(Line', generation)
  <1>0. Typed /\ generation \in Nat
    BY TypedFacts DEF GatewayInv
  <1>1. child' = NoChild /\ child' \in Child /\ ~Alive'
    BY DEF StopProcess, NoChild, Child, Does, Alive
  <1>2. queue' \in Queue /\ Within(queue') /\ Old(Line', generation)
    <2>1. CASE queue' = queue
      BY <1>0, <2>1, TypedFacts DEF Within, TypeOK, Line, GatewayInv, Newest
    <2>2. CASE queue' \in Abandoned
      BY <1>0, <2>2, AbandonIs DEF GatewayInv, Newest
    <2> QED BY <2>1, <2>2 DEF StopProcess
  <1> QED BY <1>1, <1>2

\* _start_process in a gateway that is not stopping: nothing in the line is from
\* the new child.
LEMMA StartIs ==
    ASSUME GatewayInv, StartProcess, ~stopping, queue' = queue
    PROVE  /\ child' \in Child /\ generation' \in Nat /\ ~missed' /\ missed' \in BOOLEAN
           /\ Newest' /\ SaysSo'
  <1>0. Typed /\ generation \in Nat /\ Line \in Seq(Items) /\ Len(Line) \in Nat
    BY TypedFacts DEF GatewayInv
  <1>1. /\ generation' = generation + 1 /\ missed' = FALSE
        /\ child' = [gen |-> generation', does |-> "connects"]
    BY DEF StartProcess
  <1>2. child' \in Child /\ generation' \in Nat /\ child'.gen = generation'
    BY <1>0, <1>1 DEF Child, Does
  <1>3. missed' \in BOOLEAN
    BY <1>1, Zenon
  <1>4. Line' = Line
    BY DEF Line
  <1>5. \A i \in 1 .. Len(Line) : Line[i] \in Items /\ Line[i].gen <= generation
    BY <1>0, ElementOfSeq DEF GatewayInv, Newest, Old
  <1>6. \A i \in 1 .. Len(Line) : Line[i].gen <= generation' /\ Line[i].gen # generation'
    BY <1>0, <1>1, <1>5 DEF Items
  <1>7. Newest'
    BY <1>2, <1>4, <1>6 DEF Newest, Old
  <1>8. SaysSo'
    BY <1>2, <1>4, <1>6 DEF SaysSo, Overtaken
  <1> QED BY <1>1, <1>2, <1>3, <1>7, <1>8

LEMMA RelayKeeps ==
    ASSUME GatewayInv, RelayStep
    PROVE  GatewayInv'
  <1>0. /\ Typed /\ relay \in Relay /\ faults \in 0 .. MaxFaults /\ generation \in Nat
        /\ queue \in Queue /\ Within(queue) /\ Old(Line, generation)
    BY TypedFacts DEF GatewayInv, TypeOK, Within, Newest
  <1>1. CASE Handled
    <2>1. /\ relay' \in Relay /\ relay.pc = "message" /\ relay'.pc \in {"get", "ended"}
          /\ relay'.timer = relay.timer
      BY <1>0, <1>1 DEF Handled, Relay
    <2>2. faults' \in 0 .. MaxFaults
      BY <1>0, <1>1, FaultKeeps DEF Handled
    <2> QED BY <1>1, <2>1, <2>2, RelayGoes DEF Handled
  <1>2. CASE Waited \/ WaitAgain \/ RelayEnds
    <2>1. /\ relay' \in Relay /\ relay.pc \in {"get", "empty"}
          /\ relay'.pc \in {"get", "empty", "ended"} /\ relay'.timer = relay.timer
      BY <1>0, <1>2 DEF Waited, WaitAgain, RelayEnds, Relaying, Relay
    <2>2. UNCHANGED <<child, queue, running, faults, presumed, missed>> /\ RelayUnchanged
      BY <1>2 DEF Waited, WaitAgain, RelayEnds
    <2> QED BY <1>0, <2>1, <2>2, RelayGoes
  <1>3. CASE ReconnectTimeout \/ ConnectionClosed
    <2>1. /\ relay.pc = "empty" /\ UNCHANGED <<child, queue, faults, missed>> /\ RelayUnchanged
          /\ \E b \in BOOLEAN : Restart(b)
      BY <1>3 DEF ReconnectTimeout, ConnectionClosed
    <2>2. Line' = Line
      BY <2>1 DEF Line
    <2> QED BY <1>0, <2>1, <2>2, GivesUp
  <1>4. CASE StopOld
    <2>1. /\ relay' \in Relay /\ relay.pc = "restart" /\ relay'.pc = "backoff"
      BY <1>0, <1>4 DEF StopOld, Relay
    <2>2. /\ child' = NoChild /\ child' \in Child /\ ~Alive'
          /\ queue' \in Queue /\ Within(queue') /\ Old(Line', generation)
      BY <1>4, StopIs DEF StopOld
    <2>3. UNCHANGED <<running, faults, presumed, missed, generation, manager, stopping, messages>>
      BY <1>4 DEF StopOld, RelayUnchanged
    <2>4. Typed'
      BY <1>0, <2>1, <2>2, <2>3, TypedFacts, TypedNext DEF TypeOK, Managers
    <2>5. ManagerKnows' /\ RestartKnows'
      BY <2>1, <2>2, <2>3 DEF GatewayInv, ManagerKnows, RestartKnows
    <2>6. Newest' /\ SaysSo' /\ RunningIsServing'
      BY <2>2, <2>3 DEF Newest, SaysSo, RunningIsServing, NoChild
    <2> QED BY <2>4, <2>5, <2>6 DEF GatewayInv
  <1>5. CASE Restarted
    <2>1. /\ relay.pc = "backoff" /\ relay' \in Relay /\ relay'.pc \in {"ended", "get"}
      <3> DEFINE b == relay.timer /\ ~relay.resets
                 c == IF stopping THEN "ended" ELSE "get"
      <3>1. relay' = [relay EXCEPT !.pc = c, !.timer = b, !.resets = FALSE]
        BY <1>5 DEF Restarted
      <3>2. b \in BOOLEAN /\ c \in {"ended", "get"}
        OBVIOUS
      <3> HIDE DEF b, c
      <3> QED BY <1>0, <1>5, <3>1, <3>2 DEF Relay, Restarted
    <2>2. /\ UNCHANGED <<queue, manager, stopping, running, messages, presumed>>
          /\ faults' \in 0 .. MaxFaults
      BY <1>0, <1>5, FaultKeeps DEF Restarted
    <2>3. running => presumed
      BY <2>1 DEF GatewayInv, RestartKnows
    <2>4. RestartKnows' /\ RunningIsServing'
      BY <2>1, <2>2, <2>3 DEF RestartKnows, RunningIsServing
    <2>5. CASE UNCHANGED <<child, generation, missed>>
      <3>1. Typed'
        BY <1>0, <2>1, <2>2, <2>5, TypedFacts, TypedNext DEF TypeOK, Managers
      <3>2. ManagerKnows' /\ Newest' /\ SaysSo'
        BY <2>1, <2>2, <2>5 DEF GatewayInv, ManagerKnows, Newest, SaysSo, Alive, Line
      <3> QED BY <2>4, <3>1, <3>2 DEF GatewayInv
    <2>6. CASE StartProcess /\ ~stopping
      <3>1. /\ child' \in Child /\ generation' \in Nat /\ missed' \in BOOLEAN
            /\ Newest' /\ SaysSo'
        BY <2>2, <2>6, StartIs
      <3>2. Typed'
        BY <1>0, <2>1, <2>2, <3>1, TypedFacts, TypedNext DEF TypeOK, Managers
      <3>3. manager \notin {"new", "child", "stop", "join", "stopped"}
        BY <2>1, <2>6 DEF GatewayInv, ManagerKnows
      <3>4. ManagerKnows'
        BY <2>2, <3>3 DEF ManagerKnows
      <3> QED BY <2>4, <3>1, <3>2, <3>4 DEF GatewayInv
    <2> QED BY <1>5, <2>5, <2>6 DEF Restarted, StartProcess
  <1> QED BY <1>1, <1>2, <1>3, <1>4, <1>5, TakesKeep DEF RelayStep

LEMMA ManagerKeeps ==
    ASSUME GatewayInv, StartChild \/ StartRelay \/ TellRunning \/ Stop \/ StopStep
    PROVE  GatewayInv'
  <1>0. /\ Typed /\ relay \in Relay /\ faults \in 0 .. MaxFaults /\ generation \in Nat
        /\ queue \in Queue /\ Within(queue) /\ child \in Child
    BY TypedFacts DEF GatewayInv, TypeOK, Within
  <1>1. CASE StartChild
    <2>1. /\ manager = "new" /\ child = NoChild /\ relay.pc = "none" /\ ~running
          /\ UNCHANGED <<queue, relay, stopping, running, messages, presumed>>
          /\ faults' \in 0 .. MaxFaults /\ manager' \in {"child", "stopped"}
      BY <1>0, <1>1, FaultKeeps DEF StartChild, ManagerUnchanged, GatewayInv, ManagerKnows
    <2>2. RestartKnows' /\ RunningIsServing'
      BY <2>1 DEF RestartKnows, RunningIsServing
    <2>3. CASE UNCHANGED <<child, generation, missed>>
      <3>1. Typed'
        BY <1>0, <2>1, <2>3, TypedFacts, TypedNext DEF TypeOK, Managers
      <3>2. ManagerKnows' /\ Newest' /\ SaysSo'
        BY <2>1, <2>3 DEF GatewayInv, ManagerKnows, Newest, SaysSo, Alive, Line, NoChild
      <3> QED BY <2>2, <3>1, <3>2 DEF GatewayInv
    <2>4. CASE StartProcess /\ ~stopping /\ manager' = "child"
      <3>1. /\ child' \in Child /\ generation' \in Nat /\ missed' \in BOOLEAN
            /\ Newest' /\ SaysSo'
        BY <2>1, <2>4, StartIs
      <3>2. Typed'
        BY <1>0, <2>1, <3>1, TypedFacts, TypedNext DEF TypeOK, Managers
      <3>3. ManagerKnows'
        BY <2>1, <2>4 DEF ManagerKnows
      <3> QED BY <2>2, <3>1, <3>2, <3>3 DEF GatewayInv
    <2> QED BY <1>1, <2>3, <2>4 DEF StartChild, StartProcess
  <1>2. CASE StartRelay
    <2>1. /\ manager = "child" /\ relay.pc = "none" /\ ~running
          /\ UNCHANGED <<child, generation, queue, running, missed, messages, presumed>>
          /\ faults' \in 0 .. MaxFaults
      BY <1>0, <1>2, FaultKeeps DEF StartRelay, ManagerUnchanged, GatewayInv, ManagerKnows
    <2>2. /\ relay' \in Relay
          /\ \/ manager' = "told" /\ stopping' = stopping /\ relay'.pc = "get"
             \/ manager' = "stop" /\ stopping' = TRUE /\ relay' = relay
      BY <1>0, <1>2 DEF StartRelay, NoRelay, Relay
    <2>3. stopping' \in BOOLEAN
      BY <1>0, <2>2, TypedFacts, Zenon
    <2>4. Typed'
      BY <1>0, <2>1, <2>2, <2>3, TypedFacts, TypedNext DEF TypeOK, Managers
    <2>5. Newest' /\ SaysSo'
      BY <2>1 DEF GatewayInv, Newest, SaysSo, Alive, Line
    <2>6. ManagerKnows' /\ RestartKnows' /\ RunningIsServing'
      BY <2>1, <2>2 DEF ManagerKnows, RestartKnows, RunningIsServing
    <2> QED BY <2>4, <2>5, <2>6 DEF GatewayInv
  <1>3. CASE TellRunning \/ Stop
    <2>1. /\ UNCHANGED <<child, generation, queue, relay, faults, missed, messages>>
          /\ manager \in {"told", "up"}
          /\ \/ manager' = "up" /\ running' = TRUE /\ presumed' = TRUE /\ stopping' = stopping
             \/ manager' = "stop" /\ stopping' = TRUE /\ UNCHANGED <<running, presumed>>
      BY <1>3 DEF TellRunning, Stop, ManagerUnchanged
    <2>2. stopping' \in BOOLEAN /\ running' \in BOOLEAN /\ presumed' \in BOOLEAN
      BY <1>0, <2>1, TypedFacts, Zenon
    <2>3. Typed'
      BY <1>0, <2>1, <2>2, TypedFacts, TypedNext DEF TypeOK, Managers
    <2>4. Newest' /\ SaysSo'
      BY <2>1 DEF GatewayInv, Newest, SaysSo, Alive, Line
    <2>5. ManagerKnows' /\ RestartKnows' /\ RunningIsServing'
      BY <2>1 DEF GatewayInv, ManagerKnows, RestartKnows, RunningIsServing, Alive, Line
    <2> QED BY <2>3, <2>4, <2>5 DEF GatewayInv
  <1>4. CASE StopChild
    <2>1. /\ manager = "stop" /\ manager' = "join" /\ stopping
          /\ UNCHANGED <<generation, relay, stopping, running, faults, missed, messages, presumed>>
      BY <1>4 DEF StopChild, ManagerUnchanged, GatewayInv, ManagerKnows
    <2>2. /\ child' = NoChild /\ child' \in Child /\ ~Alive'
          /\ queue' \in Queue /\ Within(queue') /\ Old(Line', generation)
      BY <1>4, StopIs DEF StopChild
    <2>3. Typed'
      BY <1>0, <2>1, <2>2, TypedFacts, TypedNext DEF TypeOK, Managers
    <2>4. ManagerKnows' /\ RestartKnows' /\ Newest' /\ SaysSo' /\ RunningIsServing'
      BY <2>1, <2>2 DEF GatewayInv, ManagerKnows, RestartKnows, Newest, SaysSo,
         RunningIsServing, NoChild
    <2> QED BY <2>3, <2>4 DEF GatewayInv
  <1>5. CASE Stopped
    <2>1. /\ manager = "join" /\ manager' = "stopped" /\ running' = FALSE
          /\ UNCHANGED <<child, generation, queue, relay, stopping, faults, missed, messages,
                         presumed>>
      BY <1>5 DEF Stopped, ManagerUnchanged
    <2>2. running' \in BOOLEAN
      BY <2>1, Zenon
    <2>3. Typed'
      BY <1>0, <2>1, <2>2, TypedFacts, TypedNext DEF TypeOK, Managers
    <2>4. ManagerKnows' /\ RestartKnows' /\ Newest' /\ SaysSo' /\ RunningIsServing'
      BY <2>1 DEF GatewayInv, ManagerKnows, RestartKnows, Newest, SaysSo,
         RunningIsServing, Alive, Line
    <2> QED BY <2>3, <2>4 DEF GatewayInv
  <1> QED BY <1>1, <1>2, <1>3, <1>4, <1>5 DEF StopStep

LEMMA GatewayInvariant == Spec => []GatewayInv
  <1>1. GatewayInv /\ [Next]_vars => GatewayInv'
    <2> SUFFICES ASSUME GatewayInv, [Next]_vars PROVE GatewayInv'
      OBVIOUS
    <2>1. CASE UNCHANGED vars
      <3>1. Typed'
        BY <2>1, ZenonT(40) DEF vars, GatewayInv, Typed, TypeOK
      <3>2. Newest' /\ ManagerKnows' /\ RestartKnows'
        BY <2>1 DEF vars, GatewayInv, Newest, ManagerKnows, RestartKnows, Alive, Line
      <3>3. SaysSo' /\ RunningIsServing'
        BY <2>1 DEF vars, GatewayInv, SaysSo, RunningIsServing, Alive, Line
      <3> QED BY <3>1, <3>2, <3>3 DEF GatewayInv
    <2> QED BY <2>1, ChildKeeps, RelayKeeps, ManagerKeeps DEF Next
  <1> QED BY <1>1, GatewayInit, PTL DEF Spec

-----------------------------------------------------------------------------
\* Every variable of the gateway keeps its type; items and lost slots never
\* exceed the capacity of the queue.
THEOREM GatewayTypes == Spec => []TypeOK
  <1>1. GatewayInv => TypeOK
    BY DEF GatewayInv, Typed
  <1> QED BY <1>1, GatewayInvariant, PTL

\* Wherever the relay thread was, no child lives once the manager has stopped it.
THEOREM StopIsFinal == Spec => []NoChildAfterStop
  <1>1. GatewayInv => NoChildAfterStop
    BY DEF GatewayInv, ManagerKnows, NoChildAfterStop
  <1> QED BY <1>1, GatewayInvariant, PTL

\* A gateway that is called ready serves, or is about to be put right.
THEOREM ReadyMeansServing == Spec => []ReadyIsServing
  <1>1. GatewayInv => ReadyIsServing
    <2> SUFFICES ASSUME GatewayInv, NoticeIn(Line, child.gen)
                 PROVE  \E i \in Told : i.gen = child.gen /\ i.kind # "message"
      BY DEF GatewayInv, RunningIsServing, ReadyIsServing, Ready
    <2>0. queue.pipe \in Seq(Items) /\ queue.feeder \in Seq(Items)
      BY TypedFacts DEF GatewayInv
    <2>1. PICK i \in 1 .. Len(Line) : Notice(Line[i], child.gen)
      BY DEF NoticeIn
    <2>2. Line[i] \in Told
      <3> DEFINE p == queue.pipe
                 f == queue.feeder
      <3>1. p \in Seq(Items) /\ f \in Seq(Items) /\ i \in 1 .. Len(p \o f)
        BY <2>0 DEF Line
      <3>2. Told = {f[n] : n \in DOMAIN f} \cup {p[n] : n \in DOMAIN p}
        BY DEF Told
      <3>3. Line[i] = (p \o f)[i]
        BY DEF Line
      <3> HIDE DEF p, f
      <3>4. /\ Len(p) \in Nat /\ Len(f) \in Nat /\ i \in 1 .. Len(p) + Len(f)
            /\ DOMAIN p = 1 .. Len(p) /\ DOMAIN f = 1 .. Len(f)
            /\ (p \o f)[i] = IF i <= Len(p) THEN p[i] ELSE f[i - Len(p)]
        BY <3>1, ConcatProperties
      <3>5. i > Len(p) => i - Len(p) \in 1 .. Len(f)
        BY <3>4
      <3> QED BY <3>2, <3>3, <3>4, <3>5
    <2> QED BY <2>1, <2>2 DEF Notice
  <1> QED BY <1>1, GatewayInvariant, PTL
=============================================================================
