------------------------- MODULE AgentSlots_proofs -------------------------
(***************************************************************************)
(* Slots are conserved, for any number of jobs, slots and retries.         *)
(***************************************************************************)
EXTENDS AgentSlots, FiniteSetTheorems, TLAPS

\* A slot is lost to an abort, and a job is aborted once.
LostByAbort == lost \subseteq aborted

\* The inductive invariant. QueueIsWaiting makes sure that the job a slot is
\* handed to holds none yet, NoStraySlot that a job which ends has returned
\* what it got, LostByAbort that no job loses two slots.
SlotInv ==
    TypeOK /\ QueueIsWaiting /\ NoStraySlot /\ LostByAbort /\ SlotsConserved

-----------------------------------------------------------------------------
\* Holders and lost are finite, so that they can be counted.
LEMMA Finite ==
    ASSUME TypeOK
    PROVE  /\ IsFiniteSet(Holders) /\ IsFiniteSet(lost)
           /\ Cardinality(Holders) \in Nat /\ Cardinality(lost) \in Nat
  <1>1. Holders \subseteq Jobs /\ lost \subseteq Jobs
    BY DEF Holders, TypeOK
  <1>2. IsFiniteSet(Holders) /\ IsFiniteSet(lost)
    BY <1>1, SlotsAssumption, FS_Subset
  <1> QED BY <1>2, FS_CardinalityType

\* acquire() counts one slot more, or none.
LEMMA AcquireConserves ==
    ASSUME SlotInv, NEW j \in Jobs, slot[j] = "none", acquire(j), UNCHANGED lost
    PROVE  SlotsConserved'
  <1> USE Finite DEF SlotInv
  <1>1. CASE free > 0 /\ waiters = <<>>
    <2>1. Holders' = Holders \cup {j} /\ j \notin Holders
      BY <1>1 DEF acquire, Holders, TypeOK
    <2>2. Cardinality(Holders') = Cardinality(Holders) + 1
      BY <2>1, FS_AddElement
    <2>3. free \in Nat /\ free' = free - 1
      BY <1>1 DEF acquire, TypeOK
    <2> QED BY <2>2, <2>3, SlotsAssumption DEF SlotsConserved
  <1>2. CASE ~(free > 0 /\ waiters = <<>>)
    <2>1. Holders' = Holders /\ free' = free
      BY <1>2 DEF acquire, Holders, TypeOK
    <2> QED BY <2>1 DEF SlotsConserved
  <1> QED BY <1>1, <1>2

\* The first waiter is queued: it is another job, without a slot.
LEMMA HeadIsQueued ==
    ASSUME SlotInv, waiters # <<>>
    PROVE  /\ Head(waiters) \in Jobs /\ Head(waiters) = waiters[1]
           /\ slot[Head(waiters)] = "queued" /\ 1 \in 1 .. Len(waiters)
  BY DEF SlotInv, TypeOK, QueueIsWaiting

\* release() frees the slot or moves it to a job that has none.
LEMMA ReleaseConserves ==
    ASSUME SlotInv, NEW j \in Jobs, j \in Holders, release(j), UNCHANGED lost
    PROVE  SlotsConserved'
  <1> USE Finite DEF SlotInv
  <1>0. slot \in [Jobs -> {"none", "queued", "granted", "held"}]
    BY DEF TypeOK
  <1>1. CASE waiters = <<>>
    <2>1. Holders' = Holders \ {j}
      BY <1>0, <1>1 DEF release, Holders
    <2>2. Cardinality(Holders') = Cardinality(Holders) - 1
      BY <2>1, FS_RemoveElement
    <2>3. free \in Nat /\ free' = free + 1
      BY <1>1 DEF release, TypeOK
    <2> QED BY <2>2, <2>3, SlotsAssumption DEF SlotsConserved
  <1>2. CASE waiters # <<>>
    <2> DEFINE h == Head(waiters)
    <2>1. h \in Jobs /\ slot[h] = "queued"
      BY <1>2, HeadIsQueued
    <2>2. h \notin Holders /\ h # j
      BY <2>1 DEF Holders
    <2>3. slot' = [slot EXCEPT ![j] = "none", ![h] = "granted"] /\ free' = free
      BY <1>2 DEF release
    <2> HIDE DEF h
    <2>4. Holders' = (Holders \ {j}) \cup {h}
      BY <1>0, <2>1, <2>2, <2>3 DEF Holders
    <2>5. /\ IsFiniteSet(Holders \ {j}) /\ h \notin Holders \ {j}
          /\ Cardinality(Holders \ {j}) = Cardinality(Holders) - 1
      BY <2>2, FS_RemoveElement
    <2>6. Cardinality(Holders') = Cardinality(Holders \ {j}) + 1
      BY <2>4, <2>5, FS_AddElement
    <2> QED BY <2>3, <2>5, <2>6 DEF SlotsConserved
  <1> QED BY <1>1, <1>2

\* Cancelling an acquire task returns what it was granted, and no more.
LEMMA FinallyConserves ==
    ASSUME SlotInv, NEW j \in Jobs, Finally(j), UNCHANGED lost
    PROVE  SlotsConserved'
  <1> USE Finite DEF SlotInv
  <1>1. CASE slot[j] = "held"
    BY <1>1 DEF Finally, SlotsConserved, Holders
  <1>2. CASE slot[j] = "granted"
    BY <1>2, ReleaseConserves DEF Finally, withdraw, Holders
  <1>3. CASE slot[j] \notin {"held", "granted"}
    <2>1. Holders' = Holders /\ free' = free
      BY <1>3 DEF Finally, withdraw, Holders, TypeOK
    <2> QED BY <2>1 DEF SlotsConserved
  <1> QED BY <1>1, <1>2, <1>3

-----------------------------------------------------------------------------
\* What the semaphore's operations do to the queue and to the types.
SlotTypes ==
    /\ slot \in [Jobs -> {"none", "queued", "granted", "held"}]
    /\ free \in Nat
    /\ waiters \in Seq(Jobs)

\* Everyone in the queue is queued, in one place.
Queue ==
    \A i \in 1 .. Len(waiters) :
        /\ slot[waiters[i]] = "queued"
        /\ \A k \in 1 .. Len(waiters) : waiters[k] = waiters[i] => k = i

\* What acquire does to the queue.
LEMMA AcquireQueue ==
    ASSUME SlotTypes, Queue, NEW j \in Jobs, slot[j] = "none", acquire(j)
    PROVE  /\ SlotTypes' /\ Queue'
           /\ \A k \in Jobs \ {j} : slot'[k] = slot[k]
           /\ slot'[j] \in {"queued", "granted"}
           /\ \A i \in 1 .. Len(waiters') :
                 waiters'[i] = j \/ \E k \in 1 .. Len(waiters) : waiters'[i] = waiters[k]
  <1>1. CASE free > 0 /\ waiters = <<>>
    BY <1>1 DEF acquire, SlotTypes, Queue
  <1>2. CASE ~(free > 0 /\ waiters = <<>>)
    <2>1. /\ waiters' = Append(waiters, j) /\ free' = free
          /\ slot' = [slot EXCEPT ![j] = "queued"]
      BY <1>2 DEF acquire
    <2>2. /\ Len(waiters') = Len(waiters) + 1 /\ Len(waiters) \in Nat
          /\ waiters'[Len(waiters) + 1] = j
          /\ \A i \in 1 .. Len(waiters) : waiters'[i] = waiters[i] /\ waiters[i] \in Jobs
      BY <2>1 DEF SlotTypes
    <2>3. SlotTypes'
      BY <2>1 DEF SlotTypes
    <2>4. \A i \in 1 .. Len(waiters) : waiters[i] # j
      BY DEF Queue
    <2>5. Queue'
      BY <2>1, <2>2, <2>4 DEF Queue, SlotTypes
    <2> QED BY <2>1, <2>2, <2>3, <2>5 DEF SlotTypes
  <1> QED BY <1>1, <1>2

\* Every other job keeps its slot, or is granted one from the queue.
Handover(j) ==
    \A k \in Jobs \ {j} : slot'[k] # slot[k] =>
        slot'[k] = "granted" /\ \E i \in 1 .. Len(waiters) : waiters[i] = k

\* Nobody joins the queue.
QueueShrinks ==
    \A i \in 1 .. Len(waiters') : \E k \in 1 .. Len(waiters) : waiters'[i] = waiters[k]

\* What release does to the queue.
LEMMA ReleaseQueue ==
    ASSUME SlotTypes, Queue, NEW j \in Jobs, slot[j] \in {"granted", "held"}, release(j)
    PROVE  /\ SlotTypes' /\ Queue'
           /\ slot'[j] = "none"
           /\ Handover(j) /\ QueueShrinks
  <1>1. CASE waiters = <<>>
    <2>1. free' = free + 1 /\ waiters' = waiters /\ slot' = [slot EXCEPT ![j] = "none"]
      BY <1>1 DEF release
    <2>2. Len(waiters) = 0
      BY <1>1
    <2>3. SlotTypes'
      BY <2>1 DEF SlotTypes
    <2>4. Queue' /\ QueueShrinks
      BY <2>1, <2>2 DEF Queue, QueueShrinks
    <2>5. slot'[j] = "none" /\ Handover(j)
      BY <2>1 DEF SlotTypes, Handover
    <2> QED BY <2>3, <2>4, <2>5
  <1>2. CASE waiters # <<>>
    <2>1. /\ waiters' = Tail(waiters) /\ free' = free
          /\ slot' = [slot EXCEPT ![j] = "none", ![waiters[1]] = "granted"]
      BY <1>2 DEF release, SlotTypes
    <2>2. /\ Len(waiters') = Len(waiters) - 1 /\ Len(waiters) \in Nat \ {0}
          /\ \A i \in 1 .. Len(waiters) - 1 : waiters'[i] = waiters[i + 1]
          /\ \A i \in 1 .. Len(waiters) : waiters[i] \in Jobs
          /\ waiters' \in Seq(Jobs)
      BY <1>2, <2>1 DEF SlotTypes
    <2>3. waiters[1] # j /\ waiters[1] \in Jobs
      BY <2>2 DEF Queue
    <2>4. SlotTypes'
      BY <2>1, <2>2, <2>3 DEF SlotTypes
    <2>5. \A i \in 1 .. Len(waiters) - 1 : waiters[i + 1] # j /\ waiters[i + 1] # waiters[1]
      BY <2>2 DEF Queue
    <2>6. Queue'
      BY <2>1, <2>2, <2>3, <2>5 DEF Queue, SlotTypes
    <2>7. QueueShrinks
      BY <2>2 DEF QueueShrinks
    <2>8. slot'[j] = "none"
      BY <2>1, <2>3 DEF SlotTypes
    <2>9. 1 \in 1 .. Len(waiters)
      BY <2>2
    <2>10. Handover(j)
      BY <2>1, <2>3, <2>9 DEF SlotTypes, Handover
    <2> QED BY <2>4, <2>6, <2>7, <2>8, <2>10
  <1> QED BY <1>1, <1>2

\* What the finally block does to the queue.
LEMMA FinallyQueue ==
    ASSUME SlotTypes, Queue, NEW j \in Jobs, Finally(j)
    PROVE  /\ SlotTypes' /\ Queue'
           /\ slot'[j] \in {"none", "held"}
           /\ Handover(j) /\ QueueShrinks
           /\ \A i \in 1 .. Len(waiters') : waiters'[i] # j
  <1>1. CASE slot[j] = "held"
    <2>1. UNCHANGED <<slot, free, waiters>>
      BY <1>1 DEF Finally
    <2>2. SlotTypes' /\ Queue' /\ QueueShrinks /\ Handover(j)
      BY <2>1 DEF SlotTypes, Queue, QueueShrinks, Handover
    <2>3. \A i \in 1 .. Len(waiters') : waiters'[i] # j
      BY <1>1, <2>1 DEF Queue
    <2> QED BY <1>1, <2>1, <2>2, <2>3
  <1>2. CASE slot[j] = "granted"
    <2>1. release(j)
      BY <1>2 DEF Finally, withdraw
    <2>2. \A i \in 1 .. Len(waiters) : waiters[i] # j
      BY <1>2 DEF Queue
    <2>3. SlotTypes' /\ Queue' /\ slot'[j] = "none" /\ Handover(j) /\ QueueShrinks
      BY <1>2, <2>1, ReleaseQueue
    <2> QED BY <2>2, <2>3 DEF QueueShrinks
  <1>3. CASE slot[j] \notin {"held", "granted"}
    <2>1. PICK n \in 1 .. Len(waiters) :
             /\ waiters[n] = j /\ waiters' = Without(n) /\ free' = free
             /\ slot' = [slot EXCEPT ![j] = "none"]
      BY <1>3 DEF Finally, withdraw
    <2>2. \A i \in 1 .. Len(waiters) : waiters[i] \in Jobs
      BY DEF SlotTypes
    <2>3. Len(waiters) \in Nat
      BY DEF SlotTypes
    <2>4. /\ \A i \in 1 .. Len(waiters) - 1 :
                waiters'[i] = waiters[IF i < n THEN i ELSE i + 1] /\ waiters'[i] \in Jobs
          /\ waiters' \in Seq(Jobs) /\ Len(waiters') = Len(waiters) - 1
      <3>1. /\ \A i \in 1 .. Len(waiters) - 1 :
                  waiters'[i] = waiters[IF i < n THEN i ELSE i + 1]
            /\ waiters' = [i \in 1 .. Len(waiters) - 1 |-> waiters'[i]]
        BY <2>1 DEF Without
      <3>2. \A i \in 1 .. Len(waiters) - 1 : waiters'[i] \in Jobs
        BY <2>2, <2>3, <3>1
      <3>3. waiters' \in [1 .. Len(waiters) - 1 -> Jobs] /\ Len(waiters) - 1 \in Nat
        BY <2>1, <2>3, <3>1, <3>2
      <3> QED BY <3>1, <3>2, <3>3
    <2>5. SlotTypes'
      BY <2>1, <2>4 DEF SlotTypes
    <2>6. \A i \in 1 .. Len(waiters) - 1 : waiters'[i] # j
      BY <2>1, <2>3, <2>4 DEF Queue
    <2>7. QueueShrinks
      BY <2>3, <2>4 DEF QueueShrinks
    <2>8. Queue'
      <3>1. \A i \in 1 .. Len(waiters') : slot'[waiters'[i]] = "queued"
        BY <2>1, <2>4, <2>6, <2>7 DEF Queue, SlotTypes, QueueShrinks
      <3>2. \A i, k \in 1 .. Len(waiters') : waiters'[k] = waiters'[i] => k = i
        BY <2>3, <2>4 DEF Queue
      <3> QED BY <3>1, <3>2 DEF Queue
    <2>9. slot'[j] = "none" /\ Handover(j)
      BY <2>1 DEF SlotTypes, Handover
    <2>10. \A i \in 1 .. Len(waiters') : waiters'[i] # j
      BY <2>4, <2>6
    <2> QED BY <2>5, <2>7, <2>8, <2>9, <2>10
  <1> QED BY <1>1, <1>2, <1>3

-----------------------------------------------------------------------------
\* The parts of the invariant that the semaphore and the places decide.
Core == SlotTypes /\ QueueIsWaiting /\ NoStraySlot /\ SlotsConserved

\* The conjuncts of the inductive invariant, for citing.
LEMMA InvParts ==
    ASSUME SlotInv
    PROVE  /\ SlotTypes /\ Queue
           /\ \A i \in 1 .. Len(waiters) : pc[waiters[i]] = "waiting" /\ waiters[i] \in Jobs
           /\ pc \in [Jobs -> Pcs]
  BY DEF SlotInv, TypeOK, SlotTypes, QueueIsWaiting, Queue

\* Entering the finally block.
LEMMA EntersFinally ==
    ASSUME SlotInv, NEW j \in Jobs, NEW p \in {"ending", "retrying"},
           pc' = [pc EXCEPT ![j] = p], Finally(j), UNCHANGED lost
    PROVE  Core'
  <1> USE InvParts
  <1>1. /\ SlotTypes' /\ Queue' /\ slot'[j] \in {"none", "held"}
        /\ Handover(j) /\ QueueShrinks /\ \A i \in 1 .. Len(waiters') : waiters'[i] # j
    BY FinallyQueue
  <1>2. \A i \in 1 .. Len(waiters') : pc'[waiters'[i]] = "waiting"
    BY <1>1 DEF QueueShrinks
  <1>3. QueueIsWaiting'
    BY <1>1, <1>2 DEF Queue, QueueIsWaiting
  <1>4. NoStraySlot'
    <2> SUFFICES ASSUME NEW k \in Jobs
                 PROVE  /\ slot'[k] # "none" =>
                              pc'[k] \in {"waiting", "running", "ending", "retrying"}
                        /\ pc'[k] = "running" => slot'[k] = "held"
                        /\ pc'[k] \in {"ending", "retrying"} => slot'[k] \in {"none", "held"}
      BY DEF NoStraySlot
    <2>1. CASE k = j
      BY <1>1, <2>1
    <2>2. CASE k # j /\ slot'[k] = slot[k]
      BY <2>2 DEF SlotInv, NoStraySlot
    <2>3. CASE k # j /\ slot'[k] # slot[k]
      <3>1. slot'[k] = "granted" /\ pc[k] = "waiting"
        BY <1>1, <2>3 DEF Handover
      <3> QED BY <2>3, <3>1
    <2> QED BY <2>1, <2>2, <2>3
  <1>5. SlotsConserved'
    BY FinallyConserves
  <1> QED BY <1>1, <1>3, <1>4, <1>5 DEF Core

\* A step of a job that neither waits nor has a slot, without the semaphore.
LEMMA StepsAside ==
    ASSUME SlotInv, NEW j \in Jobs, NEW p \in Pcs \ {"running"},
           pc' = [pc EXCEPT ![j] = p], slot[j] = "none", pc[j] # "waiting",
           UNCHANGED <<slot, free, waiters, lost>>
    PROVE  Core'
  <1> USE InvParts
  <1>1. SlotTypes' /\ SlotsConserved'
    BY DEF SlotInv, SlotTypes, SlotsConserved, Holders
  <1>2. QueueIsWaiting'
    BY DEF SlotInv, QueueIsWaiting
  <1>3. NoStraySlot'
    BY DEF SlotInv, NoStraySlot
  <1> QED BY <1>1, <1>2, <1>3 DEF Core

\* Giving the slot back behind the await.
LEMMA FinishedCore ==
    ASSUME SlotInv, NEW j \in Jobs, Finished(j)
    PROVE  Core'
  <1> USE InvParts
  <1>1. PICK p \in {"done", "backoff"} : pc' = [pc EXCEPT ![j] = p]
    BY DEF Finished
  <1>2. pc[j] \in {"ending", "retrying"} /\ UNCHANGED lost
    BY DEF Finished
  <1>3. CASE slot[j] = "held"
    <2>1. release(j)
      BY <1>3 DEF Finished
    <2>2. SlotTypes' /\ Queue' /\ slot'[j] = "none" /\ Handover(j) /\ QueueShrinks
      BY <1>3, <2>1, ReleaseQueue
    <2>3. \A i \in 1 .. Len(waiters') : pc'[waiters'[i]] = "waiting"
      BY <1>1, <1>2, <2>2 DEF QueueShrinks
    <2>4. QueueIsWaiting'
      BY <2>2, <2>3 DEF Queue, QueueIsWaiting
    <2>5. NoStraySlot'
      <3> SUFFICES ASSUME NEW k \in Jobs
                   PROVE  /\ slot'[k] # "none" =>
                                pc'[k] \in {"waiting", "running", "ending", "retrying"}
                          /\ pc'[k] = "running" => slot'[k] = "held"
                          /\ pc'[k] \in {"ending", "retrying"} => slot'[k] \in {"none", "held"}
        BY DEF NoStraySlot
      <3>1. CASE k = j
        BY <1>1, <2>2, <3>1
      <3>2. CASE k # j /\ slot'[k] = slot[k]
        BY <1>1, <3>2 DEF SlotInv, NoStraySlot
      <3>3. CASE k # j /\ slot'[k] # slot[k]
        <4>1. slot'[k] = "granted" /\ pc[k] = "waiting"
          BY <2>2, <3>3 DEF Handover
        <4> QED BY <1>1, <3>3, <4>1
      <3> QED BY <3>1, <3>2, <3>3
    <2>6. SlotsConserved'
      BY <1>2, <1>3, <2>1, ReleaseConserves DEF Holders
    <2> QED BY <2>2, <2>4, <2>5, <2>6 DEF Core
  <1>4. CASE slot[j] # "held"
    <2>1. slot[j] = "none" /\ UNCHANGED <<slot, free, waiters>>
      BY <1>2, <1>4 DEF Finished, SlotInv, NoStraySlot
    <2>2. p \in Pcs \ {"running"}
      BY <1>1 DEF Pcs
    <2> QED BY <1>1, <1>2, <2>1, <2>2, StepsAside
  <1> QED BY <1>3, <1>4

\* Queueing, or getting a slot that is free.
LEMMA SubmitCore ==
    ASSUME SlotInv, NEW j \in Jobs, Submit(j)
    PROVE  Core'
  <1> USE InvParts
  <1>1. pc[j] \in {"idle", "backoff"} /\ UNCHANGED lost
    BY DEF Submit
  <1>2. slot[j] = "none"
    BY <1>1 DEF SlotInv, NoStraySlot
  <1>3. CASE j \in cancelled
    <2>1. /\ pc' = [pc EXCEPT ![j] = "done"] /\ UNCHANGED <<slot, free, waiters>>
          /\ "done" \in Pcs \ {"running"}
      BY <1>3 DEF Submit, Pcs
    <2> QED BY <1>1, <1>2, <2>1, StepsAside
  <1>4. CASE j \notin cancelled
    <2>1. pc' = [pc EXCEPT ![j] = "waiting"] /\ acquire(j)
      BY <1>4 DEF Submit
    <2>2. /\ SlotTypes' /\ Queue'
          /\ \A k \in Jobs \ {j} : slot'[k] = slot[k]
          /\ \A i \in 1 .. Len(waiters') :
                waiters'[i] = j \/ \E k \in 1 .. Len(waiters) : waiters'[i] = waiters[k]
      BY <1>2, <2>1, AcquireQueue
    <2>3. \A i \in 1 .. Len(waiters') : pc'[waiters'[i]] = "waiting"
      BY <2>1, <2>2
    <2>4. QueueIsWaiting'
      BY <2>2, <2>3 DEF Queue, QueueIsWaiting
    <2>5. NoStraySlot'
      BY <2>1, <2>2 DEF SlotInv, NoStraySlot
    <2>6. SlotsConserved'
      BY <1>1, <1>2, <2>1, AcquireConserves
    <2> QED BY <2>2, <2>4, <2>5, <2>6 DEF Core
  <1> QED BY <1>3, <1>4

\* acquire() returns, and the agent starts.
LEMMA GrantedCore ==
    ASSUME SlotInv, NEW j \in Jobs, Acquired(j) \/ RunJob(j)
    PROVE  Core'
  <1> USE InvParts
  <1>1. CASE Acquired(j)
    <2>1. slot[j] = "granted" /\ slot' = [slot EXCEPT ![j] = "held"]
      BY <1>1 DEF Acquired
    <2>2. UNCHANGED <<pc, free, waiters, lost>>
      BY <1>1 DEF Acquired
    <2>3. SlotTypes' /\ Holders' = Holders
      BY <2>1, <2>2 DEF SlotTypes, Holders
    <2>4. QueueIsWaiting'
      BY <2>1, <2>2 DEF SlotInv, SlotTypes, QueueIsWaiting
    <2>5. NoStraySlot'
      BY <2>1, <2>2 DEF SlotInv, SlotTypes, NoStraySlot
    <2>6. SlotsConserved'
      BY <2>2, <2>3 DEF SlotInv, SlotsConserved
    <2> QED BY <2>3, <2>4, <2>5, <2>6 DEF Core
  <1>2. CASE RunJob(j)
    <2>1. slot[j] = "held" /\ pc' = [pc EXCEPT ![j] = "running"]
      BY <1>2 DEF RunJob
    <2>2. UNCHANGED <<slot, free, waiters, lost>>
      BY <1>2 DEF RunJob
    <2>3. SlotTypes' /\ SlotsConserved'
      BY <2>2 DEF SlotInv, SlotTypes, SlotsConserved, Holders
    <2>4. QueueIsWaiting'
      BY <2>1, <2>2 DEF SlotInv, QueueIsWaiting
    <2>5. NoStraySlot'
      BY <2>1, <2>2 DEF SlotInv, NoStraySlot
    <2> QED BY <2>3, <2>4, <2>5 DEF Core
  <1> QED BY <1>1, <1>2

\* The abort in the finally block: a held slot is counted as lost.
LEMMA AbortFinallyCore ==
    ASSUME SlotInv, NEW j \in Jobs, AbortFinally(j)
    PROVE  Core'
  <1> USE InvParts
  <1>1. /\ pc[j] \in {"ending", "retrying"} /\ j \notin lost
        /\ pc' = [pc EXCEPT ![j] = "done"] /\ slot' = [slot EXCEPT ![j] = "none"]
        /\ UNCHANGED <<free, waiters>>
    BY DEF AbortFinally, SlotInv, LostByAbort
  <1>2. SlotTypes'
    BY <1>1 DEF SlotTypes
  <1>3. QueueIsWaiting'
    BY <1>1 DEF SlotInv, QueueIsWaiting, SlotTypes
  <1>4. NoStraySlot'
    BY <1>1 DEF SlotInv, NoStraySlot, SlotTypes
  <1>5. SlotsConserved'
    <2> USE Finite DEF SlotInv
    <2>1. CASE slot[j] = "held"
      <3>1. Holders' = Holders \ {j} /\ j \in Holders
        BY <1>1, <2>1 DEF Holders, SlotTypes
      <3>2. Cardinality(Holders') = Cardinality(Holders) - 1
        BY <3>1, FS_RemoveElement
      <3>3. lost' = lost \cup {j}
        BY <2>1 DEF AbortFinally
      <3>4. Cardinality(lost') = Cardinality(lost) + 1
        BY <1>1, <3>3, FS_AddElement
      <3> QED BY <1>1, <3>2, <3>4, SlotsAssumption DEF SlotsConserved, SlotTypes
    <2>2. CASE slot[j] # "held"
      <3>1. lost' = lost /\ slot[j] = "none"
        BY <1>1, <2>2 DEF AbortFinally, NoStraySlot
      <3>2. Holders' = Holders
        BY <1>1, <3>1 DEF Holders, SlotTypes
      <3> QED BY <1>1, <3>1, <3>2 DEF SlotsConserved
    <2> QED BY <2>1, <2>2
  <1> QED BY <1>2, <1>3, <1>4, <1>5 DEF Core

-----------------------------------------------------------------------------
\* Every action keeps the part of the invariant about slots and places.
LEMMA NextCore ==
    ASSUME SlotInv, [Next]_vars
    PROVE  Core'
  <1>1. CASE UNCHANGED vars
    BY <1>1, InvParts
      DEF vars, SlotInv, Core, SlotTypes, QueueIsWaiting, NoStraySlot, SlotsConserved, Holders
  <1>2. ASSUME NEW j \in Jobs, Cancel(j) \/ Deadline(j)
        PROVE  Core'
    <2>1. UNCHANGED <<pc, slot, free, waiters, lost>>
      BY <1>2 DEF Cancel, Deadline
    <2> QED BY <2>1, InvParts
          DEF SlotInv, Core, SlotTypes, QueueIsWaiting, NoStraySlot, SlotsConserved, Holders
  <1>3. ASSUME NEW j \in Jobs, GiveUp(j) \/ JobEnds(j)
        PROVE  Core'
    <2>1. pc' = [pc EXCEPT ![j] = "ending"] /\ Finally(j) /\ UNCHANGED lost
      BY <1>3 DEF GiveUp, JobEnds
    <2> QED BY <2>1, EntersFinally
  <1>4. ASSUME NEW j \in Jobs, StartFails(j)
        PROVE  Core'
    <2>1. PICK p \in {"ending", "retrying"} : pc' = [pc EXCEPT ![j] = p]
      BY <1>4 DEF StartFails
    <2>2. Finally(j) /\ UNCHANGED lost
      BY <1>4 DEF StartFails
    <2> QED BY <2>1, <2>2, EntersFinally
  <1>5. ASSUME NEW j \in Jobs, Abort(j)
        PROVE  Core'
    <2>1. CASE pc[j] = "backoff"
      <3>1. /\ pc' = [pc EXCEPT ![j] = "done"] /\ UNCHANGED <<slot, free, waiters, lost>>
            /\ "done" \in Pcs \ {"running"}
        BY <1>5, <2>1 DEF Abort, Pcs
      <3>2. slot[j] = "none"
        BY <2>1 DEF SlotInv, NoStraySlot
      <3> QED BY <2>1, <3>1, <3>2, StepsAside
    <2>2. CASE pc[j] # "backoff"
      <3>1. pc' = [pc EXCEPT ![j] = "ending"] /\ Finally(j) /\ UNCHANGED lost
        BY <1>5, <2>2 DEF Abort
      <3> QED BY <3>1, EntersFinally
    <2> QED BY <2>1, <2>2
  <1> QED BY <1>1, <1>2, <1>3, <1>4, <1>5, SubmitCore, FinishedCore, GrantedCore,
             AbortFinallyCore DEF Next, JobStep

\* Every action keeps the types of what the semaphore does not touch.
LEMMA NextTypes ==
    ASSUME SlotInv, [Next]_vars
    PROVE  /\ pc' \in [Jobs -> Pcs]
           /\ cancelled' \in SUBSET Jobs /\ late' \in SUBSET Jobs
           /\ retries' \in [Jobs -> 0 .. MaxRetries]
           /\ aborted' \in SUBSET Jobs /\ lost' \in SUBSET Jobs
           /\ LostByAbort'
  <1>1. /\ pc \in [Jobs -> Pcs]
        /\ cancelled \in SUBSET Jobs /\ late \in SUBSET Jobs
        /\ retries \in [Jobs -> 0 .. MaxRetries]
        /\ aborted \in SUBSET Jobs /\ lost \in SUBSET Jobs
        /\ lost \subseteq aborted
    BY DEF SlotInv, TypeOK, LostByAbort
  <1>2. CASE UNCHANGED vars
    BY <1>1, <1>2 DEF vars, LostByAbort
  <1>3. ASSUME NEW j \in Jobs, Submit(j) \/ RunJob(j) \/ GiveUp(j) \/ JobEnds(j) \/ Finished(j)
        PROVE  /\ pc' \in [Jobs -> Pcs] /\ late' \in SUBSET Jobs
               /\ UNCHANGED <<cancelled, retries, aborted, lost>>
    BY <1>1, <1>3 DEF Submit, RunJob, GiveUp, JobEnds, Finished, Pcs
  <1>4. ASSUME NEW j \in Jobs, StartFails(j)
        PROVE  /\ pc' \in [Jobs -> Pcs] /\ retries' \in [Jobs -> 0 .. MaxRetries]
               /\ UNCHANGED <<cancelled, late, aborted, lost>>
    <2>1. pc' \in [Jobs -> Pcs] /\ UNCHANGED <<cancelled, late, aborted, lost>>
      BY <1>1, <1>4 DEF StartFails, Pcs
    <2>2. CASE retries[j] = MaxRetries
      BY <1>1, <1>4, <2>1, <2>2 DEF StartFails
    <2>3. CASE retries[j] # MaxRetries
      <3>1. retries[j] + 1 \in 0 .. MaxRetries
        BY <1>1, <2>3, SlotsAssumption
      <3>2. retries' = [retries EXCEPT ![j] = retries[j] + 1]
        BY <1>1, <1>4, <2>3 DEF StartFails
      <3> QED BY <1>1, <2>1, <3>1, <3>2
    <2> QED BY <2>2, <2>3
  <1>5. ASSUME NEW j \in Jobs, Abort(j) \/ AbortFinally(j)
        PROVE  /\ pc' \in [Jobs -> Pcs] /\ aborted' = aborted \cup {j}
               /\ lost' \subseteq lost \cup {j}
               /\ UNCHANGED <<cancelled, late, retries>>
    BY <1>1, <1>5 DEF Abort, AbortFinally, Pcs
  <1>6. ASSUME NEW j \in Jobs, Acquired(j) \/ Cancel(j) \/ Deadline(j)
        PROVE  /\ cancelled' \in SUBSET Jobs /\ late' \in SUBSET Jobs
               /\ UNCHANGED <<pc, retries, aborted, lost>>
    BY <1>1, <1>6 DEF Acquired, Cancel, Deadline
  <1>7. ASSUME NEW j \in Jobs, Abort(j) \/ AbortFinally(j)
        PROVE  /\ aborted' \in SUBSET Jobs /\ lost' \in SUBSET Jobs /\ LostByAbort'
    BY <1>1, <1>5, <1>7 DEF LostByAbort
  <1>8. CASE Next
    <2>1. PICK j \in Jobs : JobStep(j) \/ StartFails(j) \/ Abort(j)
                              \/ AbortFinally(j) \/ Cancel(j)
      BY <1>8 DEF Next
    <2>2. CASE Abort(j) \/ AbortFinally(j)
      BY <1>1, <1>5, <1>7, <2>2
    <2>3. CASE StartFails(j)
      BY <1>1, <1>4, <2>3 DEF LostByAbort
    <2>4. CASE JobStep(j) \/ Cancel(j)
      BY <1>1, <1>3, <1>6, <2>4 DEF LostByAbort, JobStep
    <2> QED BY <2>1, <2>2, <2>3, <2>4
  <1> QED BY <1>2, <1>8

\* The invariant holds of every behaviour.
LEMMA SlotInvariant == Spec => []SlotInv
  <1>1. Init => SlotInv
    <2> SUFFICES ASSUME Init PROVE SlotInv
      OBVIOUS
    <2>1. TypeOK
      BY SlotsAssumption DEF Init, TypeOK, Pcs
    <2>2. Holders = {}
      BY DEF Init, Holders
    <2>3. SlotsConserved
      BY <2>2, FS_EmptySet, SlotsAssumption DEF Init, SlotsConserved
    <2>4. NoStraySlot /\ QueueIsWaiting /\ LostByAbort
      BY DEF Init, NoStraySlot, QueueIsWaiting, LostByAbort
    <2> QED BY <2>1, <2>3, <2>4 DEF SlotInv
  <1>2. SlotInv /\ [Next]_vars => SlotInv'
    BY NextCore, NextTypes DEF SlotInv, Core, TypeOK, SlotTypes
  <1> QED BY <1>1, <1>2, PTL DEF Spec

\* No slot of LimitedRunner is made up, and none goes missing except by an
\* abort that hits the finally block, for any number of jobs and slots.
THEOREM SlotsAreConserved == Spec => []SlotsConserved
  <1>1. SlotInv => SlotsConserved
    BY DEF SlotInv
  <1> QED BY <1>1, SlotInvariant, PTL

\* A release of the semaphore always reaches a job that still waits for it.
THEOREM NobodyQueuesInVain == Spec => []QueueIsWaiting
  <1>1. SlotInv => QueueIsWaiting
    BY DEF SlotInv
  <1> QED BY <1>1, SlotInvariant, PTL

\* The agents that run.
Running == {j \in Jobs : pc[j] = "running"}

\* What LimitedRunner is for: at most Limit agents run at a time, also after
\* slots were lost.
THEOREM AtMostLimitAgents == Spec => [](Cardinality(Running) <= Limit)
  <1>1. SlotInv => Cardinality(Running) <= Limit
    <2> SUFFICES ASSUME SlotInv PROVE Cardinality(Running) <= Limit
      OBVIOUS
    <2>1. Running \subseteq Holders
      BY DEF SlotInv, NoStraySlot, Running, Holders
    <2>2. /\ IsFiniteSet(Holders)
          /\ Cardinality(Holders) \in Nat /\ Cardinality(lost) \in Nat /\ free \in Nat
      BY Finite DEF SlotInv, TypeOK
    <2>3. Cardinality(Running) <= Cardinality(Holders) /\ Cardinality(Running) \in Nat
      BY <2>1, <2>2, FS_Subset, FS_CardinalityType
    <2>4. Cardinality(Holders) <= Limit
      BY <2>2, SlotsAssumption DEF SlotInv, SlotsConserved
    <2> QED BY <2>2, <2>3, <2>4, SlotsAssumption
  <1> QED BY <1>1, SlotInvariant, PTL
=============================================================================
