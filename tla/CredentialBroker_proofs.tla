---------------------- MODULE CredentialBroker_proofs ----------------------
(***************************************************************************)
(* The counts of the broker are exact and stay within their limits, for    *)
(* any number of tokens, stages and requests.                              *)
(***************************************************************************)
EXTENDS CredentialBroker, FiniteSetTheorems, TLAPS

\* A token that has not been issued is nobody's: no permit refers to it.
Untouched ==
    /\ \A t \in Tokens : lease[t].state = "unissued" => lease[t].in_flight = 0
    /\ \A r \in Requests : req[r].pc \notin {"idle", "done"} =>
           lease[req[r].tok].state # "unissued"

\* The inductive invariant.
BrokerInv == TypeOK /\ UsageFollowsLeases /\ InFlightExact /\ Untouched

Lease == [state : {"unissued", "live", "gone"}, key : Keys, expired : BOOLEAN,
          in_flight : 0 .. MaxConcurrency, error : BOOLEAN]

Usage == [there : BOOLEAN, count : 0 .. MaxRequests, bytes : 0 .. MaxBytes]

Request == [pc : {"idle", "reading", "sending", "error", "reporting", "body",
                  "closing", "done"}, tok : Tokens]

\* The type invariant, variable by variable.
LEMMA Types == TypeOK <=> /\ lease \in [Tokens -> Lease]
                          /\ usage \in [Keys -> Usage]
                          /\ req \in [Requests -> Request]
  BY DEF TypeOK, Lease, Usage, Request

\* The permits of a token can be counted.
LEMMA FinitePermits ==
    ASSUME NEW t \in Tokens
    PROVE  IsFiniteSet(Permits(t)) /\ Cardinality(Permits(t)) \in Nat
  <1>1. Permits(t) \subseteq Requests
    BY DEF Permits
  <1>2. IsFiniteSet(Permits(t))
    BY <1>1, BrokerAssumption, FS_Subset
  <1> QED BY <1>2, FS_CardinalityType

-----------------------------------------------------------------------------
\* Removing a lease.
LEMMA RemoveLease ==
    ASSUME BrokerInv, NEW t \in Tokens, Live(t), _remove_lease(t)
    PROVE  /\ lease' \in [Tokens -> Lease] /\ usage' \in [Keys -> Usage]
           /\ UsageFollowsLeases'
           /\ \A o \in Tokens \ {t} : lease'[o] = lease[o]
           /\ lease'[t].state = "gone" /\ lease'[t].in_flight = lease[t].in_flight
  <1>1. /\ lease \in [Tokens -> Lease] /\ usage \in [Keys -> Usage] /\ UsageFollowsLeases
    BY Types DEF BrokerInv
  <1>2. /\ lease' = [lease EXCEPT ![t].state = "gone"]
        /\ usage' = IF \E o \in Tokens \ {t} : Live(o) /\ lease[o].key = lease[t].key
                    THEN usage ELSE [usage EXCEPT ![lease[t].key] = NoUsage]
    BY DEF _remove_lease
  <1>3. lease[t] \in Lease /\ lease[t].key \in Keys
    BY <1>1 DEF Lease
  <1>4. /\ lease' \in [Tokens -> Lease]
        /\ \A o \in Tokens \ {t} : lease'[o] = lease[o]
        /\ lease'[t].state = "gone" /\ lease'[t].in_flight = lease[t].in_flight
    BY <1>1, <1>2, <1>3 DEF Lease
  <1>5. NoUsage \in Usage
    BY BrokerAssumption DEF NoUsage, Usage
  <1>6. usage' \in [Keys -> Usage]
    BY <1>1, <1>2, <1>5
  <1>7. UsageFollowsLeases'
    <2> SUFFICES ASSUME NEW k \in Keys
                 PROVE  usage'[k].there <=> \E o \in Tokens : Live(o)' /\ lease'[o].key = k
      BY DEF UsageFollowsLeases
    <2>1. \A o \in Tokens \ {t} : (Live(o)' <=> Live(o)) /\ lease'[o].key = lease[o].key
      BY <1>4 DEF Live
    <2>2. ~Live(t)'
      BY <1>4 DEF Live
    <2>3. usage[k].there <=> \E o \in Tokens : Live(o) /\ lease[o].key = k
      BY <1>1 DEF UsageFollowsLeases
    <2>4. CASE k # lease[t].key
      <3>1. usage'[k] = usage[k]
        BY <1>1, <1>2, <2>4
      <3> QED BY <2>1, <2>2, <2>3, <2>4, <3>1
    <2>5. CASE k = lease[t].key /\ \E o \in Tokens \ {t} : Live(o) /\ lease[o].key = k
      <3>1. usage'[k] = usage[k]
        BY <1>2, <2>5
      <3> QED BY <2>1, <2>2, <2>3, <2>5, <3>1
    <2>6. CASE k = lease[t].key /\ ~\E o \in Tokens \ {t} : Live(o) /\ lease[o].key = k
      <3>1. usage'[k] = NoUsage
        BY <1>1, <1>2, <1>3, <2>6
      <3> QED BY <2>1, <2>2, <2>6, <3>1 DEF NoUsage
    <2> QED BY <2>4, <2>5, <2>6
  <1> QED BY <1>4, <1>6, <1>7

\* Other changes of leases: their key and whether they are live stay.
LEMMA SameLeases ==
    ASSUME BrokerInv, \A t \in Tokens : lease'[t].state = lease[t].state
                                          /\ lease'[t].key = lease[t].key,
           \A k \in Keys : usage'[k].there = usage[k].there
    PROVE  UsageFollowsLeases'
  BY DEF BrokerInv, UsageFollowsLeases, Live

\* A step that gives a permit back.
LEMMA ReturnedPermit ==
    ASSUME BrokerInv, NEW r \in Requests, NEW p \in {"reporting", "done"},
           req[r].pc \in {"sending", "error", "body", "closing"},
           lease' = Returned(req[r].tok), req' = Goto(r, p), UNCHANGED usage
    PROVE  BrokerInv'
  <1>1. /\ lease \in [Tokens -> Lease] /\ usage \in [Keys -> Usage]
        /\ req \in [Requests -> Request]
    BY Types DEF BrokerInv
  <1>2. PICK t \in Tokens : t = req[r].tok /\ r \in Permits(t)
    BY <1>1 DEF Request, Permits
  <1>3. /\ req' \in [Requests -> Request]
        /\ \A o \in Requests \ {r} : req'[o] = req[o]
        /\ req'[r].pc = p /\ req'[r].tok = t
    BY <1>1, <1>2 DEF Goto, Request
  <1>4. Permits(t)' = Permits(t) \ {r}
    BY <1>2, <1>3 DEF Permits
  <1>5. \A o \in Tokens \ {t} : Permits(o)' = Permits(o)
    BY <1>2, <1>3 DEF Permits
  <1>6. /\ IsFiniteSet(Permits(t)) /\ Cardinality(Permits(t)) \in Nat
        /\ Cardinality(Permits(t) \ {r}) = Cardinality(Permits(t)) - 1
    BY <1>2, FinitePermits, FS_RemoveElement
  <1>7. Cardinality(Permits(t)) > 0
    BY <1>2, <1>6, FS_EmptySet
  <1>8. lease[t] \in Lease /\ lease[t].in_flight \in 0 .. MaxConcurrency
    BY <1>1, <1>2 DEF Lease
  <1>9. CASE Live(t)
    <2>1. lease[t].in_flight = Cardinality(Permits(t))
      BY <1>2, <1>9 DEF BrokerInv, InFlightExact
    <2>2. lease' = [lease EXCEPT ![t].in_flight = lease[t].in_flight - 1]
      BY <1>1, <1>2, <1>7, <1>9, <2>1 DEF Returned
    <2>3. lease[t].in_flight - 1 \in 0 .. MaxConcurrency
      BY <1>7, <1>8, <2>1, BrokerAssumption
    <2>4. /\ lease' \in [Tokens -> Lease]
          /\ \A o \in Tokens : lease'[o].state = lease[o].state /\ lease'[o].key = lease[o].key
          /\ \A o \in Tokens \ {t} : lease'[o] = lease[o]
          /\ lease'[t].in_flight = lease[t].in_flight - 1
      BY <1>1, <1>2, <2>2, <2>3 DEF Lease
    <2>5. UsageFollowsLeases'
      BY <2>4, SameLeases
    <2>6. InFlightExact'
      BY <1>4, <1>5, <1>6, <2>1, <2>4, ZenonT(40) DEF InFlightExact, BrokerInv, Live
    <2>7. Untouched'
      <3>1. \A o \in Tokens : lease'[o].state = "unissued" => lease'[o].in_flight = 0
        BY <1>9, <2>4 DEF Untouched, BrokerInv, Live
      <3>2. \A o \in Requests : req'[o].tok = req[o].tok /\ req[o].tok \in Tokens
        BY <1>1, <1>2, <1>3 DEF Request
      <3>3. \A o \in Requests : req'[o].pc \notin {"idle", "done"} =>
               req[o].pc \notin {"idle", "done"}
        BY <1>3
      <3> QED BY <2>4, <3>1, <3>2, <3>3 DEF Untouched, BrokerInv
    <2> QED BY <1>1, <1>3, <2>4, <2>5, <2>6, <2>7, Types DEF BrokerInv, TypeOK, Lease, Usage, Request
  <1>10. CASE ~Live(t)
    <2>1. lease' = lease
      BY <1>2, <1>10 DEF Returned
    <2>2. UsageFollowsLeases'
      BY <2>1, SameLeases
    <2>3. InFlightExact'
      BY <1>5, <1>10, <2>1 DEF InFlightExact, BrokerInv, Live
    <2>4. Untouched'
      BY <1>1, <1>2, <1>3, <2>1 DEF Untouched, BrokerInv
    <2> QED BY <1>1, <1>3, <2>1, <2>2, <2>3, <2>4, Types DEF BrokerInv, TypeOK, Lease, Usage, Request
  <1> QED BY <1>9, <1>10

\* A step of a request, or of the lease of its token, that keeps the states,
\* keys and permits.
LEMMA QuietStep ==
    ASSUME BrokerInv,
           lease' \in [Tokens -> Lease], usage' \in [Keys -> Usage],
           req' \in [Requests -> Request],
           \A t \in Tokens : /\ lease'[t].state = lease[t].state
                              /\ lease'[t].key = lease[t].key
                              /\ lease'[t].in_flight = lease[t].in_flight
                              /\ Permits(t)' = Permits(t),
           \A k \in Keys : usage'[k].there = usage[k].there,
           \A r \in Requests : req'[r].pc \notin {"idle", "done"} =>
               lease[req'[r].tok].state # "unissued"
    PROVE  BrokerInv'
  <1>1. TypeOK'
    BY DEF TypeOK, Lease, Usage, Request
  <1>2. UsageFollowsLeases'
    BY SameLeases
  <1>3. InFlightExact'
    BY DEF BrokerInv, InFlightExact, Live
  <1>4. Untouched'
    <2>1. \A r \in Requests : req'[r].tok \in Tokens
      BY DEF Request
    <2> QED BY <2>1 DEF BrokerInv, Untouched
  <1> QED BY <1>1, <1>2, <1>3, <1>4 DEF BrokerInv

\* The same when a lease is removed.
LEMMA RemovingStep ==
    ASSUME BrokerInv, NEW t \in Tokens, Live(t), _remove_lease(t),
           req' \in [Requests -> Request],
           \A o \in Tokens : Permits(o)' = Permits(o),
           \A r \in Requests : req'[r].pc \notin {"idle", "done"} =>
               lease[req'[r].tok].state # "unissued"
    PROVE  BrokerInv'
  <1>1. /\ lease' \in [Tokens -> Lease] /\ usage' \in [Keys -> Usage]
        /\ UsageFollowsLeases'
        /\ \A o \in Tokens \ {t} : lease'[o] = lease[o]
        /\ lease'[t].state = "gone" /\ lease'[t].in_flight = lease[t].in_flight
    BY RemoveLease
  <1>2. TypeOK'
    BY <1>1 DEF TypeOK, Lease, Usage, Request
  <1>3. InFlightExact'
    BY <1>1 DEF BrokerInv, InFlightExact, Live
  <1>4. Untouched'
    <2>1. \A r \in Requests : req'[r].tok \in Tokens
      BY DEF Request
    <2> QED BY <1>1, <2>1 DEF BrokerInv, Untouched
  <1> QED BY <1>1, <1>2, <1>3, <1>4 DEF BrokerInv

-----------------------------------------------------------------------------
\* What every step may use.
LEMMA Given ==
    ASSUME BrokerInv
    PROVE  /\ lease \in [Tokens -> Lease] /\ usage \in [Keys -> Usage]
           /\ req \in [Requests -> Request]
           /\ \A r \in Requests : req[r].tok \in Tokens
           /\ \A r \in Requests : req[r].pc \notin {"idle", "done"} =>
                 lease[req[r].tok].state # "unissued"
  BY Types DEF BrokerInv, Untouched, Request

\* issue keeps the invariant.
LEMMA IssueStep ==
    ASSUME BrokerInv, NEW t \in Tokens, issue(t)
    PROVE  BrokerInv'
  <1>1. /\ lease' = [lease EXCEPT ![t].state = "live"] /\ lease[t].state = "unissued"
        /\ usage' = [usage EXCEPT ![lease[t].key].there = TRUE] /\ req' = req
    BY DEF issue
  <1>2. lease[t] \in Lease /\ lease[t].key \in Keys
    BY Given DEF Lease
  <1>3. /\ lease' \in [Tokens -> Lease]
        /\ \A o \in Tokens \ {t} : lease'[o] = lease[o]
        /\ lease'[t].state = "live" /\ lease'[t].key = lease[t].key
        /\ lease'[t].in_flight = lease[t].in_flight
    BY <1>1, <1>2, Given DEF Lease
  <1>4. /\ usage' \in [Keys -> Usage] /\ usage'[lease[t].key].there
        /\ \A k \in Keys \ {lease[t].key} : usage'[k] = usage[k]
    BY <1>1, <1>2, Given DEF Usage
  <1>5. TypeOK'
    BY <1>1, <1>3, <1>4, Given DEF TypeOK, Lease, Usage, Request
  <1>6. UsageFollowsLeases'
    BY <1>2, <1>3, <1>4 DEF BrokerInv, UsageFollowsLeases, Live
  <1>7. \A o \in Tokens : Permits(o)' = Permits(o)
    BY <1>1 DEF Permits
  <1>8. InFlightExact'
    <2>1. Permits(t) = {} /\ lease[t].in_flight = 0
      BY <1>1 DEF BrokerInv, Untouched, Permits
    <2>2. Cardinality(Permits(t)) = 0
      BY <2>1, FS_EmptySet
    <2> QED BY <1>3, <1>7, <2>1, <2>2 DEF BrokerInv, InFlightExact, Live
  <1>9. Untouched'
    BY <1>1, <1>3, Given DEF BrokerInv, Untouched
  <1> QED BY <1>5, <1>6, <1>8, <1>9 DEF BrokerInv

\* Expiry, revocation and removal of a token keep the invariant.
LEMMA TokenSteps ==
    ASSUME BrokerInv, NEW t \in Tokens, TokenStep(t)
    PROVE  BrokerInv'
  <1>1. CASE issue(t)
    BY <1>1, IssueStep
  <1>2. CASE Expire(t) \/ take_upstream_error(t)
    <2>1. /\ \/ lease' = [lease EXCEPT ![t].expired = TRUE]
             \/ lease' = [lease EXCEPT ![t].error = FALSE]
          /\ usage' = usage /\ req' = req
      BY <1>2 DEF Expire, take_upstream_error
    <2>2. /\ lease' \in [Tokens -> Lease]
          /\ \A o \in Tokens : /\ lease'[o].state = lease[o].state
                                /\ lease'[o].key = lease[o].key
                                /\ lease'[o].in_flight = lease[o].in_flight
      <3>1. CASE lease' = [lease EXCEPT ![t].expired = TRUE]
        BY <3>1, Given DEF Lease
      <3>2. CASE lease' = [lease EXCEPT ![t].error = FALSE]
        BY <3>2, Given DEF Lease
      <3> QED BY <2>1, <3>1, <3>2
    <2>3. \A o \in Tokens : Permits(o)' = Permits(o)
      BY <2>1 DEF Permits
    <2> QED BY <2>1, <2>2, <2>3, Given, QuietStep
  <1>3. CASE revoke(t)
    <2>1. Live(t) /\ _remove_lease(t) /\ req' = req
      BY <1>3 DEF revoke
    <2>2. \A o \in Tokens : Permits(o)' = Permits(o)
      BY <2>1 DEF Permits
    <2> QED BY <2>1, <2>2, Given, RemovingStep
  <1> QED BY <1>1, <1>2, <1>3 DEF TokenStep

\* A request moves on without taking or giving back a permit.
LEMMA Moves ==
    ASSUME BrokerInv, NEW r \in Requests, NEW p, req' = Goto(r, p),
           \/ req[r].pc = "reading" /\ p = "done"
           \/ req[r].pc = "reporting" /\ p = "done"
           \/ req[r].pc = "sending" /\ p \in {"error", "body"}
           \/ req[r].pc = "body" /\ p = "closing"
    PROVE  /\ req' \in [Requests -> Request]
           /\ \A o \in Tokens : Permits(o)' = Permits(o)
           /\ \A o \in Requests : req'[o].pc \notin {"idle", "done"} =>
                 lease[req'[o].tok].state # "unissued"
  <1>1. /\ req' \in [Requests -> Request]
        /\ \A o \in Requests \ {r} : req'[o] = req[o]
        /\ req'[r].pc = p /\ req'[r].tok = req[r].tok
    BY Given DEF Goto, Request
  <1>2. \A o \in Tokens : Permits(o)' = Permits(o)
    BY <1>1 DEF Permits
  <1> QED BY <1>1, <1>2, Given

\* A request that comes in keeps the invariant.
LEMMA Arrives ==
    ASSUME BrokerInv, NEW r \in Requests, NEW t \in Tokens, validate(r, t)
    PROVE  BrokerInv'
  <1>1. PICK p \in {"reading", "done"} :
           /\ req' = [req EXCEPT ![r] = [pc |-> p, tok |-> t]]
           /\ p = "reading" => Live(t)
    BY DEF validate
  <1>2. req[r].pc = "idle"
    BY DEF validate
  <1>3. /\ req' \in [Requests -> Request] /\ req'[r].pc = p /\ req'[r].tok = t
        /\ \A o \in Requests \ {r} : req'[o] = req[o]
    BY <1>1, Given DEF Request
  <1>4. \A o \in Tokens : Permits(o)' = Permits(o)
    BY <1>1, <1>2, <1>3 DEF Permits
  <1>5. \A o \in Requests : req'[o].pc \notin {"idle", "done"} =>
           lease[req'[o].tok].state # "unissued"
    BY <1>1, <1>3, Given DEF Live
  <1>6. CASE Live(t) /\ lease[t].expired
    <2>1. _remove_lease(t)
      BY <1>6 DEF validate
    <2> QED BY <1>3, <1>4, <1>5, <1>6, <2>1, RemovingStep
  <1>7. CASE ~(Live(t) /\ lease[t].expired)
    <2>1. lease' = lease /\ usage' = usage
      BY <1>7 DEF validate
    <2> QED BY <1>3, <1>4, <1>5, <2>1, Given, QuietStep
  <1> QED BY <1>6, <1>7

\* acquire keeps the invariant: one more permit, one more request counted.
LEMMA AcquireStep ==
    ASSUME BrokerInv, NEW r \in Requests, acquire(r)
    PROVE  BrokerInv'
  <1>1. PICK t \in Tokens : t = req[r].tok
    BY Given
  <1>2. PICK k \in Keys : k = lease[t].key
    BY Given DEF Lease
  <1>3. /\ req[r].pc = "reading" /\ Live(t)
        /\ usage[k].count < MaxRequests /\ lease[t].in_flight < MaxConcurrency
        /\ usage' = [usage EXCEPT ![k].count = @ + 1]
        /\ lease' = [lease EXCEPT ![t].in_flight = @ + 1]
        /\ req' = Goto(r, "sending")
    BY <1>1, <1>2 DEF acquire
  <1>4. usage[k] \in Usage /\ lease[t] \in Lease
    BY Given
  <1>5. usage[k].count + 1 \in 0 .. MaxRequests /\ lease[t].in_flight + 1 \in 0 .. MaxConcurrency
    BY <1>3, <1>4, BrokerAssumption DEF Usage, Lease
  <1>6. /\ usage' \in [Keys -> Usage]
        /\ \A l \in Keys : usage'[l].there = usage[l].there
    BY <1>3, <1>5, Given DEF Usage
  <1>7. /\ lease' \in [Tokens -> Lease]
        /\ \A o \in Tokens : lease'[o].state = lease[o].state /\ lease'[o].key = lease[o].key
        /\ \A o \in Tokens \ {t} : lease'[o] = lease[o]
        /\ lease'[t].in_flight = lease[t].in_flight + 1
    BY <1>3, <1>5, Given DEF Lease
  <1>8. /\ req' \in [Requests -> Request]
        /\ \A o \in Requests \ {r} : req'[o] = req[o]
        /\ req'[r].pc = "sending" /\ req'[r].tok = t
    BY <1>1, <1>3, Given DEF Goto, Request
  <1>9. /\ Permits(t)' = Permits(t) \cup {r} /\ r \notin Permits(t)
        /\ \A o \in Tokens \ {t} : Permits(o)' = Permits(o)
    BY <1>1, <1>3, <1>8 DEF Permits
  <1>10. Cardinality(Permits(t)') = Cardinality(Permits(t)) + 1
    BY <1>9, FinitePermits, FS_AddElement
  <1>11. TypeOK'
    BY <1>6, <1>7, <1>8 DEF TypeOK, Lease, Usage, Request
  <1>12. UsageFollowsLeases'
    BY <1>6, <1>7, SameLeases
  <1>13. InFlightExact'
    <2>1. lease'[t].in_flight = Cardinality(Permits(t)')
      BY <1>3, <1>7, <1>10 DEF BrokerInv, InFlightExact
    <2>2. \A o \in Tokens \ {t} : Live(o)' => lease'[o].in_flight = Cardinality(Permits(o)')
      BY <1>7, <1>9 DEF BrokerInv, InFlightExact, Live
    <2> QED BY <2>1, <2>2 DEF InFlightExact
  <1>14. Untouched'
    <2>1. \A o \in Tokens : lease'[o].state = "unissued" => lease'[o].in_flight = 0
      BY <1>3, <1>7 DEF BrokerInv, Untouched, Live
    <2>2. \A o \in Requests : req'[o].tok = req[o].tok /\ req'[o].tok \in Tokens
      BY <1>1, <1>8, Given
    <2>3. \A o \in Requests : req'[o].pc \notin {"idle", "done"} =>
             req[o].pc \notin {"idle", "done"}
      BY <1>3, <1>8
    <2> QED BY <1>7, <2>1, <2>2, <2>3, Given DEF Untouched
  <1> QED BY <1>11, <1>12, <1>13, <1>14 DEF BrokerInv

\* Noting an error of the upstream changes no count.
LEMMA ErrorNoted ==
    ASSUME BrokerInv, NEW t \in Tokens, NEW e \in BOOLEAN, lease' = WithError(t, e)
    PROVE  /\ lease' \in [Tokens -> Lease]
           /\ \A o \in Tokens : /\ lease'[o].state = lease[o].state
                                 /\ lease'[o].key = lease[o].key
                                 /\ lease'[o].in_flight = lease[o].in_flight
  <1>1. CASE lease' = lease
    BY <1>1, Given
  <1>2. CASE lease' = [lease EXCEPT ![t].error = e]
    BY <1>2, Given DEF Lease
  <1> QED BY <1>1, <1>2 DEF WithError

\* Recording output keeps the invariant.
LEMMA Metered ==
    ASSUME BrokerInv, NEW r \in Requests, record_output(r)
    PROVE  BrokerInv'
  <1>1. PICK size \in 1 .. MaxChunk : LET t == req[r].tok
                                         k == lease[t].key
             IN /\ req[r].pc = "body"
                /\ IF Live(t) /\ usage[k].bytes + size <= MaxBytes
                   THEN /\ usage' = [usage EXCEPT ![k].bytes = @ + size]
                        /\ UNCHANGED req
                   ELSE /\ req' = Goto(r, "closing")
                        /\ UNCHANGED usage
                /\ UNCHANGED lease
    BY DEF record_output
  <1>2. PICK k \in Keys : k = lease[req[r].tok].key
    BY Given DEF Lease
  <1>3. CASE Live(req[r].tok) /\ usage[k].bytes + size <= MaxBytes
    <2>1. /\ usage' = [usage EXCEPT ![k].bytes = usage[k].bytes + size]
          /\ req' = req /\ lease' = lease
      BY <1>1, <1>2, <1>3
    <2>2. usage[k].bytes + size \in 0 .. MaxBytes
      <3>1. usage[k].bytes \in Nat /\ size \in Nat
        BY Given, BrokerAssumption DEF Usage
      <3> QED BY <1>3, <3>1, BrokerAssumption
    <2>3. usage' \in [Keys -> Usage] /\ \A l \in Keys : usage'[l].there = usage[l].there
      BY <2>1, <2>2, Given DEF Usage
    <2>4. \A o \in Tokens : Permits(o)' = Permits(o)
      BY <2>1 DEF Permits
    <2> QED BY <2>1, <2>3, <2>4, Given, QuietStep
  <1>4. CASE ~(Live(req[r].tok) /\ usage[k].bytes + size <= MaxBytes)
    <2>1. req' = Goto(r, "closing") /\ usage' = usage /\ lease' = lease /\ req[r].pc = "body"
      BY <1>1, <1>2, <1>4
    <2> QED BY <2>1, Moves, Given, QuietStep
  <1> QED BY <1>3, <1>4

\* Every step of a request keeps the invariant.
LEMMA RequestSteps ==
    ASSUME BrokerInv, NEW r \in Requests, RequestStep(r)
    PROVE  BrokerInv'
  <1>0. req[r].tok \in Tokens
    BY Given
  <1>1. ASSUME NEW t \in Tokens, validate(r, t) PROVE BrokerInv'
    BY <1>1, Arrives
  <1>2. CASE Rejected(r) \/ UpstreamError(r) \/ BodyEnds(r)
    <2>1. PICK p : /\ req' = Goto(r, p) /\ lease' = lease /\ usage' = usage
                   /\ \/ req[r].pc = "reading" /\ p = "done"
                      \/ req[r].pc = "sending" /\ p \in {"error", "body"}
                      \/ req[r].pc = "body" /\ p = "closing"
      BY <1>2 DEF Rejected, UpstreamError, BodyEnds
    <2> QED BY <2>1, Moves, Given, QuietStep
  <1>3. CASE Unauthorized(r)
    <2>1. req[r].pc = "reading" /\ req' = Goto(r, "done")
      BY <1>3 DEF Unauthorized
    <2>2. CASE Live(req[r].tok)
      <3>1. _remove_lease(req[r].tok)
        BY <1>3, <2>2 DEF Unauthorized
      <3> QED BY <1>0, <2>1, <2>2, <3>1, Moves, RemovingStep
    <2>3. CASE ~Live(req[r].tok)
      <3>1. lease' = lease /\ usage' = usage
        BY <1>3, <2>3 DEF Unauthorized
      <3> QED BY <2>1, <3>1, Moves, Given, QuietStep
    <2> QED BY <2>2, <2>3
  <1>4. CASE acquire(r)
    BY <1>4, AcquireStep
  <1>5. CASE UpstreamFails(r) \/ ErrorRead(r) \/ _cleanup(r)
    <2>1. PICK p \in {"reporting", "done"} :
             /\ req[r].pc \in {"sending", "error", "body", "closing"}
             /\ lease' = Returned(req[r].tok) /\ req' = Goto(r, p) /\ UNCHANGED usage
      BY <1>5 DEF UpstreamFails, ErrorRead, _cleanup
    <2> QED BY <2>1, ReturnedPermit
  <1>6. CASE ReportError(r)
    <2>1. /\ req[r].pc = "reporting" /\ req' = Goto(r, "done") /\ usage' = usage
          /\ lease' = WithError(req[r].tok, TRUE) \/ lease' = lease
      BY <1>6 DEF ReportError
    <2>2. CASE lease' = WithError(req[r].tok, TRUE)
      BY <1>0, <2>1, <2>2, ErrorNoted, Moves, Given, QuietStep
    <2>3. CASE lease' = lease
      BY <2>1, <2>3, Moves, Given, QuietStep
    <2> QED BY <2>1, <2>2, <2>3
  <1>7. CASE UpstreamAnswers(r)
    <2>1. /\ req[r].pc = "sending" /\ req' = Goto(r, "body") /\ usage' = usage
          /\ lease' = WithError(req[r].tok, FALSE)
      BY <1>7 DEF UpstreamAnswers
    <2> QED BY <1>0, <2>1, ErrorNoted, Moves, Given, QuietStep
  <1>8. CASE record_output(r)
    BY <1>8, Metered
  <1> QED BY <1>1, <1>2, <1>3, <1>4, <1>5, <1>6, <1>7, <1>8 DEF RequestStep

\* The inductive invariant holds in every behaviour of the broker.
LEMMA BrokerInvariant == Spec => []BrokerInv
  <1>1. Init => BrokerInv
    <2> SUFFICES ASSUME Init PROVE BrokerInv
      OBVIOUS
    <2>1. TypeOK
      <3>1. 0 \in 0 .. MaxConcurrency /\ 0 \in 0 .. MaxRequests /\ 0 \in 0 .. MaxBytes
        BY BrokerAssumption
      <3>2. lease \in [Tokens -> Lease]
        BY <3>1 DEF Init, Lease
      <3>3. usage \in [Keys -> Usage]
        BY <3>1 DEF Init, Usage, NoUsage
      <3>4. req \in [Requests -> Request]
        BY DEF Init, Request
      <3> QED BY <3>2, <3>3, <3>4, Types
    <2>2. UsageFollowsLeases
      BY DEF Init, UsageFollowsLeases, Live, NoUsage
    <2>3. InFlightExact /\ Untouched
      BY DEF Init, InFlightExact, Untouched, Live
    <2> QED BY <2>1, <2>2, <2>3 DEF BrokerInv
  <1>2. BrokerInv /\ [Next]_vars => BrokerInv'
    <2> SUFFICES ASSUME BrokerInv, [Next]_vars PROVE BrokerInv'
      OBVIOUS
    <2>1. CASE UNCHANGED vars
      <3>1. lease' = lease /\ usage' = usage /\ req' = req
        BY <2>1 DEF vars
      <3>2. \A o \in Tokens : Permits(o)' = Permits(o)
        BY <3>1 DEF Permits
      <3> QED BY <3>1, <3>2, Given, QuietStep
    <2> QED BY <2>1, TokenSteps, RequestSteps DEF Next
  <1> QED BY <1>1, <1>2, PTL DEF Spec

\* Requests, concurrent requests and bytes of a stage stay within their limits.
THEOREM LimitsAreKept == Spec => []TypeOK
  <1>1. BrokerInv => TypeOK
    BY DEF BrokerInv
  <1> QED BY <1>1, BrokerInvariant, PTL

\* in_flight of every lease is the number of its permits that are out, however
\* requests end and tokens come and go.
THEOREM PermitsAreCounted == Spec => []InFlightExact
  <1>1. BrokerInv => InFlightExact
    BY DEF BrokerInv
  <1> QED BY <1>1, BrokerInvariant, PTL

\* A stage is metered exactly while it has a token.
THEOREM StagesAreMetered == Spec => []UsageFollowsLeases
  <1>1. BrokerInv => UsageFollowsLeases
    BY DEF BrokerInv
  <1> QED BY <1>1, BrokerInvariant, PTL

\* A stage cannot shed what it has used while it has a token.
THEOREM UsageIsKept == Spec => UsageOnlyGrows
  <1> DEFINE Grows == \A k \in Keys : usage[k].there /\ usage'[k].there =>
                 usage'[k].count >= usage[k].count /\ usage'[k].bytes >= usage[k].bytes
  <1>1. BrokerInv /\ [Next]_vars => [Grows]_vars
    <2> SUFFICES ASSUME BrokerInv, Next, NEW k \in Keys, usage[k].there, usage'[k].there
                 PROVE  usage'[k].count >= usage[k].count /\ usage'[k].bytes >= usage[k].bytes
      OBVIOUS
    <2>1. usage[k].count \in Nat /\ usage[k].bytes \in Nat /\ usage \in [Keys -> Usage]
      BY Given, BrokerAssumption DEF Usage
    <2>2. CASE usage' = usage
      BY <2>1, <2>2
    <2>3. ASSUME NEW t \in Tokens, _remove_lease(t) PROVE usage'[k] = usage[k]
      BY <2>1, <2>3 DEF _remove_lease, NoUsage
    <2>4. ASSUME NEW t \in Tokens, issue(t)
          PROVE  usage'[k].count = usage[k].count /\ usage'[k].bytes = usage[k].bytes
      BY <2>1, <2>4 DEF issue, Usage
    <2>5. ASSUME NEW r \in Requests, acquire(r)
          PROVE  usage'[k].count >= usage[k].count /\ usage'[k].bytes = usage[k].bytes
      <3>1. PICK l : usage' = [usage EXCEPT ![l].count = @ + 1]
        BY <2>5 DEF acquire
      <3> QED BY <2>1, <3>1 DEF Usage
    <2>6. ASSUME NEW r \in Requests, record_output(r), usage' # usage
          PROVE  usage'[k].count = usage[k].count /\ usage'[k].bytes >= usage[k].bytes
      <3>1. lease[req[r].tok].key \in Keys
        BY Given DEF Lease
      <3>2. PICK size \in 1 .. MaxChunk :
               usage' = [usage EXCEPT ![lease[req[r].tok].key].bytes = @ + size]
        BY <2>6 DEF record_output
      <3>3. size \in Nat
        BY BrokerAssumption
      <3> QED BY <2>1, <3>1, <3>2, <3>3 DEF Usage
    <2>7. ASSUME NEW t \in Tokens, TokenStep(t)
          PROVE  usage'[k].count >= usage[k].count /\ usage'[k].bytes >= usage[k].bytes
      BY <2>1, <2>2, <2>3, <2>4, <2>7 DEF TokenStep, Expire, revoke, take_upstream_error
    <2>8. ASSUME NEW r \in Requests, RequestStep(r)
          PROVE  usage'[k].count >= usage[k].count /\ usage'[k].bytes >= usage[k].bytes
      <3>1. ASSUME NEW t \in Tokens, validate(r, t) PROVE usage'[k] = usage[k]
        BY <2>3, <3>1 DEF validate
      <3>2. CASE Unauthorized(r)
        <4>1. usage'[k] = usage[k]
          BY <2>3, <3>2, Given DEF Unauthorized
        <4> QED BY <2>1, <4>1
      <3>3. CASE acquire(r)
        BY <2>1, <2>5, <3>3
      <3>4. CASE record_output(r)
        BY <2>1, <2>2, <2>6, <3>4
      <3>5. CASE \/ Rejected(r) \/ UpstreamFails(r) \/ UpstreamError(r) \/ ErrorRead(r)
                \/ ReportError(r) \/ UpstreamAnswers(r) \/ BodyEnds(r) \/ _cleanup(r)
        BY <2>2, <3>5 DEF Rejected, UpstreamFails, UpstreamError, ErrorRead, ReportError,
                          UpstreamAnswers, BodyEnds, _cleanup
      <3> QED BY <2>1, <2>8, <3>1, <3>2, <3>3, <3>4, <3>5 DEF RequestStep
    <2> QED BY <2>7, <2>8 DEF Next
  <1> QED BY <1>1, BrokerInvariant, PTL DEF Spec, UsageOnlyGrows
=============================================================================
