-------------------------- MODULE CredentialBroker --------------------------
(***************************************************************************)
(* The model proxy and its credential broker. An agent stage is issued a   *)
(* token; requests carry it to the proxy, which admits them against the    *)
(* quota of the stage (a task and a stage: the key), forwards them and     *)
(* meters the answer. The broker works under one lock: each of its methods *)
(* is one step. A request is suspended between them, and its token may be  *)
(* revoked, expire or be replaced by another one of the same stage.        *)
(***************************************************************************)
EXTENDS Naturals, FiniteSets

CONSTANTS Tokens, Keys, Requests, MaxRequests, MaxConcurrency, MaxBytes, MaxChunk

ASSUME BrokerAssumption ==
    /\ IsFiniteSet(Requests)
    /\ MaxRequests \in Nat \ {0} /\ MaxConcurrency \in Nat \ {0}
    /\ MaxBytes \in Nat \ {0} /\ MaxChunk \in Nat \ {0}

VARIABLES
    lease,  \* _leases_by_digest, and the tokens that are not in it
    usage,  \* _usage_by_task_stage
    req     \* the requests in the proxy

vars == <<lease, usage, req>>

NoUsage == [there |-> FALSE, count |-> 0, bytes |-> 0]

Init ==
    /\ lease \in [Tokens -> [state : {"unissued"}, key : Keys, expired : {FALSE},
                             in_flight : {0}, error : {FALSE}]]
    /\ usage = [k \in Keys |-> NoUsage]
    /\ req \in [Requests -> [pc : {"idle"}, tok : Tokens]]

-----------------------------------------------------------------------------
(***************************************************************************)
(* CredentialBroker                                                        *)
(***************************************************************************)
Live(t) == lease[t].state = "live"

\* Mutant: a new token starts the quota of its stage again.
BugFreshUsage(t) ==
    /\ lease[t].state = "unissued"
    /\ lease' = [lease EXCEPT ![t].state = "live"]
    /\ usage' = [usage EXCEPT ![lease[t].key] = [NoUsage EXCEPT !.there = TRUE]]
    /\ UNCHANGED req

\* A stage gets its token; a second token of a stage shares its usage.
issue(t) ==
    /\ lease[t].state = "unissued"
    /\ lease' = [lease EXCEPT ![t].state = "live"]
    /\ usage' = [usage EXCEPT ![lease[t].key].there = TRUE]
    /\ UNCHANGED req

\* The time of a lease is over; it stays in the table until somebody looks.
Expire(t) ==
    /\ Live(t) /\ ~lease[t].expired
    /\ lease' = [lease EXCEPT ![t].expired = TRUE]
    /\ UNCHANGED <<usage, req>>

\* Mutant: the usage of the stage goes with any of its tokens.
BugDropUsage(t) ==
    /\ lease' = [lease EXCEPT ![t].state = "gone"]
    /\ usage' = [usage EXCEPT ![lease[t].key] = NoUsage]

\* The lease goes, and with the last lease of the stage its usage.
_remove_lease(t) ==
    /\ lease' = [lease EXCEPT ![t].state = "gone"]
    /\ usage' = IF \E o \in Tokens \ {t} : Live(o) /\ lease[o].key = lease[t].key
                THEN usage ELSE [usage EXCEPT ![lease[t].key] = NoUsage]

\* issued_stage_token leaves its context.
revoke(t) ==
    /\ Live(t)
    /\ _remove_lease(t)
    /\ UNCHANGED req

\* The orchestrator asks why its agent failed.
take_upstream_error(t) ==
    /\ Live(t) /\ lease[t].error
    /\ lease' = [lease EXCEPT ![t].error = FALSE]
    /\ UNCHANGED <<usage, req>>

\* The lease table with a permit of t given back; a lease that is gone is not
\* looked for.
Returned(t) ==
    IF Live(t) /\ lease[t].in_flight > 0
    THEN [lease EXCEPT ![t].in_flight = @ - 1] ELSE lease

WithError(t, e) == IF Live(t) THEN [lease EXCEPT ![t].error = e] ELSE lease

-----------------------------------------------------------------------------
(***************************************************************************)
(* proxy_responses                                                         *)
(***************************************************************************)
Goto(r, p) == [req EXCEPT ![r].pc = p]

\* validate: a lease found expired is removed. The body is read next.
validate(r, t) ==
    /\ req[r].pc = "idle"
    /\ IF Live(t) /\ lease[t].expired THEN _remove_lease(t) ELSE UNCHANGED <<lease, usage>>
    /\ req' = [req EXCEPT ![r] =
                  [pc |-> IF Live(t) /\ ~lease[t].expired THEN "reading" ELSE "done",
                   tok |-> t]]

\* The body is too large or not a request the proxy permits, the client goes
\* away, or acquire refuses the model or finds a limit reached.
Rejected(r) ==
    /\ req[r].pc = "reading"
    /\ req' = Goto(r, "done")
    /\ UNCHANGED <<lease, usage>>

\* The lease may have expired or gone while the body was read.
Unauthorized(r) ==
    LET t == req[r].tok IN
    /\ req[r].pc = "reading"
    /\ ~Live(t) \/ lease[t].expired
    /\ IF Live(t) THEN _remove_lease(t) ELSE UNCHANGED <<lease, usage>>
    /\ req' = Goto(r, "done")

\* Mutant: the limit of concurrent requests is off by one.
BugOneMore(r) ==
    LET t == req[r].tok
        k == lease[t].key
    IN /\ req[r].pc = "reading"
       /\ Live(t) /\ ~lease[t].expired
       /\ usage[k].count < MaxRequests
       /\ lease[t].in_flight <= MaxConcurrency
       /\ usage' = [usage EXCEPT ![k].count = @ + 1]
       /\ lease' = [lease EXCEPT ![t].in_flight = @ + 1]
       /\ req' = Goto(r, "sending")

\* The request is counted and gets its permit.
acquire(r) ==
    LET t == req[r].tok
        k == lease[t].key
    IN /\ req[r].pc = "reading"
       /\ Live(t) /\ ~lease[t].expired
       /\ usage[k].count < MaxRequests
       /\ lease[t].in_flight < MaxConcurrency
       /\ usage' = [usage EXCEPT ![k].count = @ + 1]
       /\ lease' = [lease EXCEPT ![t].in_flight = @ + 1]
       /\ req' = Goto(r, "sending")

\* The upstream cannot be reached: _cleanup, 502.
UpstreamFails(r) ==
    /\ req[r].pc = "sending"
    /\ lease' = Returned(req[r].tok)
    /\ req' = Goto(r, "done")
    /\ UNCHANGED usage

\* The upstream answers with an error, whose body is read for some time.
UpstreamError(r) ==
    /\ req[r].pc = "sending"
    /\ req' = Goto(r, "error")
    /\ UNCHANGED <<lease, usage>>

\* _cleanup gives the permit back before it waits for the connection to close
\* and before the error is noted.
ErrorRead(r) ==
    /\ req[r].pc = "error"
    /\ lease' = Returned(req[r].tok)
    /\ req' = Goto(r, "reporting")
    /\ UNCHANGED usage

\* Mutant: the permit is given back once more at the end.
BugReleaseTwice(r) ==
    /\ req[r].pc = "reporting"
    /\ lease' = Returned(req[r].tok)
    /\ req' = Goto(r, "done")
    /\ UNCHANGED usage

\* set_upstream_error, unless closing the connection failed.
ReportError(r) ==
    /\ req[r].pc = "reporting"
    /\ lease' = WithError(req[r].tok, TRUE) \/ UNCHANGED lease
    /\ req' = Goto(r, "done")
    /\ UNCHANGED usage

\* The upstream answers: an earlier error is forgotten.
UpstreamAnswers(r) ==
    /\ req[r].pc = "sending"
    /\ lease' = WithError(req[r].tok, FALSE)
    /\ req' = Goto(r, "body")
    /\ UNCHANGED usage

\* record_output: a chunk is passed on if the lease is still there (expired or
\* not) and the quota allows it; otherwise the answer is cut off.
record_output(r) ==
    \E size \in 1 .. MaxChunk :
        LET t == req[r].tok
            k == lease[t].key
        IN /\ req[r].pc = "body"
           /\ IF Live(t) /\ usage[k].bytes + size <= MaxBytes
              THEN /\ usage' = [usage EXCEPT ![k].bytes = @ + size]
                   /\ UNCHANGED req
              ELSE /\ req' = Goto(r, "closing")
                   /\ UNCHANGED usage
           /\ UNCHANGED lease

\* The answer is complete, breaks off, or the client has gone; a generator
\* that was abandoned is closed some time later.
BodyEnds(r) ==
    /\ req[r].pc = "body"
    /\ req' = Goto(r, "closing")
    /\ UNCHANGED <<lease, usage>>

_cleanup(r) ==
    /\ req[r].pc = "closing"
    /\ lease' = Returned(req[r].tok)
    /\ req' = Goto(r, "done")
    /\ UNCHANGED usage

TokenStep(t) == issue(t) \/ Expire(t) \/ revoke(t) \/ take_upstream_error(t)

RequestStep(r) ==
    \/ \E t \in Tokens : validate(r, t)
    \/ Rejected(r) \/ Unauthorized(r) \/ acquire(r)
    \/ UpstreamFails(r) \/ UpstreamError(r) \/ ErrorRead(r) \/ ReportError(r)
    \/ UpstreamAnswers(r) \/ record_output(r) \/ BodyEnds(r) \/ _cleanup(r)

Next == (\E t \in Tokens : TokenStep(t)) \/ (\E r \in Requests : RequestStep(r))

Spec == Init /\ [][Next]_vars

-----------------------------------------------------------------------------
\* Every variable keeps its type, and every counter its limit.
TypeOK ==
    /\ lease \in [Tokens -> [state : {"unissued", "live", "gone"}, key : Keys,
                             expired : BOOLEAN, in_flight : 0 .. MaxConcurrency,
                             error : BOOLEAN]]
    /\ usage \in [Keys -> [there : BOOLEAN, count : 0 .. MaxRequests,
                           bytes : 0 .. MaxBytes]]
    /\ req \in [Requests -> [pc : {"idle", "reading", "sending", "error", "reporting",
                                   "body", "closing", "done"},
                             tok : Tokens]]

\* The requests that hold a permit of t.
Permits(t) ==
    {r \in Requests : req[r].tok = t /\ req[r].pc \in {"sending", "error", "body", "closing"}}

\* A stage is metered exactly while it has a token: acquire and record_output
\* find the usage of every lease, and none is left behind when the last token
\* is revoked or found expired.
UsageFollowsLeases ==
    \A k \in Keys : usage[k].there <=> \E t \in Tokens : Live(t) /\ lease[t].key = k

\* in_flight counts the permits: whatever way a request ends, its permit is
\* given back once, so that a token is never locked out by requests that are
\* over, nor lets more through than it may.
InFlightExact ==
    \A t \in Tokens : Live(t) => lease[t].in_flight = Cardinality(Permits(t))

\* A stage cannot shed what it has used: as long as it has a token, revoking,
\* expiring or issuing others never lowers its counts.
UsageOnlyGrows ==
    [][\A k \in Keys : usage[k].there /\ usage'[k].there =>
          usage'[k].count >= usage[k].count /\ usage'[k].bytes >= usage[k].bytes]_vars

=============================================================================
