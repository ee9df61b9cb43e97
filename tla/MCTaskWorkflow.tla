--------------------------- MODULE MCTaskWorkflow ---------------------------
(***************************************************************************)
(* Instances of TaskWorkflow for TLC: the owners, issues and ranks of up   *)
(* to three tasks.                                                         *)
(***************************************************************************)
EXTENDS TaskWorkflow

CONSTANTS t1, t2, t3, u1, i1, i2

\* All tasks belong to one user.
OneOwner  == [t \in Tasks |-> u1]
\* The third task has an issue of its own, the others share one.
TwoIssues == [t \in Tasks |-> IF t = t3 THEN i2 ELSE i1]
InOrder   == [t \in Tasks |-> CASE t = t1 -> 1 [] t = t2 -> 2 [] t = t3 -> 3]

\* What TaskPairs explores of three tasks. Two tasks on two issues: both may be
\* claimed, and one handler of an issue is at work at a time.
TwoIssuesAtWork ==
    /\ row[t2].status = Absent /\ t2 \notin edit.dispatch
    /\ Cardinality(edit.ignore) + Cardinality(edit.restore)
         + Cardinality(edit.dispatch) <= 1
    /\ overrun = {} /\ ncrashes = 0
\* Or two tasks on one issue, whose handlers overlap: one claim.
OneIssueAtWork ==
    /\ triage[i2] = "discovered" /\ i2 \notin edit.ignore /\ t3 \notin edit.dispatch
    /\ nclaims <= 1
Pairs == TwoIssuesAtWork \/ OneIssueAtWork

=============================================================================
