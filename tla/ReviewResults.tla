---------------------------- MODULE ReviewResults ----------------------------
(***************************************************************************)
(* From the diff of a pull request to the comment of its review: the       *)
(* ranges of changed lines (DiffRanges), the commands of the agent that    *)
(* count as evidence, its native review, the conversion of that review by  *)
(* a second agent, and the findings that are located and published.        *)
(*                                                                         *)
(* A finding is known by its title (which stands for its priority and text *)
(* too), its path and its lines. Only the lines of one path, "p", are kept *)
(* once the diff has been read. What an agent writes is chosen freely.     *)
(***************************************************************************)
EXTENDS DiffRanges, SequencesExt

CONSTANT MaxFindings \* findings of a native review

ASSUME FindingsAssumption == MaxFindings \in Nat

Finding(title, path, start, end, side) ==
    [title |-> title, path |-> path, start |-> start, end |-> end, side |-> side]

\* Findings an agent may write: on lines in order; with another title, or a side
\* that is not said; and some that the schema of a review refuses (no Chinese text,
\* a path outside of the repository, lines that do not exist), that name the file
\* within the workspace, or that are in the file whose name has a space.
AgentFindings ==
    {f \in {Finding("a", "p", m, n, s) : m, n \in 1 .. MaxLine, s \in Sides} : f.start <= f.end}
    \cup {Finding("b", "p", 1, 1, "RIGHT"), Finding("a", "p", 1, 2, "unsaid"),
          Finding("latin", "p", 1, 1, "RIGHT"), Finding("a", "outside", 1, 1, "RIGHT"),
          Finding("a", "p", 0, 1, "RIGHT"), Finding("a", "p", 2, 1, "RIGHT"),
          Finding("a", "workspace/p", 1, 1, "RIGHT"), Finding("a", Spaced, 1, 1, "RIGHT")}

VARIABLES
    stage,    \* where the review is
    evidence, \* a diff against the fixed base ran; it was recognised
    native,   \* findings of the native review, and whether it confirms that there are none
    output,   \* converted findings
    comment   \* what is published

resultVars == <<stage, evidence, native, output, comment>>
reviewVars == <<diffVars, resultVars>>

NoComment == [located |-> <<>>, pending |-> <<>>, approves |-> FALSE]
NoNative  == [findings |-> <<>>, confirmed |-> FALSE]

ResultInit ==
    /\ DiffInit
    /\ stage = "diff"
    /\ evidence = [ran |-> FALSE, recognised |-> FALSE]
    /\ native = NoNative /\ output = <<>> /\ comment = NoComment

\* The job or the review fails; nothing is published.
ReviewFails ==
    /\ stage' = "failed"
    /\ evidence' = [ran |-> FALSE, recognised |-> FALSE]
    /\ native' = NoNative /\ output' = <<>>
    /\ UNCHANGED <<comment, diffVars>>

ReadDiff == stage = "diff" /\ DiffNext /\ UNCHANGED resultVars

\* The diff is at its end; the lines of the other paths are forgotten, and after a
\* cut line the changed lines, with which nothing is compared then.
DiffEnds ==
    /\ stage = "diff" /\ git.at \in {"start", "header", "hunk"}
    /\ stage' = "review"
    /\ changed' = {c \in changed : c[1] = "p" /\ splits = 0}
    /\ ranges' = [k \in DOMAIN ranges |-> IF k[1] = "p" THEN ranges[k] ELSE <<>>]
    /\ git' = [at |-> "start", name |-> [s \in Sides |-> "/dev/null"],
               line |-> [s \in Sides |-> 0], seen |-> {}, files |-> 0]
    /\ parser' = [state |-> "outside", path |-> [s \in Sides |-> None],
                  line |-> [s \in Sides |-> 0], files |-> 0, count |-> [s \in Sides |-> 0]]
    /\ UNCHANGED <<splits, evidence, native, output, comment>>
-----------------------------------------------------------------------------
(***************************************************************************)
(* Evidence: a command that exits with 0 and consists of git diff and git  *)
(* status only, one of which compares with the fixed base.                 *)
(***************************************************************************)
Commands ==
    [shell : {"git", "sh", "other"}, joint : {"&&", ";", "|", "&"},
     segments : SeqOf({"target", "status", "other diff", "unsafe"}, 2) \ {<<>>}]

\* _is_fixed_base_git_diff.
FixedBaseDiff(c) ==
    /\ c.shell \in {"git", "sh"}
    /\ Len(c.segments) > 1 => c.joint = "&&"
    /\ "unsafe" \notin ToSet(c.segments) /\ "target" \in ToSet(c.segments)

\* The exit code of a command whose segments succeed as ok says.
ExitsZero(c, ok) ==
    \/ Len(c.segments) > 1 /\ c.joint = "&"
    \/ IF c.joint = "&&" THEN \A n \in DOMAIN ok : ok[n] ELSE ok[Len(c.segments)]

\* A segment compared with the fixed base, and nothing unknown ran before it.
Compared(c, ok) ==
    /\ c.shell # "other"
    /\ \E n \in DOMAIN ok :
        /\ c.segments[n] = "target" /\ ok[n]
        /\ \A m \in 1 .. n - 1 : c.segments[m] # "unsafe" /\ (c.joint = "&&" => ok[m])

\* _has_successful_git_inspection, as the agent runs one more command.
RunCommand ==
    /\ stage = "review"
    /\ \E c \in Commands : \E ok \in [DOMAIN c.segments -> BOOLEAN] :
        evidence' = [ran        |-> evidence.ran \/ Compared(c, ok),
                     recognised |-> evidence.recognised \/ (ExitsZero(c, ok) /\ FixedBaseDiff(c))]
    /\ UNCHANGED <<diffVars, stage, native, output, comment>>
-----------------------------------------------------------------------------
(***************************************************************************)
(* The native review and its conversion.                                   *)
(***************************************************************************)
\* A review lists findings, may hold a line that begins like one (odd), and may
\* hold the marker that it has none.
Inventory(findings, odd, marker) ==
    /\ ~odd
    /\ findings # <<>> => marker = "none"
    /\ findings = <<>> => marker = "last"

\* whole: final_message finds a message of a turn that was completed.
NativeReview ==
    /\ stage = "review"
    /\ \E findings \in SeqOf(AgentFindings, MaxFindings),
          odd, whole \in BOOLEAN, marker \in {"none", "within", "last"} :
        IF whole /\ Inventory(findings, odd, marker)
        THEN /\ stage' = "convert"
             /\ native' = [findings  |-> findings,
                           confirmed |-> findings = <<>> /\ ~odd /\ marker = "last"]
             /\ UNCHANGED <<diffVars, evidence, output, comment>>
        ELSE ReviewFails

ExpectedPath(f) == IF f.path = "workspace/p" THEN "p" ELSE f.path
ExpectedSide(f) == IF f.side = "unsaid" THEN "RIGHT" ELSE f.side

Faithful(findings) ==
    [n \in DOMAIN findings |->
        [findings[n] EXCEPT !.path = ExpectedPath(findings[n]), !.side = ExpectedSide(findings[n])]]

\* What the second agent may return: the findings, one of them altered, one lost
\* or one added.
Conversions(findings) ==
    LET all == Faithful(findings)
        one == AgentFindings IN
    {all}
    \cup {[all EXCEPT ![n] = f] : n \in DOMAIN all, f \in one}
    \cup {RemoveAt(all, n) : n \in DOMAIN all}
    \cup {Append(all, f) : f \in one}

\* validate_conversion.
SameInventory(findings, converted) ==
    /\ Len(converted) = Len(findings)
    /\ \A n \in DOMAIN findings : converted[n].title = findings[n].title

SameLocations(findings, converted) ==
    \A n \in DOMAIN findings :
        /\ converted[n].path = ExpectedPath(findings[n])
        /\ converted[n].start = findings[n].start /\ converted[n].end = findings[n].end
        /\ converted[n].side = ExpectedSide(findings[n])

\* whole: a completed turn without a tool, whose message is JSON.
Convert ==
    /\ stage = "convert"
    /\ \E converted \in Conversions(native.findings), whole \in BOOLEAN :
        IF /\ whole
           /\ SameInventory(native.findings, converted)
           /\ SameLocations(native.findings, converted)
        THEN /\ stage' = "publish" /\ output' = converted
             /\ UNCHANGED <<diffVars, evidence, native, comment>>
        ELSE ReviewFails
-----------------------------------------------------------------------------
(***************************************************************************)
(* Parsing, locating and publishing.                                       *)
(***************************************************************************)
\* ReviewFinding.
Schema(f) ==
    /\ f.title # "latin" /\ f.path # "outside"
    /\ f.start > 0 /\ f.end > 0 /\ f.end >= f.start

Overlaps(f) ==
    {<<IF f.start > r[1] THEN f.start ELSE r[1], IF f.end < r[2] THEN f.end ELSE r[2]>> :
        r \in {r \in ToSet(ranges[<<f.path, f.side>>]) : r[1] <= f.end /\ f.start <= r[2]}}

\* Mutant: the lines after the range are not counted.
BugContextLines(f, lines) == lines[1] - f.start

ContextLines(f, lines) == lines[1] - f.start + f.end - lines[2]

\* ChangedRanges.clip: none or one range of lines.
Clip(f) ==
    {lines \in Overlaps(f) : Cardinality(Overlaps(f)) = 1 /\ ContextLines(f, lines) <= 1}

RejectionReason(f) ==
    CASE ranges[<<f.path, f.side>>] = <<>> -> "no changed lines"
      [] Overlaps(f) = {}                  -> "not on changed lines"
      [] Cardinality(Overlaps(f)) > 1      -> "several ranges"
      [] OTHER                             -> "too much context"

\* The members of a sequence that are in a set, in their order.
Among(s, S) ==
    LET kept[n \in 0 .. Len(s)] ==
            IF n = 0 THEN <<>>
            ELSE IF s[n] \in S THEN Append(kept[n - 1], s[n]) ELSE kept[n - 1]
    IN  kept[Len(s)]

\* validate_findings: the findings that are located, on the lines that were changed.
Located ==
    LET kept == Among(output, {f \in ToSet(output) : Clip(f) # {}}) IN
    [n \in DOMAIN kept |->
        LET lines == CHOOSE l \in Clip(kept[n]) : TRUE IN
        [kept[n] EXCEPT !.start = lines[1], !.end = lines[2]]]

\* unlocated_findings.
Pending ==
    LET rest == Among(output, {f \in ToSet(output) : Clip(f) = {}}) IN
    [n \in DOMAIN rest |-> [finding |-> rest[n], reason |-> RejectionReason(rest[n])]]

\* _unique_findings.
Unique(findings) ==
    LET unique[n \in 0 .. Len(findings)] ==
            IF n = 0 THEN <<>>
            ELSE IF findings[n] \in ToSet(unique[n - 1]) THEN unique[n - 1]
            ELSE Append(unique[n - 1], findings[n])
    IN  unique[Len(findings)]

\* parse_review_output (summary: the summary of the changes is valid), and the
\* comment of a review that is still wanted.
PublishReview ==
    /\ stage = "publish"
    /\ \E summary \in BOOLEAN :
        IF evidence.recognised /\ summary /\ \A n \in DOMAIN output : Schema(output[n])
        THEN /\ stage' = "published" /\ output' = <<>>
             /\ comment' = [located |-> Unique(Located), pending |-> Pending,
                            approves |-> output = <<>>]
             /\ UNCHANGED <<diffVars, evidence, native>>
        ELSE ReviewFails

ResultNext == ReadDiff \/ DiffEnds \/ RunCommand \/ NativeReview \/ Convert \/ PublishReview

ResultSpec == ResultInit /\ [][ResultNext]_reviewVars
-----------------------------------------------------------------------------
(***************************************************************************)
(* What a published comment says.                                          *)
(***************************************************************************)
ChangedWithin(f) ==
    {n \in f.start .. f.end : <<"p", ExpectedSide(f), n>> \in changed}

\* The changed lines a finding covers are one block, and it covers one more at most;
\* the name of its file has no space.
Locatable(f) ==
    LET on == ChangedWithin(f) IN
    /\ ExpectedPath(f) # Spaced
    /\ on # {}
    /\ \A m, n \in on : m .. n \subseteq on
    /\ Cardinality((f.start .. f.end) \ on) <= 1

\* A published finding is the native one: title, path and side, and if it is located
\* all the changed lines it covers and no other line.
Shows(l, f) ==
    /\ l.title = f.title /\ l.path = ExpectedPath(f) /\ l.side = ExpectedSide(f)
    /\ f.start <= l.start /\ l.end <= f.end
    /\ splits > 0 \/ (Locatable(f) /\ l.start .. l.end = ChangedWithin(f))

Lists(item, f) ==
    /\ item.finding = Faithful(<<f>>)[1]
    /\ splits > 0 \/ ~Locatable(f)

\* A comment shows every finding of the native review and nothing else. A finding
\* is located exactly where its changed lines are one block with at most one line
\* around them, unless the name of its file has a space, and listed as unverified
\* otherwise. No located finding is shown twice; an unverified one is listed as
\* often as the review repeats it. The change is approved exactly when the agent
\* itself confirmed that it found nothing; and the agent has compared the change
\* with the fixed base. (Lines are only claimed when splitlines cut none.)
CommentIsFaithful ==
    stage = "published" =>
        LET findings == ToSet(native.findings)
            located  == comment.located
            pending  == comment.pending IN
        /\ evidence.ran
        /\ comment.approves <=> native.confirmed
        /\ native.confirmed => located = <<>> /\ pending = <<>>
        /\ \A f \in findings : \/ \E n \in DOMAIN located : Shows(located[n], f)
                               \/ \E n \in DOMAIN pending : Lists(pending[n], f)
        /\ \A n \in DOMAIN located : \E f \in findings : Shows(located[n], f)
        /\ \A n \in DOMAIN pending : \E f \in findings : Lists(pending[n], f)
        /\ Cardinality(ToSet(located)) = Len(located)
=============================================================================
