----------------------------- MODULE DiffRanges -----------------------------
(***************************************************************************)
(* The lines a pull request changes: git prints a unified diff, and        *)
(* _parse_changed_ranges reads it line by line into ranges of changed      *)
(* lines per file and side, against which the findings of a review are     *)
(* located. A line of the diff is known by how it begins; a removed line   *)
(* may itself begin with dashes and look like the name of a file.          *)
(*                                                                         *)
(* The parser cuts the diff with str.splitlines, which also cuts at a form *)
(* feed, a line separator and the like in the text of a line: what follows *)
(* it is taken for a line of the diff.                                     *)
(*                                                                         *)
(* git ends a name that contains a space with a tab, and the parser takes  *)
(* the tab for a part of the path.                                         *)
(***************************************************************************)
EXTENDS Naturals, Sequences, FiniteSets

CONSTANTS
    MaxLine,    \* lines of a file
    MaxFiles,   \* files of a diff
    MaxChanges, \* changed lines of a diff
    MaxSplits   \* lines that are cut

ASSUME DiffAssumption == {MaxLine, MaxFiles, MaxChanges, MaxSplits} \subseteq Nat

\* Files with a safe path, one of them with a space in it. An odd name cannot be
\* decoded or is not a safe path; /dev/null stands for no file.
Spaced == "r s"
Tabbed == "r s<TAB>"
Files  == {"p", "q", Spaced}
Names  == Files \cup {"odd", "/dev/null"}
\* What the parser may take for a path.
Paths  == Files \cup {Tabbed}
None   == "none"
Sides == {"LEFT", "RIGHT"}

VARIABLES
    git,     \* what git prints: the file, its names, the next line of each side
    changed, \* the lines git has printed as changed
    parser,  \* state, paths, line numbers and counters of the parser
    ranges,  \* ranges of each path and side
    splits   \* lines cut so far

diffVars == <<git, changed, parser, ranges, splits>>

DiffInit ==
    /\ git = [at |-> "start", name |-> [s \in Sides |-> "/dev/null"],
              line |-> [s \in Sides |-> 0], seen |-> {}, files |-> 0]
    /\ changed = {} /\ splits = 0
    /\ parser = [state |-> "outside", path |-> [s \in Sides |-> None],
                 line |-> [s \in Sides |-> 0], files |-> 0, count |-> [s \in Sides |-> 0]]
    /\ ranges = [k \in Paths \X Sides |-> <<>>]
-----------------------------------------------------------------------------
(***************************************************************************)
(* The parser. A line has a shape, and a name or two line numbers.         *)
(***************************************************************************)
Line(shape) == [shape |-> shape, name |-> "/dev/null", line |-> [s \in Sides |-> 0]]

\* _parse_diff_path and normalize_repository_path, which lets a tab pass.
PathOf(name) == IF name \in Paths THEN name ELSE None

\* Mutant: a single unchanged line does not end a range.
BugExtends(rs, n) == rs # <<>> /\ n <= rs[Len(rs)][2] + 2

Extends(rs, n) == rs # <<>> /\ n <= rs[Len(rs)][2] + 1

WithLine(rs, n) ==
    IF Extends(rs, n)
    THEN [rs EXCEPT ![Len(rs)] = <<@[1], IF n > @[2] THEN n ELSE @[2]>>]
    ELSE Append(rs, <<n, n>>)

\* record, for a removed or an added line.
Record(side) ==
    LET path == parser.path[side]
        n    == parser.line[side] IN
    /\ ranges' = IF path = None \/ n < 1 THEN ranges
                 ELSE [ranges EXCEPT ![<<path, side>>] = WithLine(@, n)]
    /\ parser' = [parser EXCEPT !.line[side] = @ + 1, !.count[side] = @ + 1]

ParseFile(l) ==
    /\ l.shape = "diff"
    /\ parser' = [parser EXCEPT !.state = "header", !.files = @ + 1,
                                !.path = [s \in Sides |-> None]]
    /\ UNCHANGED ranges

ParseName(l, shape, from, to, side) ==
    /\ l.shape = shape /\ parser.state = from
    /\ parser' = [parser EXCEPT !.state = to, !.path[side] = PathOf(l.name)]
    /\ UNCHANGED ranges

ParseOld(l) == ParseName(l, "---", "header", "old_path", "LEFT")
ParseNew(l) == ParseName(l, "+++", "old_path", "ready", "RIGHT")

ParseHunk(l) ==
    /\ l.shape = "@@" /\ parser.state \in {"ready", "hunk"}
    /\ parser' = [parser EXCEPT !.state = "hunk", !.line = l.line]
    /\ UNCHANGED ranges

ParseBody(l) ==
    /\ parser.state = "hunk"
    /\ \/ l.shape \in {"-", "---"} /\ Record("LEFT")
       \/ l.shape \in {"+", "+++"} /\ Record("RIGHT")
       \/ /\ l.shape = " "
          /\ parser' = [parser EXCEPT !.line = [s \in Sides |-> @[s] + 1]]
          /\ UNCHANGED ranges

\* Anything else outside of a hunk; an empty line, or the note that a file ends
\* without a newline, within one.
Skip(l) ==
    /\ \/ l.shape = "other"
       \/ /\ parser.state # "hunk" /\ l.shape # "diff"
          /\ <<l.shape, parser.state>> \notin
                {<<"---", "header">>, <<"+++", "old_path">>, <<"@@", "ready">>}
    /\ UNCHANGED <<parser, ranges>>

Parse(l) ==
    ParseFile(l) \/ ParseOld(l) \/ ParseNew(l) \/ ParseHunk(l) \/ ParseBody(l) \/ Skip(l)
-----------------------------------------------------------------------------
(***************************************************************************)
(* git diff.                                                               *)
(***************************************************************************)
\* A file that was modified, renamed, added or deleted; every name occurs once
\* per side.
PrintFile ==
    /\ git.at \in {"start", "header", "hunk"} /\ git.files < MaxFiles
    /\ \E old, new \in Names :
        /\ {old, new} # {"/dev/null"}
        /\ {<<old, "LEFT">>, <<new, "RIGHT">>} \cap git.seen = {}
        /\ git' = [at |-> "header", files |-> git.files + 1,
                   name |-> [s \in Sides |-> IF s = "LEFT" THEN old ELSE new],
                   line |-> [s \in Sides |-> 1],
                   seen |-> git.seen \cup ({<<old, "LEFT">>, <<new, "RIGHT">>}
                                              \ {<<"/dev/null", s>> : s \in Sides})]
    /\ Parse(Line("diff")) /\ UNCHANGED <<changed, splits>>

\* How git ends a name in the lines of the two sides.
Printed(name) == IF name = Spaced THEN Tabbed ELSE name

PrintOld ==
    /\ git.at = "header" /\ git' = [git EXCEPT !.at = "old"]
    /\ Parse([Line("---") EXCEPT !.name = Printed(git.name["LEFT"])])
    /\ UNCHANGED <<changed, splits>>

PrintNew ==
    /\ git.at = "old" /\ git' = [git EXCEPT !.at = "new"]
    /\ Parse([Line("+++") EXCEPT !.name = Printed(git.name["RIGHT"])])
    /\ UNCHANGED <<changed, splits>>

Exists(side) == git.name[side] # "/dev/null"

\* A hunk begins with the file or after lines that are not printed; a side that
\* does not exist begins at line 0.
PrintHunk ==
    /\ git.at \in {"new", "hunk"}
    /\ \E skip \in (IF git.at = "new" THEN 0 ELSE 1) .. MaxLine :
        LET line == [s \in Sides |-> IF Exists(s) THEN git.line[s] + skip ELSE 0] IN
        /\ skip > 0 => \A s \in Sides : Exists(s)
        /\ \A s \in Sides : line[s] <= MaxLine
        /\ git' = [git EXCEPT !.at = "hunk", !.line = line]
        /\ Parse([Line("@@") EXCEPT !.line = line])
    /\ UNCHANGED <<changed, splits>>

\* A changed line; its text may make it look like a name.
PrintChange(side, shapes) ==
    /\ git.at = "hunk" /\ Exists(side) /\ git.line[side] <= MaxLine
    /\ Cardinality(changed) < MaxChanges
    /\ changed' = changed \cup {<<git.name[side], side, git.line[side]>>}
    /\ git' = [git EXCEPT !.line[side] = @ + 1]
    /\ \E shape \in shapes : Parse(Line(shape))
    /\ UNCHANGED splits

PrintContext ==
    /\ git.at = "hunk" /\ \A s \in Sides : Exists(s) /\ git.line[s] <= MaxLine
    /\ git' = [git EXCEPT !.line = [s \in Sides |-> @[s] + 1]]
    /\ Parse(Line(" "))
    /\ UNCHANGED <<changed, splits>>

\* The rest of a line that splitlines has cut begins in whatever way.
SplitLine ==
    /\ git.at = "hunk" /\ splits < MaxSplits /\ splits' = splits + 1
    /\ \E shape \in {"diff", "---", "+++", "@@", "-", "+", " ", "other"} : Parse(Line(shape))
    /\ UNCHANGED <<git, changed>>

DiffNext ==
    \/ PrintFile \/ PrintOld \/ PrintNew \/ PrintHunk \/ PrintContext \/ SplitLine
    \/ PrintChange("LEFT", {"-", "---"}) \/ PrintChange("RIGHT", {"+", "+++"})
-----------------------------------------------------------------------------
Covered(rs) == UNION {rs[n][1] .. rs[n][2] : n \in DOMAIN rs}

\* The lines of a file that git has printed as changed.
LinesOf(f, s) == {n \in 1 .. MaxLine : <<f, s, n>> \in changed}

\* The ranges cover the changed lines of every file and side exactly, at least one
\* unchanged line lies between two of them (a finding that covers two ranges really
\* spans unchanged code), and the files, removed and added lines are counted exactly
\* as they are read; unless splitlines has cut a line of the diff. The ranges of a
\* file whose name has a space stand under that name with a tab: its own path has
\* none.
RangesAreChanges ==
    \/ splits > 0
    \/ /\ \A f \in Files, s \in Sides :
            LET rs == ranges[<<Printed(f), s>>] IN
            /\ Covered(rs) = LinesOf(f, s)
            /\ \A n \in 1 .. Len(rs) - 1 : rs[n][2] + 1 < rs[n + 1][1]
       /\ \A s \in Sides : ranges[<<Spaced, s>>] = <<>>
       /\ parser.files = git.files
       /\ parser.files > 0 => \A s \in Sides :
            parser.count[s] = Cardinality({c \in changed : c[2] = s})
=============================================================================
