------------------------------ MODULE CondSpec ------------------------------
(***************************************************************************)
(* What conditional compilation promises, independently of how the         *)
(* preprocessor stores it: a stack of #if groups.  A group waits for its   *)
(* first true condition, has its current branch selected, is done with the *)
(* branch it selected, or is dead because it opened inside skipped text.   *)
(* A line of text is emitted exactly when every open group is selected.    *)
(***************************************************************************)
EXTENDS Naturals, Sequences

CONSTANT MaxNesting   \* bound on the number of #if groups open at once

VARIABLES
  line,     \* the line read last: its kind and, for #if and #elif, the truth
            \* of its condition with every macro expanded
  groups,   \* the open #if groups, innermost last
  report    \* what that line produced: text, a diagnostic or nothing

vars == <<line, groups, report>>

Kinds == {"open", "if", "elif", "else", "endif", "text", "eof"}
Lines == [kind : Kinds, value : BOOLEAN]

GroupStates == {"waiting", "selected", "done", "dead"}
Groups      == [state : GroupStates, afterElse : BOOLEAN]
Reports     == {"none", "text", "withoutIf", "afterElse", "unterminated"}

TypeOK ==
  /\ line \in Lines
  /\ groups \in Seq(Groups)
  /\ report \in Reports

Emitting == \A i \in DOMAIN groups : groups[i].state = "selected"

Reads(kind, value) ==
  /\ (line.kind = "eof") <=> (kind = "open")
  /\ line' = [kind |-> kind, value |-> value]

Init ==
  /\ line = [kind |-> "eof", value |-> TRUE]
  /\ groups = <<>>
  /\ report = "none"

OpenFile ==
  /\ Reads("open", TRUE)
  /\ groups' = <<>>
  /\ report' = "none"

If(v) ==
  /\ Reads("if", v)
  /\ Len(groups) < MaxNesting
  /\ groups' = Append(groups,
       [state     |-> IF ~Emitting THEN "dead" ELSE IF v THEN "selected" ELSE "waiting",
        afterElse |-> FALSE])
  /\ report' = "none"

\* The state of a group once a further branch with condition v begins.
Advance(state, v) ==
  CASE state = "dead"                  -> "dead"
    [] state = "waiting"               -> IF v THEN "selected" ELSE "waiting"
    [] state \in {"selected", "done"}  -> "done"

Branch(v, isElse) ==
  \/ /\ groups = <<>>
     /\ report' = "withoutIf"
     /\ UNCHANGED groups
  \/ /\ groups # <<>>
     /\ LET g == groups[Len(groups)]
        IN /\ groups' = [groups EXCEPT ![Len(groups)] =
                [state     |-> Advance(g.state, v),
                 afterElse |-> g.state # "dead" /\ isElse]]
           /\ report' = IF g.afterElse THEN "afterElse" ELSE "none"

Elif(v) == Reads("elif", v) /\ Branch(v, FALSE)
Else    == Reads("else", TRUE) /\ Branch(TRUE, TRUE)

Endif ==
  /\ Reads("endif", TRUE)
  /\ \/ /\ groups = <<>>
        /\ report' = "withoutIf"
        /\ UNCHANGED groups
     \/ /\ groups # <<>>
        /\ groups' = SubSeq(groups, 1, Len(groups) - 1)
        /\ report' = "none"

Text ==
  /\ Reads("text", TRUE)
  /\ report' = IF Emitting THEN "text" ELSE "none"
  /\ UNCHANGED groups

EndOfFile ==
  /\ Reads("eof", TRUE)
  /\ report' = IF groups # <<>> THEN "unterminated" ELSE "none"
  /\ UNCHANGED groups

Next ==
  \/ OpenFile
  \/ \E v \in BOOLEAN : If(v) \/ Elif(v)
  \/ Else
  \/ Endif
  \/ Text
  \/ EndOfFile

Spec == Init /\ [][Next]_vars
=============================================================================
