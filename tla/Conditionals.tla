---------------------------- MODULE Conditionals ----------------------------
(***************************************************************************)
(* The conditional directives of one source file, as preprocessor.c keeps  *)
(* them: the is_active flag of the file's context and its cond_stack (the  *)
(* conditions opened while the text was active, and a count of the groups  *)
(* opened while it was skipped).  Each action is one whole line of the     *)
(* file: the directive's handler with its trailing eat_extra_tokens.       *)
(*                                                                         *)
(* A condition is reduced to what the handlers can tell apart: its value   *)
(* when macros are expanded, its value when they are not (expand_token     *)
(* expands nothing while the text is skipped), and whether its last token  *)
(* came out of a macro.  In that last case the exhausted token buffer is   *)
(* still the top context when the handler resumes, because contexts are    *)
(* popped by the next read only.                                           *)
(***************************************************************************)
EXTENDS Naturals, Sequences

CONSTANTS
  Conditions,   \* the conditions that #if and #elif lines may carry
  MaxNesting    \* bound on the number of #if groups open at once

ConditionRecords == [value : BOOLEAN, raw : BOOLEAN, endsInMacro : BOOLEAN]

ASSUME ConditionsAssumption == Conditions \subseteq ConditionRecords
ASSUME NestingAssumption == MaxNesting \in Nat

VARIABLES
  line,            \* the line read last: its kind and, for #if and #elif, the
                   \* truth of its condition with every macro expanded
  isActive,        \* context.is_active: the text is not being skipped
  conds,           \* cond_stack.conds
  inactiveDepth,   \* cond_stack.inactive_cond_depth
  report           \* what that line produced

vars == <<line, isActive, conds, inactiveDepth, report>>

Kinds   == {"open", "if", "elif", "else", "endif", "text", "eof"}
Lines   == [kind : Kinds, value : BOOLEAN]
Cond    == [wasActive : BOOLEAN, wasLastElse : BOOLEAN]
Reports == {"none", "text", "withoutIf", "afterElse", "unterminated"}

TypeOK ==
  /\ line \in Lines
  /\ isActive \in BOOLEAN
  /\ conds \in Seq(Cond)
  /\ inactiveDepth \in Nat
  /\ report \in Reports

Nesting  == Len(conds) + inactiveDepth
LastCond == conds[Len(conds)]

\* What parse_ident makes of the name in #ifdef and #elifdef: read unexpanded.
Plain(v) == [value |-> v, raw |-> v, endsInMacro |-> FALSE]

\* A file is read from its opening to its end, then the next one is opened.
Reads(kind, value) ==
  /\ (line.kind = "eof") <=> (kind = "open")
  /\ line' = [kind |-> kind, value |-> value]

Init ==
  /\ line = [kind |-> "eof", value |-> TRUE]
  /\ isActive = TRUE
  /\ conds = <<>>
  /\ inactiveDepth = 0
  /\ report = "none"

OpenFile ==
  /\ Reads("open", TRUE)
  /\ isActive' = TRUE
  /\ conds' = <<>>
  /\ inactiveDepth' = 0
  /\ report' = "none"

-----------------------------------------------------------------------------
\* Slip: the value of a nested condition replaces is_active without a check
\* that the text around it is active.
EnterIfUnguarded(c) ==
  /\ conds' = Append(conds, [wasActive |-> c.value, wasLastElse |-> FALSE])
  /\ isActive' = c.value
  /\ UNCHANGED inactiveDepth

\* enter_if.  When the condition ends in a macro, the push and the write to
\* is_active go to the exhausted token buffer, which eat_extra_tokens pops.
EnterIf(c) ==
  \/ /\ ~isActive
     /\ inactiveDepth' = inactiveDepth + 1
     /\ UNCHANGED <<isActive, conds>>
  \/ /\ isActive
     /\ ~c.endsInMacro
     /\ conds' = Append(conds, [wasActive |-> c.value, wasLastElse |-> FALSE])
     /\ isActive' = c.value
     /\ UNCHANGED inactiveDepth
  \/ /\ isActive
     /\ c.endsInMacro
     /\ UNCHANGED <<isActive, conds, inactiveDepth>>

IfLine(c) ==
  /\ Reads("if", c.value)
  /\ Nesting < MaxNesting
  /\ EnterIf(c)
  /\ report' = "none"

If    == \E c \in Conditions : IfLine(c)
Ifdef == \E v \in BOOLEAN : IfLine(Plain(v))   \* #ifdef and #ifndef

-----------------------------------------------------------------------------
\* Is the branch that begins here selected?  Macros are expanded only while
\* the text before it is active, and an earlier selected branch excludes it.
BranchSelected(c) ==
  /\ IF isActive THEN c.value ELSE c.raw
  /\ ~LastCond.wasActive

\* Slip: was_active keeps only the last branch.
UpdateForgetful(c, isElse) ==
  /\ conds' = [conds EXCEPT ![Len(conds)] =
                 [wasActive |-> BranchSelected(c), wasLastElse |-> isElse]]
  /\ isActive' = BranchSelected(c)

\* The assignments of enter_elif.  While the text is active a condition that
\* ends in a macro diverts the write to is_active to the token buffer.
UpdateLastCond(c, isElse) ==
  /\ conds' = [conds EXCEPT ![Len(conds)] =
                 [wasActive   |-> LastCond.wasActive \/ BranchSelected(c),
                  wasLastElse |-> isElse]]
  /\ isActive' = IF isActive /\ c.endsInMacro THEN isActive ELSE BranchSelected(c)

\* Slip: the #elif of a skipped group is taken for one of its enclosing group.
EnterElifUncounted(c, isElse) ==
  /\ UpdateLastCond(c, isElse)
  /\ report' = IF LastCond.wasLastElse THEN "afterElse" ELSE "none"

EnterElif(c, isElse) ==
  \/ /\ inactiveDepth > 0
     /\ report' = "none"
     /\ UNCHANGED <<isActive, conds>>
  \/ /\ inactiveDepth = 0
     /\ UpdateLastCond(c, isElse)
     /\ report' = IF LastCond.wasLastElse THEN "afterElse" ELSE "none"

\* Without an #if the rest of the line is not eaten: it is text, which is left out here.
BranchLine(c, isElse) ==
  /\ Reads(IF isElse THEN "else" ELSE "elif", c.value)
  /\ UNCHANGED inactiveDepth
  /\ \/ /\ conds = <<>>      \* error_on_empty_cond_stack
        /\ report' = "withoutIf"
        /\ UNCHANGED <<isActive, conds>>
     \/ /\ conds # <<>>
        /\ EnterElif(c, isElse)

Elif    == \E c \in Conditions : BranchLine(c, FALSE)
Elifdef == \E v \in BOOLEAN : BranchLine(Plain(v), FALSE)   \* and #elifndef
Else    == BranchLine(Plain(TRUE), TRUE)

-----------------------------------------------------------------------------
Endif ==
  /\ Reads("endif", TRUE)
  /\ \/ /\ inactiveDepth > 0
        /\ inactiveDepth' = inactiveDepth - 1
        /\ report' = "none"
        /\ UNCHANGED <<isActive, conds>>
     \/ /\ inactiveDepth = 0
        /\ conds = <<>>
        /\ report' = "withoutIf"
        /\ isActive' = TRUE
        /\ UNCHANGED <<conds, inactiveDepth>>
     \/ /\ inactiveDepth = 0
        /\ conds # <<>>
        /\ conds' = SubSeq(conds, 1, Len(conds) - 1)
        /\ report' = "none"
        /\ isActive' = TRUE
        /\ UNCHANGED inactiveDepth

\* A line of program text: preprocessor_advance drops its tokens when the
\* top context is not active.
Text ==
  /\ Reads("text", TRUE)
  /\ report' = IF isActive THEN "text" ELSE "none"
  /\ UNCHANGED <<isActive, conds, inactiveDepth>>

\* pop_context on the file.
EndOfFile ==
  /\ Reads("eof", TRUE)
  /\ report' = IF conds # <<>> THEN "unterminated" ELSE "none"
  /\ UNCHANGED <<isActive, conds, inactiveDepth>>

Next ==
  \/ OpenFile
  \/ If
  \/ Ifdef
  \/ Elif
  \/ Elifdef
  \/ Else
  \/ Endif
  \/ Text
  \/ EndOfFile

Spec == Init /\ [][Next]_vars

-----------------------------------------------------------------------------
(* Properties *)

\* Skipped text always has an open condition that ended the text before it,
\* so some #else or #endif can still turn the text on again: is_active and
\* the condition stack, which the handlers write separately, agree.
SkippingHasACause == ~isActive => conds # <<>>

\* Conditions are counted instead of stacked only while the text is skipped:
\* the #endif that the counter absorbs never belongs to a stacked condition.
CountedOnlyWhileSkipping == inactiveDepth > 0 => ~isActive

\* All conditions but the innermost are in their selected branch, and so is
\* the innermost one while the text is active: an #elif or #else of theirs
\* cannot select a second branch, and setting is_active to TRUE at an #endif
\* is right whatever it was when the group was opened.
OuterBranchesSelected ==
  /\ \A i \in 1 .. Len(conds) - 1 : conds[i].wasActive
  /\ isActive /\ conds # <<>> => LastCond.wasActive

IInv ==
  /\ TypeOK
  /\ SkippingHasACause
  /\ CountedOnlyWhileSkipping
  /\ OuterBranchesSelected

\* An #if in text that is not skipped, and an #elif of a group that has not
\* selected a branch yet, begin a branch that is emitted exactly when its
\* condition holds ("#elif 0 executed!" is an error in the tests).  It holds
\* only of conditions without macros.
BranchesFollowConditions ==
  [][\/ line'.kind = "if" /\ isActive
     \/ line'.kind = "elif" /\ inactiveDepth = 0 /\ conds # <<>> /\ ~LastCond.wasActive
     => isActive' = line'.value]_vars

\* Between an #if in skipped text and its #endif nothing that the file says
\* has an effect on the conditions around it or on the text.
SkippedGroupsAreOpaque ==
  [][inactiveDepth > 0 /\ inactiveDepth' > 0 => UNCHANGED <<isActive, conds>>]_vars

-----------------------------------------------------------------------------
(* The promise: the flag, the stack and the counter are a stack of groups. *)

\* The innermost stacked condition is selected, waiting or done; those around
\* it are selected; the counted ones are dead.
GroupState(i) ==
  CASE i > Len(conds)                                       -> "dead"
    [] i < Len(conds) \/ (i = Len(conds) /\ isActive)       -> "selected"
    [] i = Len(conds) /\ ~isActive /\ conds[i].wasActive    -> "done"
    [] i = Len(conds) /\ ~isActive /\ ~conds[i].wasActive   -> "waiting"

groups ==
  [i \in 1 .. Nesting |->
     [state     |-> GroupState(i),
      afterElse |-> i <= Len(conds) /\ conds[i].wasLastElse]]

Abstract == INSTANCE CondSpec

\* The file's conditional state behaves as a stack of groups in which the
\* first branch whose condition holds is emitted and no other: the promise
\* that #if, #ifdef, #elif, #else and #endif keep for all text.
ImplementsCondSpec == Abstract!Spec
=============================================================================
