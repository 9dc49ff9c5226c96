--------------------------- MODULE MCConditionals ---------------------------
(***************************************************************************)
(* Conditionals over the conditions of real lines, and CondValue on the    *)
(* text of every small expression, against the expression's value in C.    *)
(***************************************************************************)
EXTENDS Conditionals, CondValue, FiniteSets

MCMacros == "ONE" :> <<"1">> @@ "ZERO" :> <<"0">> @@ "NEG" :> <<"(", "ZERO", "-", "ONE", ")">>

\* The line in skipped text, where expand_token takes every name for an identifier.
Unexpanded(ts) ==
  [k \in DOMAIN ts |->
     IF ts[k] \in DOMAIN Macros /\ ~(k > 1 /\ ts[k - 1] = "defined") THEN "X" ELSE ts[k]]

\* What Conditionals keeps of a line: the last token that the condition reads is
\* that of a macro's body if the line ends in a macro.
ConditionOf(ts) ==
  [value       |-> ParseCond(ts, TRUE).value # 0,
   raw         |-> ParseCond(Unexpanded(ts), TRUE).value # 0,
   endsInMacro |-> ts[Len(ts)] \in DOMAIN Macros]

\* Conditions that end in a token of the file and read the same with and
\* without macro expansion.
PlainConditions == {ConditionOf(ts) : ts \in {<<"1">>, <<"0">>, <<"2", "&&", "X">>}}

\* A lone macro, which is 0 in skipped text; and conditions that
\* mention one and end in a token of the file.
AllConditions ==
  PlainConditions \cup
    {ConditionOf(ts) : ts \in {<<"ONE">>, <<"ZERO">>, <<"ONE", "?", "0", ":", "1">>, <<"ONE", "&", "1">>}}

-----------------------------------------------------------------------------
(* Expressions, with the parentheses that C's grammar asks for. *)

Leaf(ts)       == [op |-> "leaf", text |-> ts, args |-> <<>>]
Node(op, args) == [op |-> op, text |-> <<>>, args |-> args]

Nodes1(ops, S)    == {Node(op, <<a>>) : op \in ops, a \in S}
Nodes2(ops, S, T) == {Node(op, <<a, b>>) : op \in ops, a \in S, b \in T}
Choices(S, T, U)  == {Node("?", <<a, b, c>>) : a \in S, b \in T, c \in U}

Operators == DOMAIN Precedence
Names     == {Leaf(<<"X">>), Leaf(<<"NEG">>), Leaf(<<"defined", "NEG">>), Leaf(<<"defined", "(", "X", ")">>)}
Digits    == {Leaf(<<"0">>), Leaf(<<"1">>), Leaf(<<"2">>)}
Bits01    == {Leaf(<<"0">>), Leaf(<<"1">>)}
Pairs     == Nodes2(Operators, Digits, Digits)
Lazy      == {"&&", "||", "/", "-"}
LazyPairs == Nodes2(Lazy, Bits01, Bits01)
LazyTrees == Nodes2(Lazy, LazyPairs, Bits01) \cup Nodes2(Lazy, Bits01, LazyPairs)

Trees ==
  Pairs \cup Nodes2(Operators, Pairs, Digits) \cup Nodes2(Operators, Digits, Pairs)
    \cup Nodes2(Operators, Names, Names) \cup Nodes1({"-", "~", "!", "+"}, Pairs \cup Names)
    \cup Nodes2(Operators, Nodes1({"-", "~", "!"}, Digits), Nodes1({"-", "!"}, Digits))
    \cup Nodes2(Lazy, LazyPairs, LazyPairs)
    \cup Nodes2(Lazy, LazyTrees, Bits01) \cup Nodes2(Lazy, Bits01, LazyTrees)
    \cup Choices(LazyPairs, Bits01, LazyPairs) \cup Choices(Bits01, LazyPairs, Bits01)
    \cup Choices(Choices(Bits01, Bits01, Bits01), Bits01, Choices(Bits01, Bits01, Bits01))
    \cup Nodes2(Lazy, Choices(Bits01, Bits01, Bits01), LazyPairs)

\* The operators by the levels of C's grammar (multiplicative-expression to
\* logical-OR-expression), which are one more than the table of ast.h has.
CLevels == <<{"*", "/", "%"}, {"+", "-"}, {"<<", ">>"}, {"<", "<=", ">", ">="}, {"==", "!="},
             {"&"}, {"^"}, {"|"}, {"&&"}, {"||"}>>

Level(t) ==
  CASE t.op = "?" -> Len(CLevels) + 1
    [] Len(t.args) = 2 -> CHOOSE k \in DOMAIN CLevels : t.op \in CLevels[k]
    [] OTHER -> 0

RECURSIVE TextOf(_)
Below(t, level) == IF Level(t) <= level THEN TextOf(t) ELSE <<"(">> \o TextOf(t) \o <<")">>
TextOf(t) ==
  CASE t.op = "leaf" -> t.text
    [] t.op = "?" -> Below(t.args[1], Len(CLevels)) \o <<"?">> \o TextOf(t.args[2])
                       \o <<":">> \o TextOf(t.args[3])
    [] Len(t.args) = 1 -> <<t.op>> \o Below(t.args[1], 0)
    [] OTHER -> Below(t.args[1], Level(t)) \o <<t.op>> \o Below(t.args[2], Level(t) - 1)

\* The value in C, and whether it is computed with a division by zero.
RECURSIVE ValueOf(_), Divides(_)
Decides(t) == \/ t.op = "&&" /\ ValueOf(t.args[1]) = 0
              \/ t.op = "||" /\ ValueOf(t.args[1]) # 0
ByZero(t)  == t.op \in {"/", "%"} /\ ValueOf(t.args[2]) = 0

ValueOf(t) ==
  CASE t.op = "leaf" -> CASE t.text = <<"NEG">> -> -1
                          [] t.text = <<"defined", "NEG">> -> 1
                          [] t.text \in {<<"X">>, <<"defined", "(", "X", ")">>} -> 0
                          [] OTHER -> Literals[t.text[1]]
    [] t.op = "?" -> ValueOf(t.args[IF ValueOf(t.args[1]) # 0 THEN 2 ELSE 3])
    [] Len(t.args) = 1 -> Unary(t.op, ValueOf(t.args[1]))
    [] OTHER -> Binary(t.op, ValueOf(t.args[1]), IF ByZero(t) THEN 1 ELSE ValueOf(t.args[2]))

Divides(t) ==
  CASE t.op = "leaf" -> FALSE
    [] t.op = "?" -> \/ Divides(t.args[1])
                     \/ Divides(t.args[IF ValueOf(t.args[1]) # 0 THEN 2 ELSE 3])
    [] Len(t.args) = 1 -> Divides(t.args[1])
    [] OTHER -> Divides(t.args[1]) \/ (~Decides(t) /\ Divides(t.args[2])) \/ ByZero(t)

\* A comparison as the right operand of == or !=, as in 1 == 2 < 2.  C needs no
\* parentheses there; ast.h has all six operators on one level (line 46), and the code
\* takes the text for (1 == 2) < 2.
RECURSIVE EqualsComparison(_)
EqualsComparison(t) ==
  \/ t.op \in CLevels[5] /\ t.args[2].op \in CLevels[4]
  \/ \E k \in DOMAIN t.args : EqualsComparison(t.args[k])

Misread ==
  {t \in {u \in Trees : ~EqualsComparison(u)} :
     LET result == ParseCond(TextOf(t), TRUE)
     IN  \/ result.rest # <<>>
         \/ result.errors # {e \in {"division"} : Divides(t)}
         \/ result.value # ValueOf(t)}

\* The condition of an #if in which no == or != has an unparenthesised comparison on its
\* right has the value that it has in C and is read to its end, and a division by
\* zero is reported exactly if C would compute it: parse_cond evaluates while it
\* parses, and must read the operands that C does not evaluate.
ConditionsHaveTheirValue == line.kind \in {"if", "elif"} => Misread = {}
=============================================================================
