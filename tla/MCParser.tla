------------------------------ MODULE MCParser ------------------------------
(***************************************************************************)
(* Instances of Parser: every short string of tokens as an initialiser,    *)
(* operators in every order, and programs with one token missing, doubled  *)
(* or replaced.                                                            *)
(***************************************************************************)
EXTENDS Parser, SequencesExt

\* An expression as the initialiser of a global variable.
Global(e) == <<"type", "ident", "=">> \o e \o <<"semicolon">>

-----------------------------------------------------------------------------
(* The language of expressions over a few tokens, without an order of binding *)

Letters == {"ident", "-", "=", "(", ")", "[", "]"}
MaxExpr == 4

Strings1To(n) == UNION {[1..k -> Letters] : k \in 0..n}

\* Longer and longer sentences: e expressions, t those with no prefix or operator.
Grow(L) ==
    LET Within(S) == {s \in S : Len(s) <= MaxExpr}
        Wrapped(S) == {<<"(">> \o s \o <<")">> : s \in S}
    IN  [t |-> Within({<<"ident">>} \cup Wrapped(L.e)
                      \cup {a \o <<"[">> \o i \o <<"]">> : a \in L.t, i \in L.e}
                      \cup {a \o c : a \in L.t, c \in Wrapped(L.e) \cup {<<"(", ")">>}}),
         e |-> Within(L.t \cup {<<"-">> \o a : a \in L.t}
                      \cup {a \o <<op>> \o b : a \in L.e, b \in L.e, op \in {"-", "="}})]

Language[k \in 0..MaxExpr] ==
    IF k = 0 THEN [t |-> {}, e |-> {}] ELSE Grow(Language[k - 1])

Expressions == Language[MaxExpr].e

-----------------------------------------------------------------------------
(* Operators in every order *)

SomeOps == {"*", "-", "<", "&&", "||", "="}
\* At most a ternary operator among them.
Chains == {<<"ident", a, "ident", b, "ident", c, "ident">> :
              a \in SomeOps, b \in SomeOps, c \in SomeOps}
      \cup {<<"ident", a, "ident", "?", "ident", b, "ident", ":", "ident", c, "ident">> :
              a \in {"-", "||"}, b \in {"*", "="}, c \in {"-", "="}}
      \cup {<<"!", "ident", "^", "++", "ident", "++", "&", "ident", "<<", "ident", ".", "ident",
              "|", "ident", "[", "literal", "]">>}

-----------------------------------------------------------------------------
(* Programs: every construct of the language *)

StructProgram ==
    <<"struct", "ident", "lbrace", "type", "ident", "comma", "ident", "[", "literal", "]",
      "semicolon", "rbrace", "semicolon">>
ShaderProgram ==
    <<"attribute", "(", "(", "ident", "(", "literal", ")", ")", ")",
      "shader", "ident", "[[", "type", "ident", "=", "string", "string", "]]",
      "(", "output", "ident", "ident", "[", "]", "=", "lbrace", "bool", "rbrace",
      "[[", "type", "ident", "=", "literal", "]]", ")", "lbrace", "semicolon", "rbrace">>
FunctionProgram ==
    <<"closure", "type", "ident", "(", "output", "type", "ident", "comma", "...", ")", "lbrace",
      "return", "(", "type", ")", "ident", "*", "type", "(", "literal", ")", "semicolon", "rbrace">>
BranchProgram ==
    <<"type", "ident", "(", ")", "lbrace",
      "if", "(", "ident", ")", "while", "(", "ident", "comma", "ident", ")", "break", "semicolon",
      "else", "do", "continue", "semicolon", "while", "(", "ident", ")", "semicolon", "rbrace">>
LoopProgram ==
    <<"type", "ident", "(", ")", "lbrace",
      "for", "(", "type", "ident", "=", "literal", "semicolon", "ident", "semicolon",
      "ident", "++", ")",
      "for", "(", "ident", "op=", "ident", "semicolon", "semicolon", ")",
      "return", "semicolon", "rbrace">>
BlockProgram ==
    <<"ident", "ident", "(", "type", ")", "semicolon",
      "type", "ident", "(", ")", "lbrace",
      "ident", "ident", "comma", "ident", "=", "ident", "semicolon",
      "type", "ident", "(", ")", "lbrace",
      "for", "(", "semicolon", "ident", "semicolon", ")", "lbrace", "rbrace", "rbrace", "rbrace">>

Samples == {StructProgram, ShaderProgram, FunctionProgram, BranchProgram, LoopProgram,
            BlockProgram}

Without(p) == {RemoveAt(p, i) : i \in 1..Len(p)}
Doubled(p) == {InsertAt(p, i, p[i]) : i \in 1..Len(p)}
Replaced(p) == {[p EXCEPT ![i] = t] : i \in 1..Len(p), t \in {"semicolon", "ident"}}
Edited == UNION {Without(p) \cup Doubled(p) \cup Replaced(p) : p \in Samples}

-----------------------------------------------------------------------------
MCPrograms ==
    {Global(e) : e \in Strings1To(MaxExpr) \cup Chains} \cup Samples \cup Edited

Sentences == {Global(e) : e \in Expressions \cup Chains} \cup Samples

IsBracket(t) == \E b \in Brackets : t \in {b[1], b[2]}

\* Initialisers outside the language of expressions, and programs that lost
\* a bracket.
NonSentences ==
    {Global(e) : e \in Strings1To(MaxExpr) \ Expressions}
    \cup UNION {{RemoveAt(p, i) : i \in {j \in 1..Len(p) : IsBracket(p[j])}} : p \in Samples}

\* The parser accepts the language: a sentence of the grammar is parsed
\* without an error, and what is none is never accepted silently.
AcceptsTheLanguage ==
    stack = << >> => /\ tokens \in Sentences => errors = 0
                     /\ tokens \in NonSentences => errors > 0

=============================================================================
