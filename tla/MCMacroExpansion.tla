-------------------------- MODULE MCMacroExpansion --------------------------
(* Small macro tables and files for MacroExpansion. *)
EXTENDS MacroExpansion, SequencesExt

Names == 1 .. 3

ObjectLike(body) ==
  [isDefined |-> TRUE, hasParams |-> FALSE, isVariadic |-> FALSE, isCallback |-> FALSE,
   paramCount |-> 0, tokens |-> body]
FunctionLike(params, body) ==
  [ObjectLike(body) EXCEPT !.hasParams = TRUE, !.paramCount = params]
Variadic(params, body) == [FunctionLike(params, body) EXCEPT !.isVariadic = TRUE]
Callback == [ObjectLike(<<Tag("other")>>) EXCEPT !.isCallback = TRUE]

\* A macro that no text below names.
Spare == FunctionLike(0, <<>>)

LParen == Tag("lparen")
RParen == Tag("rparen")
Comma  == Tag("comma")
Concat == Tag("concat")
Hash   == Tag("hash")
Other  == Tag("other")

\* The sequences of at most n of the pieces, joined.
FilesOf(pieces, n) ==
  {FlattenSeq(s) : s \in UNION {[1 .. k -> pieces] : k \in 0 .. n}}

-----------------------------------------------------------------------------
(* Calls: macros that call each other, take empty arguments, paste, stringify. *)

CallTables ==
  { <<FunctionLike(1, <<Param(1), Ident(1)>>), FunctionLike(1, <<Ident(1), Param(1)>>), Spare>>,
    <<FunctionLike(2, <<Param(2), Ident(1), LParen, Param(1), RParen>>), ObjectLike(<<Ident(1)>>), Spare>>,
    <<Variadic(1, <<Param(2), Concat, Param(1), Param(1)>>), ObjectLike(<<Ident(2), Ident(1)>>), Spare>>,
    <<FunctionLike(1, <<Hash, Param(1), Param(1), Param(1)>>), Callback, Spare>>,
    <<Variadic(0, <<Ident(2), Param(1)>>), FunctionLike(1, <<>>), Spare>> }

(* Directives between calls and inside them. *)

EditTables ==
  { <<FunctionLike(1, <<Param(1), Ident(2)>>), ObjectLike(<<Ident(1), Ident(2)>>), Spare>>,
    <<ObjectLike(<<Ident(2)>>), Undefined, Spare>> }

(* A macro that leaves a call open, and so an argument too. *)

OpenTables == { <<FunctionLike(1, <<Param(1)>>), ObjectLike(<<Ident(1), LParen>>), Spare>> }

CallOrEditTables == CallTables \cup EditTables \cup OpenTables

CallOrEditFiles ==
  FilesOf({<<Ident(1)>>, <<Ident(2)>>, <<LParen>>, <<RParen>>, <<Comma>>}, 5)
    \cup FilesOf({<<Ident(1)>>, <<LParen>>, <<RParen>>, <<Tag("include")>>,
                  <<Tag("define"), Ident(2)>>, <<Tag("undef"), Ident(1)>>}, 4)

Included == <<Ident(2), Tag("define"), Ident(1), Ident(1), LParen>>

Redefined == <<ObjectLike(<<Ident(2), Ident(1)>>), FunctionLike(1, <<Ident(1)>>), Spare>>

\* How many parentheses the text leaves open.
Opens(toks) == FoldLeft(LAMBDA d, t : d + Weight(t), 0, toks)

\* The parentheses of every macro's body match.
MacrosMatch ==
  \A m \in MacroNames :
    macros[m].isDefined =>
      LET body == macros[m].tokens
      IN Opens(body) = 0 /\ \A i \in DOMAIN body : Opens(SubSeq(body, 1, i)) >= 0

\* While the parentheses of every macro's body match, no call takes the marker that
\* ends the argument in which it stands, whatever the file holds (parse_macro_args,
\* line 433); OpenTables has macros of which calls do.
MatchedArgumentsEnd == MacrosMatch => ArgumentsEnd

-----------------------------------------------------------------------------
(* Object-like macros: the meaning of a text under a table, macros nested in *)
(* their own expansion left alone.                                           *)

RECURSIVE Expansion(_, _)
Expansion(toks, hidden) ==
  IF toks = <<>> THEN <<>>
  ELSE LET t == Head(toks)
           rest == Expansion(Tail(toks), hidden)
       IN IF t.tag = "ident" /\ t.val \in MacroNames \ hidden /\ macros[t.val].isDefined
          THEN Expansion(macros[t.val].tokens, hidden \cup {t.val}) \o rest
          ELSE <<t>> \o rest

\* The macros whose expansion holds the text of contexts[i].
Holding(i) == {contexts[j].macro : j \in 1 .. i} \ {NoMacro}

\* What the body being substituted will still give.
Called ==
  IF frames = <<>> THEN <<>>
  ELSE Expansion(Top.result \o SubSeq(Def.tokens, Top.pos, Len(Def.tokens)),
                 Holding(Len(contexts)) \cup {Top.macro})

\* Output so far and output to come.
Meaning ==
  LET unread == [k \in DOMAIN contexts |->
                   LET i == Len(contexts) + 1 - k IN Expansion(contexts[i].toks, Holding(i))]
  IN output \o Called \o FlattenSeq(unread)

OnlyObjectLike == \A n \in MacroNames : macros[n].isDefined => ~macros[n].hasParams

\* Each step of the expander takes the next part of the same expansion: none is
\* lost, doubled, reordered or expanded further (expand_token, push_context,
\* pop_context).
ExpandsAsDefined == [][OnlyObjectLike => Meaning' = Meaning]_vars

\* All tables of object-like macros with bodies of at most two names.
MeaningTables ==
  LET Body == BoundedSeq({Ident(n) : n \in Names}, 2)
  IN [Names -> {ObjectLike(b) : b \in Body} \cup {Undefined}]

AllPrograms ==
  CallOrEditTables \X CallOrEditFiles \cup MeaningTables \X {<<Ident(1), Ident(2), Ident(1)>>}
=============================================================================
