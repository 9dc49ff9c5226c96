------------------------------ MODULE MCLexer ------------------------------
(***************************************************************************)
(* Lexer on every short text over a few characters each: numbers,          *)
(* comments, strings, operators and words; with the lexical grammar that   *)
(* the tokens are checked against.                                         *)
(***************************************************************************)
EXTENDS Lexer, TLC

UpTo(n, S) == UNION {[1 .. k -> S] : k \in 0 .. n}

MCTexts ==
  UpTo(6, {"0", "x", "e", ".", "+"}) \cup UpTo(4, {"0", "x", "p", "1", "-"})
    \cup UpTo(6, {"/", "*", "a", NL, "\\"})
    \cup UpTo(6, {"\"", "\\", "a", NL})
    \cup UpTo(4, {"<", ">", "=", "+"}) \cup UpTo(3, {"-", "&", "|", "=", "!", "[", "]", "%"})
    \cup UpTo(5, {"o", "r", "1", " ", "("}) \cup UpTo(3, {"#", ".", "*", "^", "@", "5", " "})

MCKeywords == (<<"o", "r">> :> "|") @@ (<<"n", "o">> :> "no")

-----------------------------------------------------------------------------
(* The lexical grammar. *)

Over(S, s) == \A k \in DOMAIN s : s[k] \in S

Symbols ==
  {"#", "##", ";", ",", ".", "(", ")", "[", "]", "[[", "]]", "{", "}", "=", "==", "!=", ">", ">=",
   "<", "<=", "++", "--", "+", "-", "*", "/", "%", "&", "|", "^", "!", "?", ":", "~", "&&", "||",
   "<<", ">>", "+=", "-=", "*=", "/=", "%=", "&=", "|=", "^=", "<<=", ">>=", "...", "\\"}

RECURSIVE Spelled(_)
Spelled(s) == IF s = <<>> THEN "" ELSE s[1] \o Spelled(Tail(s))

\* digits [ . digits ] [ e [sign] digits ], of which digits may be missing but the
\* first.  Only a point makes a float: has_exp (lexer.c:132) is never set.
IsNumber(s, first, digits, exp, isFloat) ==
  \E m \in first .. Len(s) : \E d \in m .. Len(s) :
    /\ Over(digits, SubSeq(s, 1, m))
    /\ \/ d = m
       \/ d > m /\ s[m + 1] = "." /\ Over(digits, SubSeq(s, m + 2, d))
    /\ \/ d = Len(s)
       \/ /\ d < Len(s) /\ s[d + 1] = exp
          /\ \/ Over(Digits, SubSeq(s, d + 2, Len(s)))
             \/ /\ d + 2 <= Len(s) /\ s[d + 2] \in {"+", "-"}
                /\ Over(Digits, SubSeq(s, d + 3, Len(s)))
    /\ isFloat = (d > m)

IsLiteral(s, isFloat) ==
  \/ s # <<>> /\ s[1] \in Digits /\ IsNumber(s, 1, Digits, "e", isFloat)
  \/ /\ Len(s) >= 2 /\ s[1] = "0" /\ s[2] = "x"
     /\ IsNumber(SubSeq(s, 3, Len(s)), 0, HexDigits, "p", isFloat)

\* A quote inside a string is after a backslash, and nothing else may end one.
IsString(s) ==
  /\ Len(s) >= 2 /\ s[1] = "\"" /\ s[Len(s)] = "\"" /\ (Len(s) > 2 => s[Len(s) - 1] # "\\")
  /\ \A k \in 2 .. Len(s) - 1 : s[k] # NL /\ (s[k] = "\"" => k > 2 /\ s[k - 1] = "\\")

IsWord(s) == s # <<>> /\ s[1] \in Letters /\ Over(WordChars, s)

Tags(s) ==
  {t \in {"newline"} : s = <<NL>>}
    \cup {t \in {Spelled(s)} : t \in Symbols}
    \cup {t \in {"int"} : IsLiteral(s, FALSE)} \cup {t \in {"float"} : IsLiteral(s, TRUE)}
    \cup {t \in {"string"} : IsString(s)}
    \cup {t \in {"ident"} : IsWord(s) /\ s \notin DOMAIN MCKeywords}
    \cup {MCKeywords[w] : w \in {s} \cap DOMAIN MCKeywords}

Errors == {"invalid", "unterminated string"}

\* Every token is the longest lexeme that begins where it begins, with the tag of
\* that lexeme; an error is returned only where none begins, and a comment is
\* unterminated only if nothing after it ends it (lexer_advance).
LongestLexeme ==
  Done =>
    \A k \in 1 .. Len(tokens) - 1 :
      LET t == tokens[k]
          lexemes == {e \in t.first + 1 .. Len(text) + 1 : Tags(Contents(t.first, e)) # {}}
      IN  CASE t.tag \in Errors -> lexemes = {}
            [] t.tag = "unterminated comment" ->
                 /\ Contents(t.first, t.first + 2) = <<"/", "*">> /\ t.end = Len(text) + 1
                 /\ ~\E j \in t.first + 2 .. Len(text) : At(j) = "*" /\ At(j + 1) = "/"
            [] OTHER -> /\ t.tag \in Tags(Contents(t.first, t.end))
                        /\ \A e \in lexemes : e <= t.end

\* What may be between two tokens.
RECURSIVE IsSpace(_, _)
IsSpace(a, b) ==
  \/ a = b
  \/ a < b /\ At(a) = " " /\ IsSpace(a + 1, b)
  \/ a + 1 < b /\ At(a) = "\\" /\ At(a + 1) = NL /\ IsSpace(a + 2, b)
  \/ /\ a + 1 < b /\ At(a) = "/" /\ At(a + 1) = "/"
     /\ \E e \in a + 2 .. b : /\ e = Len(text) + 1 \/ At(e) = NL
                              /\ NL \notin {text[k] : k \in a .. e - 1}
                              /\ IsSpace(e, b)
  \/ /\ a + 3 < b /\ At(a) = "/" /\ At(a + 1) = "*"
     /\ \E e \in a + 4 .. b : /\ At(e - 2) = "*" /\ At(e - 1) = "/"
                              /\ \A k \in a + 2 .. e - 3 : ~(At(k) = "*" /\ At(k + 1) = "/")
                              /\ IsSpace(e, b)

\* A point before a digit belongs to no token.
PointBefore(t) == t.tag \in {"int", "float"} /\ t.first > 1 /\ At(t.first - 1) = "."

\* Every character is in one token, or in a space, a comment or a join before it.
\* Every token tells the line and column of its first character, whether it is the
\* first of its line and whether there is a space before it, on which the
\* preprocessor decides what is a directive and what a macro with parameters.
EveryCharacterOnce ==
  Done =>
    \A k \in DOMAIN tokens :
      LET t == tokens[k]
          previous == IF k = 1 THEN 1 ELSE tokens[k - 1].end
          first == IF PointBefore(t) /\ previous < t.first THEN t.first - 1 ELSE t.first
          newlines == {j \in 1 .. t.first - 1 : text[j] = NL}
      IN  /\ previous <= t.first /\ t.first <= t.end
          /\ IsSpace(previous, first)
          /\ t.row = 1 + Cardinality(newlines)
          /\ t.col = t.first - (IF newlines = {} THEN 0 ELSE Max(newlines))
          /\ t.onNewLine <=> (k = 1 \/ tokens[k - 1].tag = "newline")
          /\ t.tag \notin {"newline", "eof"} => (t.hasSpaceBefore <=> At(first - 1) \in Spaces)
=============================================================================
