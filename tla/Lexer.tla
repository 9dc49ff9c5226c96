------------------------------- MODULE Lexer -------------------------------
(***************************************************************************)
(* The lexer (lexer.c): lexer_advance skips spaces, comments and joined    *)
(* lines and returns the token that begins after them.  Every action is    *)
(* one turn of its loop.  A text is a sequence of characters; positions    *)
(* count from 1.                                                           *)
(***************************************************************************)
EXTENDS Naturals, Sequences, FiniteSetsExt

CONSTANTS
  Texts,     \* the file contents that are lexed
  Keywords   \* find_keyword, a function from the words of the language to their tags

VARIABLES
  text,            \* file_data
  pos,             \* pos.bytes_read, from 1
  row, col,        \* pos.source_pos
  onNewLine,       \* on_new_line
  hasSpaceBefore,  \* has_space_before
  tokens           \* the tokens returned so far

vars == <<text, pos, row, col, onNewLine, hasSpaceBefore, tokens>>

Nul == "nul"    \* ends every file in memory
NL  == "\n"

Spaces    == {" "}
Digits    == {"0", "1", "5"}
HexDigits == Digits \cup {"a", "e"}
Letters   == {"a", "d", "e", "n", "o", "p", "r", "x", "_"}
WordChars == Letters \cup Digits
Brackets  == {"(", ")", "{", "}", ";", ",", "~", "?", ":"}
Operators == {"!", "=", ">", "<", "+", "-", "*", "/", "%", "&", "|", "^", "#", "[", "]", "\\"}

-----------------------------------------------------------------------------
(* Reading ahead. *)

\* next_char; the byte after the last one may be read.
At(k) == IF k \in DOMAIN text THEN text[k] ELSE Nul

\* The end of the characters from k on that are in S, and of those that are not.
EndOf(S, k)   == Min({j \in k .. Len(text) + 1 : At(j) \notin S})
EndBefore(S, k) == Min({j \in k .. Len(text) + 1 : At(j) \in S \/ j = Len(text) + 1})

Contents(a, b) == SubSeq(text, a, b - 1)

\* Slip: the operators that shift and assign are forgotten.
ExtensionsWithoutShifts(op) ==
  CASE op \in {"!", "=", "*", "/", "%", "^"} -> {"="}
    [] op \in {"+", "-", "&", "|", ">", "<"} -> {op, "="}
    [] op \in {"#", "[", "]"}                -> {op}
    [] OTHER                                 -> {}

\* What may extend an operator, one character at a time.
Extensions(op) ==
  CASE op \in {"!", "=", "*", "/", "%", "^", ">>", "<<"} -> {"="}
    [] op \in {"+", "-", "&", "|", ">", "<"}             -> {op, "="}
    [] op \in {"#", "[", "]"}                            -> {op}
    [] OTHER                                             -> {}

RECURSIVE Operator(_, _)
Operator(op, k) ==
  IF At(k) \in Extensions(op) THEN Operator(op \o At(k), k + 1) ELSE [tag |-> op, end |-> k]

\* parse_literal, from k on
Literal(k) ==
  LET isHex  == At(k) = "0" /\ At(k + 1) = "x"
      digits == IF isHex THEN HexDigits ELSE Digits
      whole  == EndOf(digits, IF isHex THEN k + 2 ELSE k)
      hasDot == At(whole) = "."
      dec    == IF hasDot THEN EndOf(digits, whole + 1) ELSE whole
      hasExp == At(dec) = IF isHex THEN "p" ELSE "e"
      signed == IF At(dec + 1) \in {"+", "-"} THEN dec + 2 ELSE dec + 1
  IN  [tag |-> IF hasDot THEN "float" ELSE "int",   \* has_exp is never set
       end |-> IF hasExp THEN EndOf(Digits, signed) ELSE dec]

\* The quotes that end the string that begins at k: not after a backslash, and on
\* the same line.
ClosingQuotes(k) ==
  {j \in k + 1 .. EndBefore({NL}, k + 1) - 1 :
     At(j) = "\"" /\ ~(j - 1 > k /\ At(j - 1) = "\\")}

\* The stars that end the comment that begins at k.
ClosingStars(k) == {j \in k + 2 .. Len(text) : At(j) = "*" /\ At(j + 1) = "/"}

-----------------------------------------------------------------------------
(* The turns of the loop. *)

Done == tokens # <<>> /\ tokens[Len(tokens)].tag = "eof"

\* eat_spaces
Begin == EndOf(Spaces, pos)

\* eat_char, up to k
Eat(k) ==
  LET newlines == {j \in pos .. k - 1 : At(j) = NL} IN
    /\ pos' = k
    /\ row' = row + Cardinality(newlines)
    /\ col' = IF newlines = {} THEN col + (k - pos) ELSE k - Max(newlines)
    /\ hasSpaceBefore' = (Begin > pos)
    /\ UNCHANGED text

\* make_token
Return(tag, first, end) ==
  /\ Eat(end)
  /\ tokens' = Append(tokens, [tag |-> tag, first |-> first, end |-> end,
                               row |-> row, col |-> col + (first - pos),
                               onNewLine |-> onNewLine, hasSpaceBefore |-> Begin > pos])
  /\ onNewLine' = (tag = "newline")

Skip(end) == Eat(end) /\ UNCHANGED <<onNewLine, tokens>>

Starts(chars) == ~Done /\ At(Begin) \in chars

EndOfFile == ~Done /\ Begin > Len(text) /\ Return("eof", Begin, Begin)

Newline == Starts({NL}) /\ Return("newline", Begin, Begin + 1)

Bracket == Starts(Brackets) /\ Return(At(Begin), Begin, Begin + 1)

\* A backslash at the end of a line joins it with the next one.
Join == Starts({"\\"}) /\ At(Begin + 1) = NL /\ Skip(Begin + 2)

\* Slip: a comment takes the end of its line with it.
AfterNewline(k) == Min({EndBefore({NL}, k) + 1, Len(text) + 1})

LineCommentEnd(k) == EndBefore({NL}, k)

LineComment == Starts({"/"}) /\ At(Begin + 1) = "/" /\ Skip(LineCommentEnd(Begin + 2))

BlockComment ==
  /\ Starts({"/"}) /\ At(Begin + 1) = "*" /\ ClosingStars(Begin) # {}
  /\ Skip(Min(ClosingStars(Begin)) + 2)

UnterminatedComment ==
  /\ Starts({"/"}) /\ At(Begin + 1) = "*" /\ ClosingStars(Begin) = {}
  /\ Return("unterminated comment", Begin, Len(text) + 1)

OperatorToken ==
  /\ Starts(Operators)
  /\ At(Begin) = "\\" => At(Begin + 1) # NL
  /\ At(Begin) = "/" => At(Begin + 1) \notin {"/", "*"}
  /\ LET op == Operator(At(Begin), Begin + 1) IN Return(op.tag, Begin, op.end)

\* A literal that begins with a point is read from the digit after it.
PointLiteral ==
  /\ Starts({"."}) /\ At(Begin + 1) \in Digits
  /\ LET lit == Literal(Begin + 1) IN Return(lit.tag, Begin + 1, lit.end)

Dots ==
  /\ Starts({"."}) /\ At(Begin + 1) \notin Digits
  /\ IF At(Begin + 1) = "." /\ At(Begin + 2) = "."
     THEN Return("...", Begin, Begin + 3)
     ELSE Return(".", Begin, Begin + 1)

NumberLiteral ==
  /\ Starts(Digits)
  /\ LET lit == Literal(Begin) IN Return(lit.tag, Begin, lit.end)

StringLiteral ==
  /\ Starts({"\""})
  /\ IF ClosingQuotes(Begin) # {}
     THEN Return("string", Begin, Min(ClosingQuotes(Begin)) + 1)
     ELSE Return("unterminated string", Begin, EndBefore({NL}, Begin + 1))

Word ==
  /\ Starts(Letters)
  /\ LET end == EndOf(WordChars, Begin)
         word == Contents(Begin, end)
     IN  Return(IF word \in DOMAIN Keywords THEN Keywords[word] ELSE "ident", Begin, end)

Invalid ==
  /\ ~Done /\ Begin <= Len(text)
  /\ At(Begin) \notin {NL, ".", "\""} \cup Brackets \cup Operators \cup WordChars
  /\ Return("invalid", Begin, Begin + 1)

Init ==
  /\ text \in Texts
  /\ pos = 1 /\ row = 1 /\ col = 1
  /\ onNewLine = TRUE /\ hasSpaceBefore = FALSE
  /\ tokens = <<>>

Next ==
  \/ EndOfFile \/ Newline \/ Bracket \/ Join \/ LineComment \/ BlockComment
  \/ UnterminatedComment \/ OperatorToken \/ PointLiteral \/ Dots \/ NumberLiteral
  \/ StringLiteral \/ Word \/ Invalid
  \/ Done /\ UNCHANGED vars

Spec == Init /\ [][Next]_vars
=============================================================================
