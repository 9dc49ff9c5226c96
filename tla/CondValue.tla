------------------------------ MODULE CondValue ------------------------------
(***************************************************************************)
(* The value of an #if condition: parse_cond and the functions it calls    *)
(* (preprocessor.c), which parse and evaluate in one pass.  A function     *)
(* takes the tokens left on the line and returns the value, the tokens it  *)
(* has left and the errors logged.  Every operand is parsed, those that    *)
(* need no value with shouldEval false.                                    *)
(***************************************************************************)
EXTENDS Integers, Sequences, Bitwise, TLC

CONSTANTS
  IntBits,   \* the width of int
  Macros     \* the macros without parameters, a function from their names to
             \* bodies; none is in its own expansion

Wrap(x) == ((x + 2^(IntBits - 1)) % 2^IntBits) - 2^(IntBits - 1)

Literals == "0" :> 0 @@ "1" :> 1 @@ "2" :> 2 @@ "5" :> 5 @@ "true" :> 1 @@ "false" :> 0
Symbols  == {"(", ")", "?", ":", "~", "!", "++", "="}

Precedence ==
  "*" :> 1 @@ "/" :> 1 @@ "%" :> 1 @@ "+" :> 2 @@ "-" :> 2 @@ "<<" :> 3 @@ ">>" :> 3
    @@ "<" :> 4 @@ "<=" :> 4 @@ ">" :> 4 @@ ">=" :> 4 @@ "!=" :> 4 @@ "==" :> 4
    @@ "&" :> 5 @@ "^" :> 6 @@ "|" :> 7 @@ "&&" :> 8 @@ "||" :> 9

MaxPrecedence == 9

IsName(t) == t \notin DOMAIN Literals \cup Symbols \cup DOMAIN Precedence \cup {"nl"}

-----------------------------------------------------------------------------
(* Tokens: a peek does not expand macros, a primary condition does. *)

Peek(ts) == IF ts = <<>> THEN "nl" ELSE ts[1]
Rest(ts) == IF ts = <<>> THEN ts ELSE Tail(ts)

RECURSIVE Expanded(_)
Expanded(ts) ==
  IF Peek(ts) \in DOMAIN Macros THEN Expanded(Macros[Peek(ts)] \o Tail(ts)) ELSE ts

Result(value, rest, errors) == [value |-> value, rest |-> rest, errors |-> errors]

\* accept_token and expect_token after a result
Accepts(r, t) == Peek(r.rest) = t
Expect(r, t) ==
  IF Accepts(r, t) THEN [r EXCEPT !.rest = Tail(@)] ELSE [r EXCEPT !.errors = @ \cup {"syntax"}]

-----------------------------------------------------------------------------
(* Arithmetic on int.  Division truncates; a shift takes its count modulo  *)
(* the width, and the quotient that does not fit wraps, where the C code   *)
(* is undefined.                                                           *)

Truth(p)  == IF p THEN 1 ELSE 0
Abs(x)    == IF x < 0 THEN -x ELSE x
Sign(x)   == IF x < 0 THEN -1 ELSE 1
Quotient(a, b) == Sign(a) * Sign(b) * (Abs(a) \div Abs(b))
Bits(x)   == x % 2^IntBits
Count(x)  == x % IntBits

Unary(op, a) ==
  CASE op = "+" -> a
    [] op = "-" -> Wrap(-a)
    [] op = "~" -> -a - 1
    [] op = "!" -> Truth(a = 0)

Binary(op, a, b) ==
  CASE op = "*"  -> Wrap(a * b)
    [] op = "/"  -> Wrap(Quotient(a, b))
    [] op = "%"  -> a - (Quotient(a, b) * b)
    [] op = "+"  -> Wrap(a + b)
    [] op = "-"  -> Wrap(a - b)
    [] op = "<<" -> Wrap(a * 2^Count(b))
    [] op = ">>" -> a \div 2^Count(b)
    [] op = "<"  -> Truth(a < b)
    [] op = "<=" -> Truth(a <= b)
    [] op = ">"  -> Truth(a > b)
    [] op = ">=" -> Truth(a >= b)
    [] op = "!=" -> Truth(a # b)
    [] op = "==" -> Truth(a = b)
    [] op = "&"  -> Wrap(Bits(a) & Bits(b))
    [] op = "^"  -> Wrap(Bits(a) ^^ Bits(b))
    [] op = "|"  -> Wrap(Bits(a) | Bits(b))
    [] op = "&&" -> Truth(a # 0 /\ b # 0)
    [] op = "||" -> Truth(a # 0 \/ b # 0)

-----------------------------------------------------------------------------
RECURSIVE ParseCond(_, _), ParsePrefix(_, _), ParseBinary(_, _, _)

ParsePrimary(ts, shouldEval) ==
  LET tokens == Expanded(ts)
      first  == Peek(tokens)
      after  == Rest(tokens)
  IN  CASE first \in DOMAIN Literals -> Result(Wrap(Literals[first]), after, {})
        [] first = "(" -> Expect(ParseCond(after, shouldEval), ")")
        [] first = "defined" ->
             LET hasParen == Peek(after) = "("
                 named    == IF hasParen THEN Tail(after) ELSE after
                 isDefined == shouldEval /\ Peek(named) \in DOMAIN Macros
                 ident    == IF IsName(Peek(named))
                             THEN Result(Truth(isDefined), Tail(named), {})
                             ELSE Result(Truth(isDefined), named, {"syntax"})
             IN  IF hasParen THEN Expect(ident, ")") ELSE ident
        [] first # "defined" /\ IsName(first) -> Result(0, after, {})
        [] OTHER -> Result(0, after, {"syntax"})

ParsePrefix(ts, shouldEval) ==
  IF Peek(ts) \in {"+", "-", "~", "!"}
  THEN LET operand == ParsePrefix(Tail(ts), shouldEval)
       IN  IF shouldEval THEN [operand EXCEPT !.value = Unary(Peek(ts), @)] ELSE operand
  ELSE ParsePrimary(ts, shouldEval)

\* Slip: the right operand of && and || is evaluated whatever the left one is.
EvaluatesBoth(op, left, shouldEval) == shouldEval

EvaluatesRight(op, left, shouldEval) ==
  shouldEval /\ ~(op = "&&" /\ left = 0) /\ ~(op = "||" /\ left # 0)

\* A division by zero is logged and divides by one.
Combine(op, left, right, shouldEval) ==
  LET byZero  == shouldEval /\ op \in {"/", "%"} /\ right.value = 0
      divisor == IF byZero THEN 1 ELSE right.value
  IN  Result(IF shouldEval THEN Binary(op, left.value, divisor) ELSE left.value,
             right.rest,
             left.errors \cup right.errors \cup {e \in {"division"} : byZero})

ParseBinary(left, prec, shouldEval) ==
  LET op == Peek(left.rest) IN
  CASE op \notin DOMAIN Precedence -> left
    [] op \in DOMAIN Precedence /\ Precedence[op] > prec -> left
    [] op \in DOMAIN Precedence /\ Precedence[op] < prec ->
         ParseBinary(ParseBinary(left, Precedence[op], shouldEval), prec, shouldEval)
    [] op \in DOMAIN Precedence /\ Precedence[op] = prec ->
         LET evalRight == EvaluatesRight(op, left.value, shouldEval)
             operand   == ParsePrefix(Tail(left.rest), evalRight)
             right     == ParseBinary(operand, prec - 1, evalRight)
         IN  ParseBinary(Combine(op, left, right, shouldEval), prec, shouldEval)

\* parse_ternary_cond
ParseCond(ts, shouldEval) ==
  LET cond  == ParseBinary(ParsePrefix(ts, shouldEval), MaxPrecedence, shouldEval)
      holds == cond.value # 0
      then  == Expect(ParseCond(Tail(cond.rest), shouldEval /\ holds), ":")
      else  == ParseCond(then.rest, shouldEval /\ ~holds)
  IN  IF ~Accepts(cond, "?") THEN cond
      ELSE Result(IF holds THEN then.value ELSE else.value, else.rest,
                  cond.errors \cup then.errors \cup else.errors)
=============================================================================
