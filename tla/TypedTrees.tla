----------------------------- MODULE TypedTrees -----------------------------
(***************************************************************************)
(* What a tree with types means, apart from how check.c finds the types.   *)
(* In a typed tree every conversion is a cast, so a rule asks for equal    *)
(* types where the source may have types that convert.  The operands of an *)
(* overloaded operator are the exception: check.c leaves them as they are. *)
(***************************************************************************)
EXTENDS Expressions

RECURSIVE Within(_)
Within(node) == {node} \cup UNION {Within(node.args[k]) : k \in DOMAIN node.args}

AllNodes == UNION {Within(unit.expr[k]) : k \in DOMAIN unit.expr}

Uncast(node) == IF node.tag = "cast" /\ node.op = "implicit" THEN node.args[1] ELSE node

\* The operands of a call are what the function takes, or can become it.
Takes(f, nodes, Fits(_, _)) ==
  /\ Len(f.params) = Len(nodes) \/ (f.hasEllipsis /\ Len(f.params) < Len(nodes))
  /\ \A k \in DOMAIN f.params :
       /\ Fits(nodes[k].type, f.params[k].type)
       /\ f.params[k].isOutput => Mutable(Uncast(nodes[k]))
Same(s, t) == s = t

BinaryRule(op, l, r, type) ==
  \/ op \in ArithOps /\ l = r /\ type = l /\ (IsScalar(l) \/ IsTriple(l) \/ IsMatrix(l))
  \/ op = "*" /\ {l, r} = {ColorType, Closure(ColorType)} /\ type = Closure(ColorType)
  \/ op \in {"+", "-"} /\ l = r /\ type = l /\ IsClosureColor(l)
  \/ op \in BitOps /\ l = r /\ type = l /\ l \in {BoolType, IntType}
  \/ op \in IntOps /\ {l, r, type} = {IntType}
  \/ op \in CompareOps /\ l = r /\ type = BoolType

\* What holds of a node, given that it holds of the nodes below it.  The operands of an
\* overloaded operator, unlike the arguments of a call, need only convert: check_binary_expr
\* and check_unary_expr put no cast there.
Rule(node) ==
  LET t    == node.type
      T(k) == node.args[k].type
      op   == node.op
      Uses(nodes) == node.callee # NoFunction /\ Takes(node.callee, nodes, Converts) /\ t = node.callee.ret
  IN  CASE node.tag = "lit"    -> t = LiteralTypes[op]
        [] node.tag = "ident"  -> op \in DOMAIN Variables /\ t = Variables[op].type
        [] node.tag = "paren"  -> t = T(1)
        [] node.tag = "assign" -> T(1) = T(2) /\ t = T(1) /\ Mutable(node.args[1])
        [] node.tag = "logic"  -> {T(1), T(2), t} = {BoolType}
        [] node.tag = "binary" ->
             LET plain == IF op \in DOMAIN AssignOps THEN AssignOps[op] ELSE op
             IN  /\ op # plain => Mutable(Uncast(node.args[1]))
                 /\ IF IsPrimOrClosure(T(1)) /\ IsPrimOrClosure(T(2))
                    THEN BinaryRule(plain, T(1), T(2), t)
                    ELSE Uses(node.args)
        [] node.tag = "unary" ->
             /\ op \in StepOps => Mutable(node.args[1])
             /\ IF IsPrimOrClosure(T(1)) THEN t = T(1) /\ BuiltinUnary(op, t) = t
                ELSE Uses(IF op \in StepOps THEN <<node.args[1], [node EXCEPT !.type = IntType]>> ELSE node.args)
        [] node.tag = "call" ->
             node.callee # NoFunction /\ Takes(node.callee, node.args, Same) /\ t = node.callee.ret
        [] node.tag = "apply" -> FALSE
        [] node.tag = "construct" ->
             LET first == Constructs(t, [k \in DOMAIN node.args |-> T(k)])
             IN  t = Prim(op) /\ first >= 0 /\ (first > 0 => \A k \in first .. Len(node.args) : T(k) = FloatType)
        [] node.tag = "comma"   -> t = T(Len(node.args))
        [] node.tag = "braces"  -> t = Compound([k \in DOMAIN node.args |-> T(k)])
        [] node.tag = "ternary" -> T(1) = BoolType /\ T(2) = T(3) /\ t = T(2)
        [] node.tag = "index" ->
             LET inner == node.args[1]
             IN  /\ T(2) = IntType
                 /\ IF inner.tag # "index" THEN t = ElementType(T(1))
                    ELSE \/ IsMatrix(inner.args[1].type) /\ t = FloatType
                         \/ t = ElementType(ElementType(inner.args[1].type))
        [] node.tag = "proj" -> t = PartType(T(1), op)
        [] node.tag = "cast" ->
             IF op = "implicit" THEN Converts(T(1), t) /\ T(1) # t
             ELSE t = Prim(op) /\ Castable(T(1), t)

\* The a[i] of a[i][j] is no expression of its own.
Below(node) ==
  LET inner == node.args[1]
  IN  IF node.tag = "index" /\ inner.tag = "index"
      THEN <<inner.args[1], inner.args[2], node.args[2]>> ELSE node.args

RECURSIVE WellTyped(_)
WellTyped(node) ==
  /\ node.type \notin {NoType, ErrorType}
  /\ \A k \in DOMAIN Below(node) : WellTyped(Below(node)[k])
  /\ Rule(node)

\* An expression with commas whose parts are left as they are (check_compound_expr).
IsFollowed(node) == node.tag = "comma" /\ node.op = "followed"

\* The piece as a whole: its tree has the type of its place.
Has(type) ==
  \A k \in DOMAIN unit.expr :
    WellTyped(unit.expr[k]) /\ (unit.expr[k].type = type \/ IsFollowed(unit.expr[k]))

DimIsRight == \A k \in DOMAIN unit.dim :
  IF unit.dim[k].tag = "unsized" THEN unit.kind = "parameter"
  ELSE WellTyped(unit.dim[k]) /\ unit.dim[k].type = IntType /\ Constant(unit.dim[k]) > 0

DimType == IF unit.dim = <<>> THEN unit.type ELSE Array(unit.type, Constant(unit.dim[1]))

PlaceType ==
  CASE unit.kind = "statement" -> VoidType
    [] unit.kind = "condition" -> BoolType
    [] unit.kind = "variable" -> DimType
    [] OTHER -> unit.type

IsRight ==
  /\ Has(PlaceType)
  /\ DimIsRight
  /\ unit.kind = "return" =>
       IF unit.expr = <<>> THEN unit.type \in {VoidType, ShaderType} ELSE unit.type # ShaderType
  /\ unit.kind \in {"variable", "parameter"} => unit.type # VoidType

-----------------------------------------------------------------------------
(* Properties. *)

\* Where a value is called, the call gets no type and nothing is logged.
CallsAValue == \E node \in AllNodes : node.tag = "apply"

\* What is accepted has a type everywhere, the types its operators and functions
\* take, and a cast at every conversion but those of the operands of overloaded operators
\* (check_expr, coerce_expr): what generates code from the tree has to convert
\* these (check.c:983), and nothing else.
AcceptedIsTyped == passes > 0 /\ ~failed => IsRight \/ CallsAValue

\* The parts of an expression with commas that are thrown away are converted, too.
ThrowsAway == \E node \in AllNodes : node.tag = "comma" /\ ~IsFollowed(node)

\* What is rejected cannot be taken as it has been typed: an error (log_error)
\* is the fault of the program, and never follows from what the checker put in.
RejectedIsWrong == passes = 1 /\ failed => ~IsRight \/ ThrowsAway

\* A place that is written to has been converted: i += 1.5 casts i.
WritesThroughCast == \E node \in AllNodes :
  \/ node.tag = "binary" /\ node.op \in DOMAIN AssignOps /\ Uncast(node.args[1]) # node.args[1]
  \/ node.tag = "call" /\ node.callee # NoFunction
       /\ \E k \in DOMAIN node.callee.params :
            node.callee.params[k].isOutput /\ Uncast(node.args[k]) # node.args[k]

\* The trees of built-in declarations are checked once for every file that is
\* compiled (check_cast_expr, "If we ever check the same AST again"): the second
\* time nothing changes, and nothing is logged.
RecheckIsStable == [][passes = 1 /\ ~WritesThroughCast => unit' = unit /\ ~failed']_vars
=============================================================================
