---------------------------- MODULE Expressions ----------------------------
(***************************************************************************)
(* The types of expressions (check.c).  check_expr walks a tree, gives     *)
(* its nodes types and rewrites it: where a value has to be converted,     *)
(* insert_cast puts a cast in the place of the node.  A function returns   *)
(* the tree as it is left, the type that check_expr returns, which need    *)
(* not be the node's, and whether an error has been logged.                *)
(*                                                                         *)
(* A call is resolved to the candidate that dominates, as Overloads finds  *)
(* it.                                                                     *)
(***************************************************************************)
EXTENDS Coercion, TLC

CONSTANTS
  Variables,   \* from the names that stand for one variable to their type and mutability
  Structure,   \* the name and the fields of the structure that is declared
  Functions,   \* from the other names, and operators, to their functions
  Units,       \* the pieces of programs that are checked, some sets of them
  NoType,      \* no particular type is expected, or a node has none yet
  NoFunction

VARIABLES
  unit,     \* the piece that is checked, with its trees as the checker has left them
  passes,   \* how often it has been checked
  failed    \* an error has been logged

vars == <<unit, passes, failed>>

ErrorType == [tag |-> "error"]
FuncType   == [tag |-> "func"]
ShaderType == [tag |-> "shader"]
BoolType   == Prim("bool")
IntType    == Prim("int")
FloatType  == Prim("float")
ColorType  == Prim("color")
StringType == Prim("string")
VoidType   == Prim("void")

IsScalar(t) == t.tag = "prim" /\ t.prim \in Scalars
IsTriple(t) == t.tag = "prim" /\ t.prim \in Triples
IsMatrix(t) == t = Prim("matrix")
IsClosureColor(t) == t = Closure(ColorType)
Converts(from, to) == TypeRank(from, to) # None

Node(tag, op, args) ==
  [tag |-> tag, op |-> op, args |-> args, type |-> NoType, callee |-> NoFunction]

Result(node, type, fails) == [node |-> node, type |-> type, failed |-> fails]

LiteralTypes ==
  "0" :> IntType @@ "2" :> IntType @@ "1.5" :> FloatType @@ "true" :> BoolType @@ "text" :> StringType
Dimensions == "0" :> 0 @@ "2" :> 2

\* ast_is_mutable
RECURSIVE Mutable(_)
Mutable(node) ==
  \/ node.tag = "ident" /\ node.op \in DOMAIN Variables /\ Variables[node.op].isMutable
  \/ node.tag \in {"index", "proj"} /\ Mutable(node.args[1])

-----------------------------------------------------------------------------
(* Conversions. *)

\* insert_cast; a cast of the source has the name of its type as its op.
Cast(node, type) == [Node("cast", "implicit", <<node>>) EXCEPT !.type = type]

\* coerce_expr
Coerce(node, expected, fails) ==
  IF expected \in {NoType, node.type} THEN Result(node, node.type, fails)
  ELSE IF Converts(node.type, expected) THEN Result(Cast(node, expected), expected, fails)
  ELSE Result(node, expected, fails \/ ErrorType \notin {node.type, expected})

Convert(r, expected) == Coerce(r.node, expected, r.failed)

\* join_types
Join(l, r) ==
  IF Converts(r.node.type, l.node.type)
  THEN LET c == Convert(r, l.node.type) IN [args |-> <<l, c>>, type |-> c.type]
  ELSE LET c == Convert(l, r.node.type) IN [args |-> <<c, r>>, type |-> c.type]

Castable(from, to) ==
  \/ Converts(from, to)
  \/ IsTriple(from) /\ IsTriple(to)
  \/ to = BoolType /\ from \in {FloatType, IntType}
  \/ to = IntType /\ from = FloatType

-----------------------------------------------------------------------------
(* Calls. *)

Argument(node) == [type |-> node.type, isMutable |-> Mutable(node)]

\* type_coercion_rank on the types of one call
RankTable(given, args, ret) ==
  LET from == {args[k].type : k \in DOMAIN args} \cup {given[k].ret : k \in DOMAIN given}
      to   == {ret} \cup UNION {{given[k].params[l].type : l \in DOMAIN given[k].params} : k \in DOMAIN given}
  IN  [p \in from \X (to \ {NoType}) |-> TypeRank(p[1], p[2])]

Call(Rank, given, args, ret) == INSTANCE Candidates

Given(name) == IF name \in DOMAIN Functions THEN Functions[name] ELSE <<>>

\* find_best_candidate, if there is one
Best(given, args, ret) ==
  LET Found(best) == IF best = {} THEN NoFunction ELSE CHOOSE f \in best : TRUE
  IN  Found({f \in Range(given) : Call(RankTable(given, args, ret), given, args, ret)!Dominates(f)})

\* find_func_from_candidates
Resolve(name, nodes, ret) == Best(Given(name), [k \in DOMAIN nodes |-> Argument(nodes[k])], ret)

\* check_struct_constructor: one argument for each field
Constructor ==
  [params |-> [k \in DOMAIN Structure.fields |-> [type |-> Structure.fields[k], isOutput |-> FALSE]],
   hasEllipsis |-> FALSE, ret |-> Struct(Structure.fields)]

\* check_callee
Callee(name, nodes, ret) ==
  IF name # Structure.name THEN Resolve(name, nodes, ret)
  ELSE IF Len(nodes) = Len(Structure.fields) THEN Constructor ELSE NoFunction

-----------------------------------------------------------------------------
(* Built-in operators. *)

ArithOps   == {"+", "-", "*", "/"}
BitOps     == {"&", "^", "|"}
IntOps     == {"%", "<<", ">>"}
CompareOps == {"<", "<=", ">", ">=", "!=", "=="}
AssignOps  == "+=" :> "+" @@ "*=" :> "*" @@ "<<=" :> "<<"    \* binary_expr_tag_remove_assign
StepOps    == {"++x", "x++"}
SignOps    == {"-x", "+x"}

\* Slip: every operator asks for a place.
WritesAlways(op) == TRUE

\* binary_expr_tag_is_assign, unary_expr_tag_is_inc_or_dec
Writes(op) == op \in DOMAIN AssignOps \cup StepOps

IsPrimOrClosure(t) == t.tag \in {"prim", "closure"}

Joinable(l, r) ==
  \/ IsScalar(l) /\ (IsScalar(r) \/ IsTriple(r) \/ IsMatrix(r))
  \/ IsTriple(l) /\ (IsTriple(r) \/ IsScalar(r))
  \/ IsMatrix(l) /\ (IsMatrix(r) \/ IsScalar(r))

\* check_builtin_binary_expr, on operands that have been checked
BuiltinBinary(op, l, r) ==
  LET lt == l.node.type
      rt == r.node.type
      Scales(t) == IsScalar(t) \/ IsTriple(t)
      Is(type)  == [args |-> <<l, r>>, type |-> type]
  IN  CASE op \in ArithOps /\ Joinable(lt, rt) -> Join(l, r)
        [] op = "*" /\ IsClosureColor(rt) /\ Scales(lt) -> [args |-> <<Convert(l, ColorType), r>>, type |-> rt]
        [] op = "*" /\ IsClosureColor(lt) /\ Scales(rt) -> [args |-> <<l, Convert(r, ColorType)>>, type |-> lt]
        [] op \in {"+", "-"} /\ IsClosureColor(lt) /\ IsClosureColor(rt) -> Is(lt)
        [] op \in BitOps /\ {lt, rt} \subseteq {BoolType, IntType} -> Join(l, r)
        [] op \in IntOps /\ {lt, rt} = {IntType} -> Is(IntType)
        [] op \in CompareOps -> [Join(l, r) EXCEPT !.type = BoolType]
        [] OTHER -> Is(ErrorType)

\* check_builtin_unary_expr
BuiltinUnary(op, t) ==
  IF \/ op \in SignOps /\ (IsTriple(t) \/ IsMatrix(t) \/ IsClosureColor(t))
     \/ op \in SignOps \cup StepOps /\ t \in {FloatType, IntType}
     \/ op \in {"~x", "!x"} /\ t \in {IntType, BoolType}
  THEN t ELSE ErrorType

\* find_constructor_type: the first of the arguments that are converted to float,
\* 0 if the values are taken as they are, or -1 if there is no such constructor.
Constructs(t, ts) ==
  LET AllScalar(k) == \A j \in k .. Len(ts) : IsScalar(ts[j])
      Large == IsTriple(t) \/ IsMatrix(t)
      many  == IF IsTriple(t) THEN 3 ELSE 16
  IN  CASE Len(ts) = 1 /\ IsScalar(t) /\ AllScalar(1) -> 0
        [] ts = <<StringType>> /\ t = StringType -> 0
        [] ts = <<StringType, StringType>> /\ IsMatrix(t) -> 0
        [] Large /\ Len(ts) \in {1, many} /\ AllScalar(1) -> 1
        [] Large /\ Len(ts) \in {2, many + 1} /\ ts[1] = StringType /\ AllScalar(2) -> 2
        [] OTHER -> -1

-----------------------------------------------------------------------------
(* Expressions: one operator for every check_..._expr. *)

RECURSIVE CheckExpr(_, _)
Checked(nodes, expected) == [k \in DOMAIN nodes |-> CheckExpr(nodes[k], expected)]
Nodes(rs)  == [k \in DOMAIN rs |-> rs[k].node]
Failed(rs) == \E k \in DOMAIN rs : rs[k].failed
IsWrong(rs) == \E k \in DOMAIN rs : rs[k].type = ErrorType    \* ~check_call_args

Typed(node, rs, type) == [node EXCEPT !.args = Nodes(rs), !.type = type]
Typing(node, rs, type, expected) == Coerce(Typed(node, rs, type), expected, Failed(rs))
Reject(node, rs, fails) == Result(Typed(node, rs, ErrorType), ErrorType, fails \/ Failed(rs))

CheckLiteral(node, expected) == Typing(node, <<>>, LiteralTypes[node.op], expected)

CheckIdent(node, expected) ==
  LET Symbol(type, fails) == Coerce([node EXCEPT !.type = type], expected, fails)
  IN  CASE node.op \in DOMAIN Variables -> Symbol(Variables[node.op].type, FALSE)
        [] node.op = Structure.name -> Symbol(Struct(Structure.fields), TRUE)
        [] node.op \in DOMAIN Functions /\ Len(Functions[node.op]) = 1 -> Symbol(FuncType, TRUE)
        [] OTHER -> Result(node, ErrorType, TRUE)

CheckParen(node, expected) ==
  LET r == CheckExpr(node.args[1], expected)
  IN  Result(Typed(node, <<r>>, r.type), r.type, r.failed)

CheckAssign(node, expected) ==
  LET l  == CheckExpr(node.args[1], NoType)
      rs == <<l, CheckExpr(node.args[2], l.type)>>
  IN  Coerce(Typed(node, rs, l.type), expected, Failed(rs) \/ ~Mutable(l.node))

CheckLogic(node, expected) == Typing(node, Checked(node.args, BoolType), BoolType, expected)

\* A built-in operator has been found, if its type is not the error type.
Built(node, built, expected, fails) ==
  Coerce(Typed(node, built.args, built.type), expected,
         fails \/ Failed(built.args) \/ built.type = ErrorType)

\* A function has been found, if f is one.
Applied(node, rs, f, expected, fails) ==
  IF f = NoFunction THEN Reject(node, rs, TRUE)
  ELSE Coerce([Typed(node, rs, f.ret) EXCEPT !.callee = f], expected, fails \/ Failed(rs))

BinaryOf(node, rs, expected) ==
  LET isAssign == node.op \in DOMAIN AssignOps
      fixed    == Writes(node.op) /\ ~Mutable(rs[1].node)    \* expect_mutable
      op       == IF isAssign THEN AssignOps[node.op] ELSE node.op
      ret      == IF isAssign THEN rs[1].node.type ELSE expected
  IN  CASE IsWrong(rs) -> Reject(node, rs, FALSE)
        [] ~IsWrong(rs) /\ \A k \in 1 .. 2 : IsPrimOrClosure(rs[k].node.type) ->
             Built(node, BuiltinBinary(op, rs[1], rs[2]), expected, fixed)
        [] OTHER -> Applied(node, rs, Resolve(op, Nodes(rs), ret), expected, fixed)

CheckBinary(node, expected) == BinaryOf(node, Checked(node.args, NoType), expected)

\* Steps resolve a + or - with a second argument that is 1.
UnaryOf(node, rs, expected) ==
  LET arg    == rs[1].node
      isStep == node.op \in StepOps
      one    == [Node("lit", "1", <<>>) EXCEPT !.type = IntType]
      fixed  == Writes(node.op) /\ ~Mutable(arg)
  IN  CASE IsWrong(rs) -> Reject(node, rs, FALSE)
        [] ~IsWrong(rs) /\ (IsPrimOrClosure(arg.type) \/ node.op = "+x") ->
             Built(node, [args |-> rs, type |-> BuiltinUnary(node.op, arg.type)], expected, fixed)
        [] OTHER ->
             LET f == IF isStep THEN Resolve("+", <<arg, one>>, arg.type) ELSE Resolve(node.op, <<arg>>, expected)
             IN  Applied(node, rs, f, expected, fixed)

CheckUnary(node, expected) == UnaryOf(node, Checked(node.args, NoType), expected)

CallOf(node, rs, f, expected) ==
  LET cs == [k \in DOMAIN rs |-> IF k \in DOMAIN f.params THEN Convert(rs[k], f.params[k].type) ELSE rs[k]]
  IN  CASE IsWrong(rs) -> Reject(node, rs, FALSE)
        [] ~IsWrong(rs) /\ f = NoFunction -> Reject(node, rs, TRUE)
        [] OTHER -> Applied(node, cs, f, expected, FALSE)

CheckCall(node, expected) ==
  LET rs == Checked(node.args, NoType)
  IN  CallOf(node, rs, Callee(node.op, Nodes(rs), expected), expected)

\* A call of an expression, args[1], that is no name: no value is a function, but
\* nothing is logged.
CheckApply(node, expected) ==
  LET rs == Checked(Tail(node.args), NoType)
      f  == IF IsWrong(rs) THEN Result(Head(node.args), NoType, FALSE) ELSE CheckExpr(Head(node.args), NoType)
  IN  Reject(node, <<f>> \o rs, FALSE)

CheckConstruct(node, expected) ==
  LET rs    == Checked(node.args, NoType)
      type  == Prim(node.op)
      first == Constructs(type, [k \in DOMAIN rs |-> rs[k].node.type])
      cs    == [k \in DOMAIN rs |-> IF first > 0 /\ k >= first THEN Convert(rs[k], FloatType) ELSE rs[k]]
  IN  IF IsWrong(rs) \/ first < 0
      THEN Result([node EXCEPT !.args = Nodes(rs)], ErrorType, ~IsWrong(rs) \/ Failed(rs))
      ELSE Typing(node, cs, type, expected)

\* An expression with commas: every part is converted, not only the last, but none in a
\* statement that another one comes after, whose op is "followed" (ast->next).
CheckCompound(node, expected) ==
  LET rs   == Checked(node.args, IF node.op = "followed" THEN NoType ELSE expected)
      last == rs[Len(rs)].node.type
  IN  Result(Typed(node, rs, last), last, Failed(rs))

CheckBraces(node, expected) ==
  LET rs == Checked(node.args, NoType)
  IN  Typing(node, rs, Compound([k \in DOMAIN rs |-> rs[k].type]), expected)

\* Slip: the branches are not brought to one type.
CheckTernaryApart(node, expected) ==
  LET then == CheckExpr(node.args[2], NoType)
      rs   == <<CheckExpr(node.args[1], BoolType), then, CheckExpr(node.args[3], NoType)>>
  IN  Typing(node, rs, then.type, expected)

CheckTernary(node, expected) ==
  LET then == CheckExpr(node.args[2], NoType)
      rs   == <<CheckExpr(node.args[1], BoolType), then, CheckExpr(node.args[3], then.type)>>
  IN  Typing(node, rs, then.type, expected)

-----------------------------------------------------------------------------
(* Parts of values. *)

\* check_single_index_expr
ElementType(t) ==
  CASE t.tag = "array" -> t.elem
    [] IsTriple(t) -> FloatType
    [] OTHER -> ErrorType

\* a[i][j] is checked as a whole, and its a[i] gets no type: a may be a matrix.
CheckIndex(node, expected) ==
  LET inner  == node.args[1]
      isPair == inner.tag = "index"
      value  == CheckExpr(IF isPair THEN inner.args[1] ELSE inner, NoType)
      index  == CheckExpr(node.args[2], IntType)
      row    == IF isPair THEN CheckExpr(inner.args[2], IntType) ELSE index
      first  == IF isPair THEN ElementType(value.type) ELSE value.type
      type   == IF isPair /\ IsMatrix(value.type) THEN FloatType ELSE ElementType(first)
      left   == IF isPair THEN [inner EXCEPT !.args = <<value.node, row.node>>] ELSE value.node
  IN  Coerce([node EXCEPT !.args = <<left, index.node>>, !.type = type], expected,
             Failed(<<value, index, row>>) \/ (type = ErrorType /\ value.type # ErrorType))

ComponentNames(t) == IF t = ColorType THEN {"r", "g", "b"} ELSE {"x", "y", "z"}

PartType(t, elem) ==
  CASE IsTriple(t) /\ elem \in ComponentNames(t) -> FloatType
    [] t.tag = "struct" /\ elem \in Range(Structure.names) ->
         t.fields[CHOOSE k \in DOMAIN t.fields : Structure.names[k] = elem]
    [] OTHER -> NoType

\* A part that is not found leaves the type the node had.
CheckProj(node, expected) ==
  LET value == CheckExpr(node.args[1], NoType)
      part  == PartType(value.type, node.op)
      type  == IF part # NoType THEN part ELSE node.type
  IN  IF type # NoType THEN Typing(node, <<value>>, type, expected)
      ELSE Coerce(Typed(node, <<value>>, ErrorType), expected, value.failed \/ value.type # ErrorType)

\* Slip: the value of such a cast has to have the expected type itself.
CheckCastOfValue(node, expected) ==
  LET value == CheckExpr(node.args[1], NoType)
      type  == Prim(node.op)
  IN  IF node.op = "implicit" THEN Coerce(node, expected, value.failed \/ value.type # expected)
      ELSE Coerce(Typed(node, <<value>>, type), expected, value.failed \/ ~Castable(value.type, type))

\* A cast that the checker has put in is not entered again.
CheckCast(node, expected) ==
  LET value == CheckExpr(node.args[1], NoType)
      type  == Prim(node.op)
  IN  IF node.op = "implicit" THEN Result(node, node.type, expected \notin {NoType, node.type})
      ELSE Coerce(Typed(node, <<value>>, type), expected, value.failed \/ ~Castable(value.type, type))

CheckExpr(node, expected) ==
  CASE node.tag = "lit"       -> CheckLiteral(node, expected)
    [] node.tag = "ident"     -> CheckIdent(node, expected)
    [] node.tag = "paren"     -> CheckParen(node, expected)
    [] node.tag = "assign"    -> CheckAssign(node, expected)
    [] node.tag = "logic"     -> CheckLogic(node, expected)
    [] node.tag = "binary"    -> CheckBinary(node, expected)
    [] node.tag = "unary"     -> CheckUnary(node, expected)
    [] node.tag = "call"      -> CheckCall(node, expected)
    [] node.tag = "apply"     -> CheckApply(node, expected)
    [] node.tag = "construct" -> CheckConstruct(node, expected)
    [] node.tag = "comma"     -> CheckCompound(node, expected)
    [] node.tag = "braces"    -> CheckBraces(node, expected)
    [] node.tag = "ternary"   -> CheckTernary(node, expected)
    [] node.tag = "index"     -> CheckIndex(node, expected)
    [] node.tag = "proj"      -> CheckProj(node, expected)
    [] node.tag = "cast"      -> CheckCast(node, expected)

-----------------------------------------------------------------------------
(* What is checked with the help of the expected type: the pieces. *)

\* eval_const_int
RECURSIVE Constant(_)
Constant(node) ==
  CASE node.tag = "paren" -> Constant(node.args[1])
    [] node.tag = "lit" /\ node.type = IntType -> Dimensions[node.op]
    [] OTHER -> 0

Dim(nodes, type, fails) == [dim |-> nodes, type |-> type, failed |-> fails]

Sized(elem, r) ==
  LET n == Constant(r.node)
  IN  Dim(<<r.node>>, Array(elem, IF n > 0 THEN n ELSE 1), r.failed \/ n <= 0)

\* check_array_dim: dim has at most one node.
CheckDim(dim, elem, allowUnsized) ==
  CASE dim = <<>> -> Dim(dim, elem, FALSE)
    [] dim # <<>> /\ dim[1].tag = "unsized" -> Dim(dim, Array(elem, 0), ~allowUnsized)
    [] OTHER -> Sized(elem, CheckExpr(dim[1], IntType))

Init ==
  /\ \E k \in DOMAIN Units : unit \in Units[k]
  /\ passes = 0
  /\ failed = FALSE

Pass(kind) ==
  /\ unit.kind = kind
  /\ passes < 2 /\ ~failed
  /\ passes' = passes + 1

Becomes(rs) ==
  /\ unit' = [unit EXCEPT !.expr = Nodes(rs)]
  /\ failed' = Failed(rs)

Expecting(type) == Becomes(Checked(unit.expr, type))

\* check_stmt of an expression
CheckStatement == Pass("statement") /\ Expecting(VoidType)

\* check_cond
CheckCondition == Pass("condition") /\ Expecting(BoolType)

\* check_return_stmt, from a function or a shader whose type is unit.type
CheckReturn ==
  /\ Pass("return")
  /\ \/ unit.expr # <<>> /\ unit.type # ShaderType /\ Expecting(unit.type)
     \/ unit.expr # <<>> /\ unit.type = ShaderType /\ failed' = TRUE /\ UNCHANGED unit
     \/ unit.expr = <<>> /\ failed' = (unit.type \notin {ShaderType, VoidType}) /\ UNCHANGED unit

WithDim(d, rs) ==
  /\ unit' = [unit EXCEPT !.dim = d.dim, !.expr = Nodes(rs)]
  /\ failed' = (unit.type = VoidType \/ d.failed \/ Failed(rs))

Initialize(d) == WithDim(d, Checked(unit.expr, d.type))

\* check_var_decl and check_var, of a local variable
CheckVariable == Pass("variable") /\ Initialize(CheckDim(unit.dim, unit.type, FALSE))

\* check_param
CheckParameter == Pass("parameter") /\ WithDim(CheckDim(unit.dim, unit.type, TRUE), <<>>)

Next == CheckStatement \/ CheckCondition \/ CheckReturn \/ CheckVariable \/ CheckParameter

Spec == Init /\ [][Next]_vars
=============================================================================
