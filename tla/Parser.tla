------------------------------- MODULE Parser -------------------------------
(***************************************************************************)
(* The recursive-descent parser of parse.c, as the machine that C runs it  *)
(* on: a stack of calls, each with the rest of its code and the values it  *)
(* has collected.  The code of a parse function is a sequence of items     *)
(* (read a token, expect one, branch on the look-ahead, call, allocate a   *)
(* node); the actions run one item of the innermost call.                  *)
(*                                                                         *)
(* A token is the class the parser distinguishes: "type" is any primitive  *)
(* type, "shader" any shader type, "literal" an integer or a float, "bool" *)
(* true or false, "++" also "--", "!" also "~", "-" also "+", "op=" every  *)
(* compound assignment; a binary operator stands for its precedence class. *)
(* The comma, the semicolon and the braces are spelled out.                *)
(***************************************************************************)
EXTENDS Integers, Sequences, TLC

CONSTANT Programs   \* the token sequences handed to the parser

ASSUME ProgramsAreSequences == \A p \in Programs : p \in Seq(STRING)

VARIABLES
    tokens,   \* the whole input
    pos,      \* index of ahead[0]; behind[0] is at pos - 1
    stack,    \* calls, innermost last: [fn, prec, begin, todo, vals]
    nodes,    \* the arena: [tag, prec, first, last, kids]
    errors    \* log->error_count

vars == <<tokens, pos, stack, nodes, errors>>

\* ahead[k]; once the input is read every token is TOKEN_EOF.
Ahead(k) == IF pos + k > Len(tokens) THEN "eof" ELSE tokens[pos + k]

Precedence == "*" :> 1 @@ "-" :> 2 @@ "<<" :> 3 @@ "<" :> 4 @@ "&" :> 5
           @@ "^" :> 6 @@ "|" :> 7 @@ "&&" :> 8 @@ "||" :> 9

MaxPrecedence == CHOOSE p \in 0..10 :
    /\ \A t \in DOMAIN Precedence : Precedence[t] <= p
    /\ \E t \in DOMAIN Precedence : Precedence[t] = p

AssignOps == {"=", "op="}
PrefixOps == {"++", "!", "-"}

-----------------------------------------------------------------------------
(* Items *)

Eat(tag)         == [do |-> "eat", tag |-> tag]
Read             == [do |-> "read"]
Expect(tag)      == [do |-> "expect", tag |-> tag]
LogError         == [do |-> "log"]
CallAt(fn, prec) == [do |-> "call", fn |-> fn, prec |-> prec]
Call(fn)         == CallAt(fn, 0)
Pass(fn, prec)   == [do |-> "pass", fn |-> fn, prec |-> prec]
Node(tag)        == [do |-> "node", tag |-> tag]
NodeFrom(tag)    == [do |-> "node_from", tag |-> tag]
Forget           == [do |-> "forget"]
Operators        == [do |-> "operators"]
Many(stop, sep, fn)      == [do |-> "many", stop |-> stop, sep |-> sep, fn |-> fn]
AfterElem(stop, sep, fn) == [do |-> "elem", stop |-> stop, sep |-> sep, fn |-> fn]

\* A switch on ahead[at]: each arm is a set of tags and the code for them.
Switch(at, arms, otherwise) ==
    [do |-> "switch", at |-> at, arms |-> arms, otherwise |-> otherwise]
If(tags, then)  == Switch(0, << <<tags, then>> >>, << >>)
Accept(tag, then) == If({tag}, <<Eat(tag)>> \o then)
Unless(tag, then) == Switch(0, << <<{tag}, <<Eat(tag)>>>> >>, then)

Ident == Expect("ident")

-----------------------------------------------------------------------------
(* Attributes, literals and primary expressions *)

ParseError == <<LogError, Read, Node("error")>>

Attr == <<Ident, Accept("(", <<Many(")", "comma", "expr")>>), Node("attr")>>

AttrList ==
    <<Accept("attribute", <<Expect("("), Expect("("), Many(")", "comma", "attr"), Expect(")")>>)>>

Literal(tag) == <<Eat(tag), Node("literal")>>

Strings == <<Accept("string", <<Call("strings")>>)>>

StringLiteral == <<Call("strings"), Node("literal")>>

CompoundInit == <<Eat("lbrace"), Many("rbrace", "comma", "expr"), Node("compound_init")>>

CastExpr == <<Eat("("), Call("type"), Expect(")"), Call("prefix_expr"), Node("cast")>>

MoreExprs == <<Accept("comma", <<Call("expr"), Call("more_exprs")>>)>>

CompoundExpr ==
    <<Call("expr"), If({"comma"}, <<Call("more_exprs"), NodeFrom("compound")>>)>>

ParenExpr == <<Eat("("), Call("compound_expr"), Expect(")"), Node("paren")>>

CastOrParenExpr ==
    <<Switch(1, << <<{"type"}, <<Switch(2, << <<{")"}, <<Call("cast_expr")>>>> >>,
                                           <<Call("paren_expr")>>)>>>> >>,
             <<Call("paren_expr")>>)>>

IdentExpr == <<Ident, Node("ident")>>

ConstructExpr ==
    <<Call("type"), Expect("("), Many(")", "comma", "expr"), Node("construct")>>

PrimaryExpr ==
    <<Switch(0, << <<{"bool"}, Literal("bool")>>,
                   <<{"literal"}, Literal("literal")>>,
                   <<{"string"}, <<Call("string_literal")>>>>,
                   <<{"ident"}, <<Call("ident_expr")>>>>,
                   <<{"lbrace"}, <<Call("compound_init")>>>>,
                   <<{"("}, <<Call("cast_or_paren_expr")>>>>,
                   <<{"type"}, <<Call("construct_expr")>>>> >>,
             <<Call("error")>>)>>

(* Suffixes, prefixes, operators *)

ProjExpr == <<Eat("."), Ident, NodeFrom("proj")>>
\* Slips: the node is allocated before its closing bracket is read; the index
\* is parsed as a list.
IndexExprEarly == <<Eat("["), Call("expr"), NodeFrom("index"), Expect("]")>>
IndexExprList == <<Eat("["), Many("]", "comma", "expr"), NodeFrom("index")>>

IndexExpr == <<Eat("["), Call("expr"), Expect("]"), NodeFrom("index")>>
PostIncOrDecExpr == <<Read, NodeFrom("postfix")>>
CallExpr == <<Eat("("), Many(")", "comma", "expr"), NodeFrom("call")>>

\* The loop calls itself again after each suffix, on the expression so far.
SuffixExpr ==
    LET Again == <<Pass("suffix_expr", 0)>>
    IN  <<Switch(0, << <<{"."}, ProjExpr \o Again>>,
                       <<{"["}, IndexExpr \o Again>>,
                       <<{"++"}, PostIncOrDecExpr \o Again>>,
                       <<{"("}, CallExpr \o Again>> >>, << >>)>>

PrefixExpr ==
    LET Argument == <<Call("primary_expr"), Pass("suffix_expr", 0)>>
    IN  <<Switch(0, << <<PrefixOps, <<Read>> \o Argument \o <<Node("prefix")>>>> >>, Argument)>>

\* parse_binary_expr on a left operand it is given, and on a fresh prefix expression.
BinaryExpr == <<Operators>>
Operand == <<Call("prefix_expr"), Operators>>

TernaryExpr ==
    <<CallAt("operand", MaxPrecedence),
      Accept("?", <<Call("expr"), Expect(":"), Call("expr"), NodeFrom("ternary")>>)>>

AssignExpr ==
    <<Call("ternary_expr"), If(AssignOps, <<Read, Call("assign_expr"), NodeFrom("assign")>>)>>

Expr == <<Call("assign_expr")>>

-----------------------------------------------------------------------------
(* Types, dimensions, metadata, parameters *)

PrimType == <<Switch(0, << <<{"type"}, <<Read, Node("prim_type")>>>> >>, <<Call("error")>>)>>
ShaderType == <<Eat("shader"), Node("shader_type")>>
ClosureType == <<Eat("closure"), Call("prim_type"), Node("closure_type")>>
NamedType == <<Ident, Node("named_type")>>

Type ==
    <<Switch(0, << <<{"type"}, <<Call("prim_type")>>>>,
                   <<{"closure"}, <<Call("closure_type")>>>>,
                   <<{"ident"}, <<Call("named_type")>>>> >>,
             <<Call("error")>>)>>

ArrayDim ==
    <<Accept("[", <<Switch(0, << <<{"]"}, <<Node("unsized_dim")>>>> >>, <<Call("expr")>>),
                    Expect("]")>>)>>

Metadatum == <<Call("type"), Ident, Expect("="), Call("expr"), Node("metadatum")>>
Metadata == <<Accept("[[", <<Many("]]", "comma", "metadatum")>>)>>
IgnoredMetadata == <<Call("metadata"), Forget>>

Ellipsis == <<Eat("..."), Node("param")>>

FuncParam ==
    <<Switch(0, << <<{"..."}, Ellipsis>> >>,
             <<Accept("output", << >>), Call("type"), Accept("ident", << >>),
               Call("array_dim"), Node("param")>>)>>

ShaderParam ==
    <<Accept("output", << >>), Call("type"), Ident, Call("array_dim"),
      Expect("="), Call("expr"), Call("metadata"), Node("param")>>

-----------------------------------------------------------------------------
(* Statements *)

Condition == <<Expect("("), Call("compound_expr"), Expect(")")>>

IfStmt == <<Eat("if")>> \o Condition
       \o <<Call("stmt"), Accept("else", <<Call("stmt")>>), Node("if")>>

JumpStmt(tag) == <<Eat(tag), Expect("semicolon"), Node("jump")>>

ReturnStmt ==
    <<Eat("return"), Unless("semicolon", <<Call("expr"), Expect("semicolon")>>), Node("return")>>

WhileLoop == <<Eat("while")>> \o Condition \o <<Call("stmt"), Node("while")>>

DoWhileLoop == <<Eat("do"), Call("stmt"), Expect("while")>> \o Condition
            \o <<Expect("semicolon"), Node("do_while")>>

VarWithInit == <<Ident, Call("array_dim"), Accept("=", <<Call("expr")>>), Node("var")>>
VarWithoutInit == <<Ident, Call("array_dim"), Node("var")>>

VarDecl == <<Many("semicolon", "comma", "var_with_init"), NodeFrom("var_decl")>>

FieldDecl == <<Call("type"), Many("semicolon", "comma", "var_without_init"), NodeFrom("var_decl")>>

Block == <<Eat("lbrace"), Many("rbrace", "none", "stmt"), Node("block")>>

\* Slip: the look-ahead is not tested.
BlockOrErrorUntested == <<Call("block")>>

BlockOrError == <<Switch(0, << <<{"lbrace"}, <<Call("block")>>>> >>, <<Call("error")>>)>>

FuncDecl ==
    <<Ident, Call("ignored_metadata"), Expect("("), Many(")", "comma", "func_param"),
      Unless("semicolon", <<Call("block_or_error")>>), NodeFrom("func_decl")>>

ForInit ==
    LET Variables == <<Call("type"), Pass("var_decl", 0)>>
        Expression == <<Call("expr"), Expect("semicolon")>>
    IN  <<Switch(0, << <<{"ident"}, <<Switch(1, << <<{"ident"}, Variables>> >>, Expression)>>>>,
                       <<{"type", "closure"}, Variables>>,
                       <<{"semicolon"}, <<Eat("semicolon")>>>> >>,
                 Expression)>>

ForLoop ==
    <<Eat("for"), Expect("("), Call("for_init"),
      Unless("semicolon", <<Call("compound_expr"), Expect("semicolon")>>),
      Unless(")", <<Call("compound_expr"), Expect(")")>>),
      Call("stmt"), Node("for")>>

VarOrFuncDecl ==
    LET Variables == <<Pass("var_decl", 0)>>
    IN  <<Call("type"),
          Switch(0, << <<{"ident"}, <<Switch(1, << <<{"("}, <<Pass("func_decl", 0)>>>> >>,
                                                Variables)>>>> >>, Variables)>>

EmptyStmt == <<Eat("semicolon"), Node("empty")>>

Stmt ==
    LET Expression == <<Call("compound_expr"), Expect("semicolon")>>
        Declaration == <<Call("var_or_func_decl")>>
    IN  <<Switch(0, << <<{"type", "closure"}, Declaration>>,
                       <<{"if"}, <<Call("if_stmt")>>>>,
                       <<{"break"}, <<Call("break_stmt")>>>>,
                       <<{"continue"}, <<Call("continue_stmt")>>>>,
                       <<{"return"}, <<Call("return_stmt")>>>>,
                       <<{"while"}, <<Call("while_loop")>>>>,
                       <<{"do"}, <<Call("do_while_loop")>>>>,
                       <<{"for"}, <<Call("for_loop")>>>>,
                       <<{"lbrace"}, <<Call("block")>>>>,
                       <<{"ident"}, <<Switch(1, << <<{"ident"}, Declaration>> >>, Expression)>>>>,
                       <<PrefixOps \cup {"literal", "("}, Expression>>,
                       <<{"semicolon"}, <<Call("empty_stmt")>>>> >>,
                 <<Call("error")>>)>>

-----------------------------------------------------------------------------
(* Top-level declarations *)

ShaderDecl ==
    <<Call("shader_type"), Ident, Call("metadata"), Expect("("), Many(")", "comma", "shader_param"),
      Call("block_or_error"), Node("shader_decl")>>

StructDecl ==
    <<Eat("struct"), Ident, Expect("lbrace"), Many("rbrace", "none", "field_decl"), Expect("semicolon"),
      Node("struct_decl")>>

TopLevelDecl ==
    <<Switch(0, << <<{"struct"}, <<Call("struct_decl")>>>>,
                   <<{"shader"}, <<Call("shader_decl")>>>>,
                   <<{"type", "closure", "ident"}, <<Call("var_or_func_decl")>>>> >>,
             <<Call("error")>>)>>

\* The attributes hang off the declaration and leave its location alone.
TopLevelDeclWithAttrs == <<Call("attr_list"), Forget, Call("top_level_decl")>>

Parse == <<Many("eof", "none", "top_level_decl_with_attrs")>>

\* The parse functions by name.
Body ==
    [error |-> ParseError, attr |-> Attr, attr_list |-> AttrList, strings |-> Strings,
     string_literal |-> StringLiteral, compound_init |-> CompoundInit, cast_expr |-> CastExpr,
     more_exprs |-> MoreExprs, compound_expr |-> CompoundExpr, paren_expr |-> ParenExpr,
     cast_or_paren_expr |-> CastOrParenExpr, ident_expr |-> IdentExpr,
     construct_expr |-> ConstructExpr, primary_expr |-> PrimaryExpr,
     suffix_expr |-> SuffixExpr, prefix_expr |-> PrefixExpr, binary_expr |-> BinaryExpr,
     operand |-> Operand, ternary_expr |-> TernaryExpr, assign_expr |-> AssignExpr,
     expr |-> Expr, prim_type |-> PrimType, shader_type |-> ShaderType,
     closure_type |-> ClosureType, named_type |-> NamedType, type |-> Type,
     array_dim |-> ArrayDim, metadatum |-> Metadatum, metadata |-> Metadata,
     ignored_metadata |-> IgnoredMetadata, func_param |-> FuncParam,
     shader_param |-> ShaderParam, if_stmt |-> IfStmt, break_stmt |-> JumpStmt("break"),
     continue_stmt |-> JumpStmt("continue"), return_stmt |-> ReturnStmt,
     while_loop |-> WhileLoop, do_while_loop |-> DoWhileLoop,
     var_with_init |-> VarWithInit, var_without_init |-> VarWithoutInit, var_decl |-> VarDecl,
     field_decl |-> FieldDecl, block |-> Block, block_or_error |-> BlockOrError,
     func_decl |-> FuncDecl, for_init |-> ForInit, for_loop |-> ForLoop,
     var_or_func_decl |-> VarOrFuncDecl, empty_stmt |-> EmptyStmt, stmt |-> Stmt,
     shader_decl |-> ShaderDecl, struct_decl |-> StructDecl, top_level_decl |-> TopLevelDecl,
     top_level_decl_with_attrs |-> TopLevelDeclWithAttrs, parse |-> Parse]

Frame(fn, prec, vals) ==
    [fn |-> fn, prec |-> prec, begin |-> pos, todo |-> Body[fn], vals |-> vals]

-----------------------------------------------------------------------------
(* One item of the innermost call *)

Top == stack[Len(stack)]
Item == Head(Top.todo)
At(kind) == stack # << >> /\ Top.todo # << >> /\ Item.do = kind

\* The innermost call goes on with this code.
GoOn(code) == stack' = [stack EXCEPT ![Len(stack)].todo = code \o Tail(@)]

\* read_token, from eat_token or directly.
ReadToken ==
    /\ At("eat") \/ At("read")
    /\ pos' = pos + 1
    /\ GoOn(<< >>)
    /\ UNCHANGED <<tokens, nodes, errors>>

\* expect_token: on a mismatch an error is logged and nothing is read.
ExpectToken ==
    /\ At("expect")
    /\ \/ Ahead(0) = Item.tag /\ pos' = pos + 1 /\ errors' = errors
       \/ Ahead(0) # Item.tag /\ pos' = pos /\ errors' = errors + 1
    /\ GoOn(<< >>)
    /\ UNCHANGED <<tokens, nodes>>

LogAnError ==
    /\ At("log")
    /\ errors' = errors + 1
    /\ GoOn(<< >>)
    /\ UNCHANGED <<tokens, pos, nodes>>

Branch ==
    /\ At("switch")
    /\ LET Fits(n) == Ahead(Item.at) \in Item.arms[n][1]
       IN  \/ \E n \in DOMAIN Item.arms :
                 Fits(n) /\ (\A m \in 1..(n - 1) : ~Fits(m)) /\ GoOn(Item.arms[n][2])
           \/ (\A n \in DOMAIN Item.arms : ~Fits(n)) /\ GoOn(Item.otherwise)
    /\ UNCHANGED <<tokens, pos, nodes, errors>>

\* parse_many: the loop's condition.
ManyTest ==
    /\ At("many")
    /\ IF Ahead(0) \in {Item.stop, "eof"}
       THEN GoOn(<<Expect(Item.stop)>>)
       ELSE GoOn(<<Call(Item.fn), AfterElem(Item.stop, Item.sep, Item.fn)>>)
    /\ UNCHANGED <<tokens, pos, nodes, errors>>

\* parse_many: after an element, the separator or the end of the loop.
ManySeparator ==
    LET Again == <<Many(Item.stop, Item.sep, Item.fn)>>
    IN  /\ At("elem")
        /\ \/ Item.sep = "none" /\ GoOn(Again) /\ pos' = pos
           \/ Item.sep # "none" /\ Ahead(0) = Item.sep /\ GoOn(Again) /\ pos' = pos + 1
           \/ Item.sep # "none" /\ Ahead(0) # Item.sep /\ GoOn(<<Expect(Item.stop)>>) /\ pos' = pos
        /\ UNCHANGED <<tokens, nodes, errors>>

\* The precedence of the operator ahead; anything else ends every loop.
NextPrecedence(prec) ==
    IF Ahead(0) \in DOMAIN Precedence THEN Precedence[Ahead(0)] ELSE prec + 1

\* Slips: the right operand takes operators of the same precedence, or its
\* precedence goes below zero.
RightPrecedenceSame(prec) == prec
\* The right operand takes tighter operators only.
RightPrecedence(prec) == prec - 1

\* Slip: the break leaves the comparison and not the loop.
StopComparing == <<Operators>>

\* The break of the loop.
Stop == << >>

\* parse_binary_expr: one turn of its loop at the precedence of the call.
BinaryLoop ==
    LET prec == Top.prec
        next == NextPrecedence(prec)
    IN  /\ At("operators")
        /\ \/ next < prec /\ GoOn(<<Pass("binary_expr", next), Operators>>) /\ pos' = pos
           \/ next > prec /\ GoOn(Stop) /\ pos' = pos
           \/ next = prec /\ pos' = pos + 1
              /\ GoOn(<<CallAt("operand", RightPrecedence(prec)), NodeFrom("binary"), Operators>>)
        /\ UNCHANGED <<tokens, nodes, errors>>

\* alloc_ast: the node ends at behind[0], and begins where the call began or
\* where its first operand does.
AllocAst ==
    /\ At("node") \/ At("node_from")
    /\ LET first == IF Item.do = "node" THEN Top.begin ELSE nodes[Top.vals[1]].first
       IN  nodes' = Append(nodes, [tag |-> Item.tag, prec |-> Top.prec, first |-> first,
                                   last |-> pos - 1, kids |-> Top.vals])
    /\ stack' = [stack EXCEPT ![Len(stack)].todo = Tail(@),
                              ![Len(stack)].vals = <<Len(nodes) + 1>>]
    /\ UNCHANGED <<tokens, pos, errors>>

ForgetValues ==
    /\ At("forget")
    /\ stack' = [stack EXCEPT ![Len(stack)].todo = Tail(@), ![Len(stack)].vals = << >>]
    /\ UNCHANGED <<tokens, pos, nodes, errors>>

CallFunction ==
    /\ At("call")
    /\ stack' = Append([stack EXCEPT ![Len(stack)].todo = Tail(@)],
                       Frame(Item.fn, Item.prec, << >>))
    /\ UNCHANGED <<tokens, pos, nodes, errors>>

\* A call whose argument is the expression, or the type, parsed so far.
PassValue ==
    /\ At("pass")
    /\ stack' = Append([stack EXCEPT ![Len(stack)].todo = Tail(@),
                                     ![Len(stack)].vals = << >>],
                       Frame(Item.fn, Item.prec, Top.vals))
    /\ UNCHANGED <<tokens, pos, nodes, errors>>

Return ==
    /\ stack # << >> /\ Top.todo = << >>
    /\ LET rest == SubSeq(stack, 1, Len(stack) - 1)
       IN  stack' = IF rest = << >> THEN rest
                    ELSE [rest EXCEPT ![Len(rest)].vals = @ \o Top.vals]
    /\ UNCHANGED <<tokens, pos, nodes, errors>>

Init ==
    /\ tokens \in Programs
    /\ pos = 1
    /\ stack = <<Frame("parse", 0, << >>)>>
    /\ nodes = << >>
    /\ errors = 0

Next ==
    \/ ReadToken \/ ExpectToken \/ LogAnError \/ Branch
    \/ ManyTest \/ ManySeparator \/ BinaryLoop
    \/ AllocAst \/ ForgetValues
    \/ CallFunction \/ PassValue \/ Return

Spec == Init /\ [][Next]_vars /\ WF_vars(Next)

-----------------------------------------------------------------------------
(* Properties *)

\* Types: every call is a parse function's, and
\* the values it holds are nodes of the arena, as are the children of nodes.
TypeOK ==
    /\ tokens \in Seq(STRING) /\ pos \in Nat \ {0} /\ errors \in Nat
    /\ \A i \in 1..Len(stack) :
          /\ stack[i].fn \in DOMAIN Body
          /\ stack[i].prec \in 0..MaxPrecedence
          /\ stack[i].begin \in 1..pos
          /\ \A j \in 1..Len(stack[i].vals) : stack[i].vals[j] \in 1..Len(nodes)
    /\ \A n \in 1..Len(nodes) :
          /\ nodes[n].first \in 1..pos /\ nodes[n].last \in 0..(pos - 1)
          /\ \A k \in 1..Len(nodes[n].kids) : nodes[n].kids[k] \in 1..(n - 1)

\* The look-ahead on which a parse function is chosen agrees with the token
\* it then takes for granted: the assertion of eat_token never fails.
EatenTokensMatch == At("eat") => Ahead(0) = Item.tag

\* How loosely an expression binds: operands 0, binary operators their
\* precedence, assignments and conditionals above every one of them.
Looseness(n) ==
    CASE nodes[n].tag = "binary" -> nodes[n].prec
      [] nodes[n].tag \in {"assign", "ternary"} -> 10
      [] OTHER -> 0

\* Operators bind by the table of ast.h: the left operand of a binary node
\* binds no looser than its operator, the right one tighter (operators of a
\* precedence associate to the left), the token between them is an operator of
\* that precedence, and an assignment's target is never an assignment or a
\* conditional (assignments associate to the right).
BindsTight ==
    \A n \in 1..Len(nodes) :
        LET kids == nodes[n].kids
        IN  /\ nodes[n].tag = "binary" =>
                  /\ Looseness(kids[1]) <= nodes[n].prec
                  /\ Looseness(kids[2]) < nodes[n].prec
                  /\ LET op == tokens[nodes[kids[1]].last + 1]
                     IN  op \in DOMAIN Precedence /\ Precedence[op] = nodes[n].prec
            /\ nodes[n].tag \in {"assign", "ternary"} => Looseness(kids[1]) < 10
            /\ nodes[n].tag \in {"prefix", "postfix", "index", "call", "proj"} =>
                  Looseness(kids[1]) = 0

Count(t, n) == LET span == SubSeq(tokens, nodes[n].first, nodes[n].last)
               IN  Len(SelectSeq(span, LAMBDA u : u = t))

Brackets == {<<"(", ")">>, <<"[", "]">>, <<"lbrace", "rbrace">>, <<"[[", "]]">>}

\* In a parse without errors the locations given to the nodes form a tree: a
\* node's span is not empty, its children lie inside it in source order without
\* overlap, and the brackets in it pair up (but for an unsized dimension, whose
\* location is its opening bracket).
NodesNest ==
    errors = 0 => \A n \in 1..Len(nodes) :
        LET kids == nodes[n].kids
        IN  /\ nodes[n].first <= nodes[n].last
            /\ \A k \in 1..Len(kids) :
                  /\ nodes[n].first <= nodes[kids[k]].first
                  /\ nodes[kids[k]].last <= nodes[n].last
                  /\ k > 1 => nodes[kids[k - 1]].last < nodes[kids[k]].first
            /\ nodes[n].tag # "unsized_dim" =>
                  \A b \in Brackets : Count(b[1], n) = Count(b[2], n)

\* Every parse ends, whatever the tokens: no loop of the parser goes round
\* without reading, and nothing waits for a token after the end of the file.
EveryParseEnds == <>(stack = << >>)

=============================================================================
