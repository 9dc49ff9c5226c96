------------------------------- MODULE Checker -------------------------------
(***************************************************************************)
(* The walk of the type checker (check.c) over a program: the check_*      *)
(* calls in progress, the scopes they push and pop, the symbols they       *)
(* insert, and what the names, calls, returns and breaks they meet are     *)
(* bound to.  The environment is the one that ScopeSpec specifies; each    *)
(* step makes at most one call to it.  The program is given by the choice  *)
(* of steps: any sequence of them is the walk over some syntax tree.       *)
(*                                                                         *)
(* Types are reduced to what the scoping rules look at: whether a node has *)
(* one yet, and which function types are the same.  An expression is the   *)
(* names that it uses and the calls that it makes.                         *)
(***************************************************************************)
EXTENDS Naturals, Sequences, SequencesExt

CONSTANTS
  Names,        \* names that programs declare and use
  Operators,    \* those of them that are reserved for operators
  FuncTypes,    \* types of functions
  ShaderTypes,  \* types of shaders, which no function has
  NoType,       \* ast->type is NULL
  MaxNodes      \* bound on the syntax nodes of a program

ASSUME CheckerAssumption ==
  /\ Operators \subseteq Names
  /\ "none" \notin Names
  /\ NoType \notin FuncTypes \cup ShaderTypes \cup {"value", "struct"}
  /\ MaxNodes \in Nat

VARIABLES
  ast,       \* the syntax nodes met so far
  calls,     \* the check_* calls in progress, innermost last
  stack,     \* the environment's scopes; the kind of a scope is its node
  answer,    \* what the environment answered last
  failed,    \* has an error about names, scopes or jumps been logged?
  bound      \* the statement or name checked last and what it was bound to

vars == <<ast, calls, stack, answer, failed, bound>>

File == 0    \* the parent of top-level declarations

Tags  == {"block", "loop", "func", "shader", "struct", "var"}
Types == FuncTypes \cup ShaderTypes \cup {"value", "struct"}
Node  == [tag : Tags, name : Names \cup {"none"}, parent : Nat, type : Types \cup {NoType}]
Call  == [node : Nat, phase : {"params", "body", "declare", "named", "fields"}]
BoundTags == {"none", "use", "type", "call", "return", "break"}

Env == INSTANCE ScopeSpec WITH Decls <- 1 .. MaxNodes, Kinds <- 1 .. MaxNodes, FileKind <- File

Unbound == [tag |-> "none", to |-> 0]

-----------------------------------------------------------------------------
Top      == calls[Len(calls)]
Current  == ast[Top.node]
TopLevel == calls = <<>>
InPhase(p) == calls # <<>> /\ Top.phase = p
InBody   == InPhase("body")

\* The calls whose scope is open: only the innermost can be before or after that.
Holding == IF InPhase("declare") \/ InPhase("named") THEN Front(calls) ELSE calls
Checking == TopLevel \/ InBody \/ InPhase("params") \/ InPhase("fields")
Parent  == IF Holding = <<>> THEN File ELSE Holding[Len(Holding)].node

New == Len(ast) + 1
AddNode(tag, n, type) ==
  /\ Len(ast) < MaxNodes
  /\ ast' = Append(ast, [tag |-> tag, name |-> n, parent |-> Parent, type |-> type])

Begin(phase)   == calls' = Append(calls, [node |-> New, phase |-> phase])
Continue(phase) == calls' = [calls EXCEPT ![Len(calls)].phase = phase]
Return         == calls' = Front(calls)

\* Slip: a redefinition that the environment refuses is not reported.
InsertSilently(n, node, overload) ==
  /\ Env!Declare(n, node, overload)
  /\ UNCHANGED failed

\* insert_symbol reports a redefinition when the environment refuses the symbol.
InsertSymbol(n, node, overload) ==
  /\ Env!Declare(n, node, overload)
  /\ failed' = (failed \/ ~Env!Accepts(n, overload))

HasFuncType(d) == ast[d].type \in FuncTypes \cup ShaderTypes

-----------------------------------------------------------------------------
(* Blocks and loops. *)

\* Slip: a loop does not push a scope of its own.
EnterUnscoped(tag) ==
  /\ InBody
  /\ AddNode(tag, "none", NoType)
  /\ Begin("body")
  /\ IF tag = "loop" THEN UNCHANGED <<stack, answer>> ELSE Env!Enter(New)
  /\ bound' = Unbound
  /\ UNCHANGED failed

Enter(tag) ==          \* check_block, check_while_loop, check_for_loop, check_do_while_loop
  /\ InBody
  /\ AddNode(tag, "none", NoType)
  /\ Begin("body")
  /\ Env!Enter(New)
  /\ bound' = Unbound
  /\ UNCHANGED failed

Leave ==
  /\ InBody
  /\ Current.tag \in {"block", "loop"}
  /\ Env!Leave
  /\ Return
  /\ bound' = Unbound
  /\ UNCHANGED <<ast, failed>>

-----------------------------------------------------------------------------
(* Variables, functions and shaders. *)

NamedType == bound.tag = "type" /\ bound.to \in DOMAIN ast /\ ast[bound.to].type # NoType

\* check_var and check_param insert the symbol once its type is known.  A named
\* type is the type of the symbol of that name, whatever the symbol is.
Declare(n, named) ==
  /\ Checking
  /\ named => NamedType
  /\ AddNode("var", n, IF named THEN ast[bound.to].type ELSE "value")
  /\ InsertSymbol(n, New, FALSE)
  /\ bound' = Unbound
  /\ UNCHANGED calls

\* check_shader_or_func_decl pushes the scope of the parameters and the body.
EnterFunc(tag, n) ==
  /\ TopLevel \/ (InBody /\ tag = "func")
  /\ AddNode(tag, n, NoType)
  /\ Begin("params")
  /\ Env!Enter(New)
  /\ bound' = Unbound
  /\ UNCHANGED failed

\* Slip: the wrong signature is not reported.
BadOperatorSilent ==
  /\ InPhase("params")
  /\ Current.name \in Operators
  /\ Return
  /\ bound' = Unbound
  /\ UNCHANGED <<ast, stack, answer, failed>>

\* The early return of an operator whose signature is wrong: the scope stays.
BadOperator ==
  /\ InPhase("params")
  /\ Current.name \in Operators
  /\ Return
  /\ failed' = TRUE
  /\ bound' = Unbound
  /\ UNCHANGED <<ast, stack, answer>>

\* The type is set before the body is checked, for its return statements.
Signature(type) ==
  /\ InPhase("params")
  /\ Current.name \in Operators => Current.tag = "func"
  /\ type \in (IF Current.tag = "shader" THEN ShaderTypes ELSE FuncTypes)
  /\ ast' = [ast EXCEPT ![Top.node].type = type]
  /\ Continue("body")
  /\ bound' = Unbound
  /\ UNCHANGED <<stack, answer, failed>>

LeaveFunc ==
  /\ InBody
  /\ Current.tag \in {"func", "shader"}
  /\ Env!Leave
  /\ Continue("declare")
  /\ bound' = Unbound
  /\ UNCHANGED <<ast, failed>>

\* The declarations of n in all scopes, inner scopes first.
Visible(n) == Env!Asts(FlattenSeq([i \in DOMAIN stack |-> Env!Outward[i].decls[n]]))

\* Slip: only the scope that the function is declared in is searched.
ConflictsHere(n, node) ==
  \E i \in DOMAIN Env!Top.decls[n] :
    LET d == Env!Top.decls[n][i].ast IN HasFuncType(d) /\ ast[d].type = ast[node].type

\* find_conflicting_overload: all visible functions must differ in type.  A
\* shader conflicts with the only declaration that its name has.
Conflicts(n, node) ==
  IF ast[node].tag = "shader"
  THEN Env!IsSingle(n)
  ELSE \E i \in DOMAIN Visible(n) :
         LET d == Visible(n)[i] IN HasFuncType(d) /\ ast[d].type = ast[node].type

\* insert_func_or_shader_symbol
DeclareFunc ==
  /\ InPhase("declare")
  /\ \/ /\ Conflicts(Current.name, Top.node)
        /\ failed' = TRUE
        /\ UNCHANGED <<stack, answer>>
     \/ /\ ~Conflicts(Current.name, Top.node)
        /\ InsertSymbol(Current.name, Top.node, TRUE)
  /\ Return
  /\ bound' = Unbound
  /\ UNCHANGED ast

-----------------------------------------------------------------------------
(* Structures. *)

\* check_struct_decl inserts the symbol before the structure has a type.
EnterStruct(n) ==
  /\ TopLevel
  /\ n \notin Operators
  /\ AddNode("struct", n, NoType)
  /\ Begin("named")
  /\ InsertSymbol(n, New, FALSE)
  /\ bound' = Unbound

BadStruct ==
  /\ TopLevel
  /\ Operators # {}
  /\ failed' = TRUE
  /\ bound' = Unbound
  /\ UNCHANGED <<ast, calls, stack, answer>>

EnterFields ==
  /\ InPhase("named")
  /\ Env!Enter(Top.node)
  /\ Continue("fields")
  /\ bound' = Unbound
  /\ UNCHANGED <<ast, failed>>

LeaveStruct ==
  /\ InPhase("fields")
  /\ Env!Leave
  /\ ast' = [ast EXCEPT ![Top.node].type = "struct"]
  /\ Return
  /\ bound' = Unbound
  /\ UNCHANGED failed

-----------------------------------------------------------------------------
(* Names and statements. *)

Found    == answer'.tag = "one"
FoundOne == answer'.decl
To(tag)  == bound' = [tag |-> tag, to |-> IF Found THEN FoundOne ELSE 0]

\* check_ident_expr: functions and structures are not values.
Use(n) ==
  /\ Checking
  /\ Env!FindOne(n)
  /\ To("use")
  /\ failed' = (failed \/ ~Found \/ ast[bound'.to].tag \in {"func", "struct"})
  /\ UNCHANGED <<ast, calls>>

\* check_named_type
UseType(n) ==
  /\ Checking
  /\ Env!FindOne(n)
  /\ To("type")
  /\ failed' = (failed \/ ~Found)
  /\ UNCHANGED <<ast, calls>>

\* check_callee, with the outcome of overload resolution left open.
CallName(n) ==
  /\ Checking
  /\ Env!FindAll(n)
  /\ bound' = [tag |-> "call", to |-> 0]
  /\ LET cs == answer'.decls
         isStruct == Len(cs) = 1 /\ ast[cs[1]].tag = "struct"
     IN IF cs # <<>> /\ (isStruct \/ HasFuncType(cs[1]))
        THEN failed' \in {failed, TRUE}
        ELSE failed' = TRUE
  /\ UNCHANGED <<ast, calls>>

\* Slip: the search ends at the innermost scope.
EnclosingHere(tags) ==
  IF Len(stack) > 1 /\ ast[stack[Len(stack)].kind].tag \in tags
  THEN stack[Len(stack)].kind
  ELSE 0

\* The node of the innermost scope that a node with one of the tags pushed.
Enclosing(tags) ==
  LET found == {i \in 2 .. Len(stack) : ast[stack[i].kind].tag \in tags}
  IN IF found = {} THEN 0
     ELSE stack[CHOOSE i \in found : \A j \in found : j <= i].kind

CheckReturn ==
  /\ InBody
  /\ bound' = [tag |-> "return", to |-> Enclosing({"func", "shader"})]
  /\ UNCHANGED <<ast, calls, stack, answer, failed>>

CheckBreak ==          \* check_break_or_continue_stmt
  /\ InBody
  /\ bound' = [tag |-> "break", to |-> Enclosing({"loop"})]
  /\ failed' = (failed \/ bound'.to = 0)
  /\ UNCHANGED <<ast, calls, stack, answer>>

-----------------------------------------------------------------------------
Init ==
  /\ ast = <<>>
  /\ calls = <<>>
  /\ Env!Init
  /\ failed = FALSE
  /\ bound = Unbound

Next ==
  \/ \E tag \in {"block", "loop"} : Enter(tag)
  \/ Leave
  \/ \E n \in Names : EnterStruct(n) \/ Use(n) \/ UseType(n) \/ CallName(n)
  \/ \E n \in Names, named \in BOOLEAN : Declare(n, named)
  \/ \E tag \in {"func", "shader"}, n \in Names : EnterFunc(tag, n)
  \/ BadOperator
  \/ \E type \in FuncTypes \cup ShaderTypes : Signature(type)
  \/ LeaveFunc
  \/ DeclareFunc
  \/ BadStruct
  \/ EnterFields
  \/ LeaveStruct
  \/ CheckReturn
  \/ CheckBreak

Spec == Init /\ [][Next]_vars

-----------------------------------------------------------------------------
(* Properties. *)

Scope ==
  [kind : 0 .. MaxNodes, decls : [Names -> Seq([ast : 1 .. MaxNodes, overload : BOOLEAN])]]

\* Only the innermost call is between two of its phases, and a function whose
\* body is checked has its type.
CallsInOrder ==
  \A k \in DOMAIN calls :
    /\ calls[k].node \in DOMAIN ast
    /\ k < Len(calls) => calls[k].phase = "body"
    /\ calls[k].phase = "body" /\ ast[calls[k].node].tag \in {"func", "shader"} =>
         ast[calls[k].node].type # NoType

\* Types of the variables, and the order of the calls in progress.
TypeOK ==
  /\ ast \in Seq(Node) /\ Len(ast) <= MaxNodes
  /\ calls \in Seq(Call) /\ CallsInOrder
  /\ stack \in Seq(Scope)
  /\ failed \in BOOLEAN
  /\ bound.tag \in BoundTags

\* Every check_* call that has pushed a scope still finds it: the assertion of
\* env_pop_scope (env.c:180) holds, even after errors.
EveryCallHasItsScope == Len(stack) > Len(Holding)

\* While no error has been reported, the scopes below the file's are those of
\* the check_* calls in progress, one each and in the same order.
ScopesMatchCalls ==
  ~failed =>
    /\ Len(stack) = Len(Holding) + 1
    /\ \A k \in DOMAIN Holding : stack[k + 1].kind = Holding[k].node

\* The innermost call in progress for a node with one of the tags.
InnermostCall(tags) ==
  LET found == {k \in DOMAIN Holding : ast[Holding[k].node].tag \in tags}
  IN IF found = {} THEN 0
     ELSE Holding[CHOOSE k \in found : \A j \in found : j <= k].node

\* While no error has been reported, return and break statements are bound to
\* the innermost function and loop being checked; the function has its type.
JumpsBind ==
  ~failed =>
    /\ bound.tag = "return" =>
         /\ bound.to = InnermostCall({"func", "shader"})
         /\ bound.to # 0 => ast[bound.to].type # NoType
    /\ bound.tag = "break" => bound.to = InnermostCall({"loop"}) /\ bound.to # 0

\* Declarations of n that the text being checked lies in the scope of.  The name
\* of a function is declared when its body is over.
InScope(n) ==
  {d \in DOMAIN ast :
     /\ ast[d].name = n
     /\ ast[d].parent = File \/ \E k \in DOMAIN Holding : Holding[k].node = ast[d].parent
     /\ ast[d].tag \in {"func", "shader"} => \A k \in DOMAIN calls : calls[k].node # d}

\* While no error has been reported, a name is bound to its only declaration in
\* the innermost construct that declares it, by the nesting of the program text.
LexicalScope ==
  ~failed /\ bound.tag \in {"use", "type"} =>
    /\ bound.to \in DOMAIN ast
    /\ bound.to \in InScope(ast[bound.to].name)
    /\ \A d \in InScope(ast[bound.to].name) \ {bound.to} : ast[d].parent < ast[bound.to].parent

\* Functions with the same name that are visible together differ in type, so
\* that find_func_from_candidates has something to choose by, even after errors.
VisibleOverloadsDiffer ==
  \A n \in Names : \A i, j \in DOMAIN Visible(n) :
    LET c == Visible(n)[i]
        d == Visible(n)[j]
    IN i # j /\ ast[c].tag = "func" /\ ast[d].tag = "func" => ast[c].type # ast[d].type

=============================================================================
