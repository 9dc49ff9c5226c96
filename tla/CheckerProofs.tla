---------------------------- MODULE CheckerProofs ----------------------------
(***************************************************************************)
(* The scopes of the checker, for every set of names and types and every   *)
(* number of nodes: each check_* call finds the scope that it pushed, and  *)
(* until an error is reported the scopes are exactly those of the calls,   *)
(* so that return and break find the construct they are written in. They   *)
(* then declare what the program text declares there, so that names are    *)
(* bound lexically; and overloads that are visible together always differ. *)
(***************************************************************************)
EXTENDS Checker, SeqLemmas

USE CheckerAssumption

IInv ==
  /\ TypeOK
  /\ EveryCallHasItsScope
  /\ ScopesMatchCalls
  /\ JumpsBind

-----------------------------------------------------------------------------
(* Sequences of calls and of scopes. *)

LEMMA FrontOfCalls ==
  ASSUME NEW S, NEW s \in Seq(S), s # <<>>
  PROVE  /\ Front(s) \in Seq(S)
         /\ Len(Front(s)) = Len(s) - 1
         /\ \A i \in 1 .. Len(s) - 1 : Front(s)[i] = s[i]
BY FrontOfSeq DEF Front

\* The scopes are those of the calls, below the scope of the file.
Matches(scopes, cs) ==
  /\ Len(scopes) = Len(cs) + 1
  /\ \A k \in 1 .. Len(cs) : scopes[k + 1].kind = cs[k].node

LEMMA MatchesIsTheProperty ==
  TypeOK => (ScopesMatchCalls <=> (~failed => Matches(stack, Holding)))
<1> SUFFICES ASSUME TypeOK PROVE ScopesMatchCalls <=> (~failed => Matches(stack, Holding))
  OBVIOUS
<1>1. Holding \in Seq(Call)
  BY FrontOfCalls DEF TypeOK, Holding, InPhase
<1>2. DOMAIN Holding = 1 .. Len(Holding)
  BY <1>1, LenProperties
<1> QED
  BY <1>2 DEF ScopesMatchCalls, Matches

LEMMA MatchesPush ==
  ASSUME NEW scopes \in Seq(Scope), NEW cs \in Seq(Call), Matches(scopes, cs),
         NEW s \in Scope, NEW c \in Call, s.kind = c.node
  PROVE  Matches(Append(scopes, s), Append(cs, c))
<1>1. /\ Len(Append(scopes, s)) = Len(scopes) + 1
      /\ \A i \in 1 .. Len(scopes) : Append(scopes, s)[i] = scopes[i]
      /\ Append(scopes, s)[Len(scopes) + 1] = s
  BY AppendProperties
<1>2. /\ Len(Append(cs, c)) = Len(cs) + 1
      /\ \A i \in 1 .. Len(cs) : Append(cs, c)[i] = cs[i]
      /\ Append(cs, c)[Len(cs) + 1] = c
  BY AppendProperties
<1>3. Len(cs) \in Nat /\ Len(scopes) = Len(cs) + 1
  BY LenProperties DEF Matches
<1>4. ASSUME NEW k \in 1 .. Len(cs) + 1
      PROVE  Append(scopes, s)[k + 1].kind = Append(cs, c)[k].node
  <2>1. CASE k = Len(cs) + 1
    BY <1>1, <1>2, <1>3, <2>1
  <2>2. CASE k # Len(cs) + 1
    <3>1. k \in 1 .. Len(cs) /\ k + 1 \in 1 .. Len(scopes)
      BY <1>3, <2>2
    <3> QED
      BY <1>1, <1>2, <3>1 DEF Matches
  <2> QED
    BY <2>1, <2>2
<1> QED
  BY <1>1, <1>2, <1>3, <1>4 DEF Matches

LEMMA MatchesPop ==
  ASSUME NEW scopes \in Seq(Scope), NEW cs \in Seq(Call), Matches(scopes, cs), cs # <<>>
  PROVE  Matches(Front(scopes), Front(cs))
<1>1. Len(cs) \in Nat \ {0} /\ Len(scopes) = Len(cs) + 1
  BY LenProperties, EmptySeq DEF Matches
<1>2. scopes # <<>>
  BY <1>1, EmptySeq
<1>3. /\ Len(Front(scopes)) = Len(cs)
      /\ \A i \in 1 .. Len(cs) : Front(scopes)[i] = scopes[i]
  BY <1>1, <1>2, FrontOfCalls
<1>4. /\ Len(Front(cs)) = Len(cs) - 1
      /\ \A i \in 1 .. Len(cs) - 1 : Front(cs)[i] = cs[i]
  BY FrontOfCalls
<1>5. ASSUME NEW k \in 1 .. Len(cs) - 1
      PROVE  Front(scopes)[k + 1].kind = Front(cs)[k].node
  <2>1. k \in 1 .. Len(cs) /\ k + 1 \in 1 .. Len(cs)
    BY <1>1
  <2> QED
    BY <1>3, <1>4, <2>1 DEF Matches
<1> QED
  BY <1>1, <1>3, <1>4, <1>5 DEF Matches

\* What is in a scope does not matter to the match.
LEMMA MatchesUpdate ==
  ASSUME NEW scopes, NEW new, NEW cs, NEW ds, Matches(scopes, cs), Len(cs) \in Nat,
         Len(new) = Len(scopes), \A i \in 1 .. Len(scopes) : new[i].kind = scopes[i].kind,
         Len(ds) = Len(cs), \A k \in 1 .. Len(cs) : ds[k].node = cs[k].node
  PROVE  Matches(new, ds)
<1>1. \A k \in 1 .. Len(cs) : k + 1 \in 1 .. Len(scopes)
  BY DEF Matches
<1> QED
  BY <1>1 DEF Matches

-----------------------------------------------------------------------------
(* What the steps do to the syntax nodes and to the calls. *)

\* No node is lost, retagged or loses its type.
AstGrows ==
  /\ ast' \in Seq(Node) /\ Len(ast') <= MaxNodes
  /\ Len(ast) <= Len(ast')
  /\ \A i \in 1 .. Len(ast) :
       /\ ast'[i].tag = ast[i].tag
       /\ ast[i].type # NoType => ast'[i].type # NoType

CallsOK == calls \in Seq(Call) /\ CallsInOrder

LEMMA CallProperties ==
  ASSUME TypeOK
  PROVE  /\ Len(calls) \in Nat /\ DOMAIN calls = 1 .. Len(calls)
         /\ DOMAIN ast = 1 .. Len(ast) /\ Len(ast) \in Nat
         /\ \A k \in 1 .. Len(calls) : calls[k] \in Call /\ calls[k].node \in 1 .. Len(ast)
         /\ calls # <<>> => Len(calls) \in 1 .. Len(calls)
         /\ Len(stack) \in Nat
<1>1. calls \in Seq(Call) /\ ast \in Seq(Node) /\ stack \in Seq(Scope) /\ CallsInOrder
  BY DEF TypeOK
<1>2. Len(calls) \in Nat /\ DOMAIN calls = 1 .. Len(calls)
  BY <1>1, LenProperties
<1>3. DOMAIN ast = 1 .. Len(ast) /\ Len(ast) \in Nat /\ Len(stack) \in Nat
  BY <1>1, LenProperties
<1>4. \A k \in 1 .. Len(calls) : calls[k] \in Call
  BY <1>1, ElementOfSeq
<1>5. \A k \in 1 .. Len(calls) : calls[k].node \in 1 .. Len(ast)
  BY <1>1, <1>2, <1>3 DEF CallsInOrder
<1>6. calls # <<>> => Len(calls) # 0
  BY <1>1, EmptySeq
<1> QED
  BY <1>2, <1>3, <1>4, <1>5, <1>6

LEMMA HoldingProperties ==
  ASSUME TypeOK
  PROVE  Holding \in Seq(Call) /\ Len(Holding) \in Nat
<1>1. Holding \in Seq(Call)
  BY FrontOfCalls DEF TypeOK, Holding, InPhase
<1> QED
  BY <1>1, LenProperties

LEMMA ParentType == ASSUME TypeOK PROVE Parent \in Nat
<1>1. CASE Holding = <<>>
  BY <1>1 DEF Parent, File
<1>2. CASE Holding # <<>>
  <2>1. Len(Holding) \in 1 .. Len(Holding)
    BY <1>2, HoldingProperties, EmptySeq
  <2>2. Holding[Len(Holding)] \in Call
    BY <2>1, HoldingProperties, ElementOfSeq
  <2> QED
    BY <1>2, <2>2 DEF Parent, Call
<1> QED
  BY <1>1, <1>2

LEMMA NodeAdded ==
  ASSUME TypeOK, NEW tag \in Tags, NEW n \in Names \cup {"none"},
         NEW type \in Types \cup {NoType}, AddNode(tag, n, type)
  PROVE  /\ AstGrows
         /\ New \in 1 .. Len(ast') /\ New \in 1 .. MaxNodes
         /\ ast'[New].tag = tag
<1> DEFINE node == [tag |-> tag, name |-> n, parent |-> Parent, type |-> type]
<1>1. node \in Node
  BY ParentType DEF Node
<1>2. node.tag = tag
  OBVIOUS
<1>3. ast' = Append(ast, node) /\ Len(ast) < MaxNodes
  BY DEF AddNode
<1>4. ast \in Seq(Node) /\ Len(ast) \in Nat
  BY LenProperties DEF TypeOK
<1> HIDE DEF node
<1>5. /\ ast' \in Seq(Node) /\ Len(ast') = Len(ast) + 1
      /\ \A i \in 1 .. Len(ast) : ast'[i] = ast[i]
      /\ ast'[Len(ast) + 1] = node
  BY <1>1, <1>3, <1>4, AppendProperties
<1> QED
  BY <1>2, <1>3, <1>4, <1>5 DEF AstGrows, New

\* A nested call begins only in the body of the one around it.
LEMMA CallBegins ==
  ASSUME TypeOK, AstGrows, New \in 1 .. Len(ast'), NEW phase \in {"params", "body", "named"},
         Begin(phase), TopLevel \/ InBody,
         phase = "body" => ast'[New].tag \notin {"func", "shader"}
  PROVE  /\ CallsOK'
         /\ Holding = calls
         /\ Holding' = IF phase = "named" THEN calls ELSE Append(calls, [node |-> New, phase |-> phase])
<1> DEFINE c == [node |-> New, phase |-> phase]
           n == Len(calls)
<1>1. c \in Call /\ c.phase = phase /\ c.node = New
  BY DEF Call
<1>2. calls' = Append(calls, c) /\ calls \in Seq(Call) /\ n \in Nat
  BY LenProperties DEF Begin, TypeOK
<1> HIDE DEF c
<1>3. /\ calls' \in Seq(Call) /\ calls' # <<>> /\ Len(calls') = n + 1
      /\ \A i \in 1 .. n : calls'[i] = calls[i]
      /\ calls'[n + 1] = c
  BY <1>1, <1>2, AppendProperties
<1>4. DOMAIN calls' = 1 .. n + 1 /\ DOMAIN ast' = 1 .. Len(ast') /\ Len(ast') \in Nat
  BY <1>3, LenProperties DEF AstGrows
<1>5. \A k \in 1 .. n : /\ calls[k].node \in 1 .. Len(ast)
                        /\ k < n => calls[k].phase = "body"
                        /\ calls[k].phase = "body" /\ ast[calls[k].node].tag \in {"func", "shader"} =>
                             ast[calls[k].node].type # NoType
  BY CallProperties DEF TypeOK, CallsInOrder
<1>6. n # 0 => calls[n].phase = "body"
  BY EmptySeq DEF TopLevel, InBody, InPhase, Top
<1>7. ASSUME NEW k \in 1 .. n + 1
      PROVE  /\ calls'[k].node \in 1 .. Len(ast')
             /\ k < n + 1 => calls'[k].phase = "body"
             /\ calls'[k].phase = "body" /\ ast'[calls'[k].node].tag \in {"func", "shader"} =>
                  ast'[calls'[k].node].type # NoType
  <2>1. CASE k = n + 1
    BY <1>1, <1>2, <1>3, <2>1
  <2>2. CASE k # n + 1
    <3>1. k \in 1 .. n /\ calls'[k] = calls[k]
      BY <1>2, <1>3, <2>2
    <3>2. k < n \/ k = n
      BY <1>2, <3>1
    <3>3. calls[k].phase = "body"
      BY <1>5, <1>6, <3>1, <3>2
    <3>4. calls[k].node \in 1 .. Len(ast) /\ Len(ast) \in Nat /\ Len(ast) <= Len(ast')
      BY <1>5, <3>1, CallProperties DEF AstGrows
    <3>5. PICK d \in 1 .. Len(ast) : calls[k].node = d /\ calls'[k].node = d
      BY <3>1, <3>4
    <3>6. d \in 1 .. Len(ast')
      BY <3>4
    <3>7. ast[d].tag \in {"func", "shader"} => ast[d].type # NoType
      BY <1>5, <3>1, <3>3, <3>5
    <3>8. ast'[d].tag \in {"func", "shader"} => ast'[d].type # NoType
      BY <3>7 DEF AstGrows
    <3> QED
      BY <3>1, <3>3, <3>5, <3>6, <3>8
  <2> QED
    BY <2>1, <2>2
<1>8. CallsOK'
  BY <1>3, <1>4, <1>7 DEF CallsOK, CallsInOrder
<1>9. Holding = calls
  BY DEF Holding, TopLevel, InBody, InPhase
<1>10. Front(calls') = calls
  <2>1. Len(calls') - 1 = n
    BY <1>2, <1>3
  <2>2. /\ Front(calls') \in Seq(Call) /\ Len(Front(calls')) = n
        /\ \A i \in 1 .. n : Front(calls')[i] = calls'[i]
    BY <1>3, <2>1, FrontOfCalls
  <2> QED
    BY <1>2, <1>3, <2>2, SeqEqual
<1>11. Top' = c
  BY <1>3 DEF Top
<1>12. Holding' = IF phase = "named" THEN Front(calls') ELSE calls'
  BY <1>1, <1>3, <1>11 DEF Holding, InPhase
<1> QED
  BY <1>2, <1>8, <1>9, <1>10, <1>12 DEF c

\* The innermost call moves to its next phase; the body of a function is not
\* checked before its type is known.
LEMMA CallContinues ==
  ASSUME TypeOK, AstGrows, calls # <<>>, NEW phase \in {"body", "declare", "fields"}, Continue(phase),
         phase = "body" => ast'[Top.node].type # NoType
  PROVE  /\ CallsOK'
         /\ Len(calls') = Len(calls) /\ calls' # <<>>
         /\ \A k \in 1 .. Len(calls) : calls'[k].node = calls[k].node
         /\ Top'.phase = phase
<1> DEFINE n == Len(calls)
           c == [calls[n] EXCEPT !.phase = phase]
<1>1. n \in 1 .. n /\ n \in Nat /\ calls \in Seq(Call) /\ calls[n] \in Call
  BY CallProperties DEF TypeOK
<1>2. c \in Call /\ c.phase = phase /\ c.node = calls[n].node
  BY <1>1 DEF Call
<1>3. calls' = [calls EXCEPT ![n] = c]
  BY DEF Continue
<1> HIDE DEF c
<1>4. /\ calls' \in Seq(Call) /\ Len(calls') = n
      /\ \A k \in 1 .. n : calls'[k] = IF k = n THEN c ELSE calls[k]
  BY <1>1, <1>2, <1>3, ExceptSeq
<1> HIDE DEF n
<1>5. DOMAIN calls' = 1 .. n /\ DOMAIN ast' = 1 .. Len(ast') /\ Len(ast') \in Nat
  BY <1>4, LenProperties DEF AstGrows
<1>6. \A k \in 1 .. n : calls'[k].node = calls[k].node
  BY <1>2, <1>4
<1>7. \A k \in 1 .. n : /\ calls[k].node \in 1 .. Len(ast)
                        /\ k < n => calls[k].phase = "body"
                        /\ calls[k].phase = "body" /\ ast[calls[k].node].tag \in {"func", "shader"} =>
                             ast[calls[k].node].type # NoType
  BY CallProperties DEF TypeOK, CallsInOrder, n
<1>8. ASSUME NEW k \in 1 .. n
      PROVE  /\ calls'[k].node \in 1 .. Len(ast')
             /\ k < n => calls'[k].phase = "body"
             /\ calls'[k].phase = "body" /\ ast'[calls'[k].node].tag \in {"func", "shader"} =>
                  ast'[calls'[k].node].type # NoType
  <2>1. calls[k].node \in 1 .. Len(ast) /\ Len(ast) \in Nat /\ Len(ast) <= Len(ast')
    BY <1>7, CallProperties DEF AstGrows
  <2>2. calls'[k].node \in 1 .. Len(ast')
    BY <1>5, <1>6, <2>1
  <2>3. CASE k = n
    BY <1>1, <1>2, <1>4, <2>2, <2>3 DEF Top, n
  <2>4. CASE k # n
    <3>1. calls'[k] = calls[k]
      BY <1>4, <2>4
    <3> QED
      BY <1>7, <2>1, <2>2, <3>1 DEF AstGrows
  <2> QED
    BY <2>3, <2>4
<1>9. CallsOK'
  BY <1>4, <1>5, <1>8 DEF CallsOK, CallsInOrder
<1>10. calls' # <<>> /\ Top'.phase = phase
  BY <1>1, <1>2, <1>4, EmptySeq DEF Top
<1> QED
  BY <1>4, <1>6, <1>9, <1>10 DEF n

\* When the innermost call returns, the one around it goes on with its body.
LEMMA CallReturns ==
  ASSUME TypeOK, AstGrows, calls # <<>>, Return
  PROVE  /\ CallsOK'
         /\ calls' = Front(calls)
         /\ Holding' = calls'
         /\ Len(calls') = Len(calls) - 1
<1> DEFINE n == Len(calls) - 1
<1>1. n \in Nat /\ calls \in Seq(Call)
  BY CallProperties DEF TypeOK
<1>2. calls' = Front(calls)
  BY DEF Return
<1>3. calls' \in Seq(Call) /\ Len(calls') = n /\ \A k \in 1 .. n : calls'[k] = calls[k]
  BY <1>1, <1>2, FrontOfCalls
<1>4. DOMAIN calls' = 1 .. n /\ DOMAIN ast' = 1 .. Len(ast') /\ Len(ast') \in Nat
  BY <1>3, LenProperties DEF AstGrows
<1>5. \A k \in 1 .. n : /\ calls[k].node \in 1 .. Len(ast)
                        /\ calls[k].phase = "body"
                        /\ ast[calls[k].node].tag \in {"func", "shader"} =>
                             ast[calls[k].node].type # NoType
  <2> SUFFICES ASSUME NEW k \in 1 .. n
               PROVE  /\ calls[k].node \in 1 .. Len(ast)
                      /\ calls[k].phase = "body"
                      /\ ast[calls[k].node].tag \in {"func", "shader"} =>
                           ast[calls[k].node].type # NoType
    OBVIOUS
  <2>1. k \in DOMAIN calls /\ k \in 1 .. Len(calls) /\ k < Len(calls)
    BY <1>1, CallProperties
  <2> QED
    BY <2>1, CallProperties DEF TypeOK, CallsInOrder
<1> HIDE DEF n
<1>6. Len(ast) \in Nat /\ Len(ast) <= Len(ast')
  BY CallProperties DEF AstGrows
<1>7. \A k \in 1 .. n :
        /\ calls'[k].node \in 1 .. Len(ast')
        /\ calls'[k].phase = "body"
        /\ ast'[calls'[k].node].tag \in {"func", "shader"} => ast'[calls'[k].node].type # NoType
  BY <1>3, <1>4, <1>5, <1>6 DEF AstGrows
<1>8. CallsOK'
  BY <1>3, <1>4, <1>7 DEF CallsOK, CallsInOrder
<1>9. Holding' = calls'
  <2>1. CASE n = 0
    BY <1>3, <2>1, EmptySeq DEF Holding, InPhase
  <2>2. CASE n # 0
    <3>1. n \in 1 .. n
      BY <1>1, <2>2
    <3>2. calls'[Len(calls')].phase = "body"
      BY <1>3, <1>7, <3>1
    <3> QED
      BY <3>2 DEF Holding, InPhase, Top
  <2> QED
    BY <2>1, <2>2
<1> QED
  BY <1>2, <1>3, <1>8, <1>9 DEF n

\* The syntax tree and the calls may be left alone.
LEMMA SameCalls ==
  ASSUME TypeOK, AstGrows, UNCHANGED calls
  PROVE  CallsOK' /\ Holding' = Holding
<1>1. DOMAIN ast' = 1 .. Len(ast')
  BY LenProperties DEF AstGrows
<1>2. \A k \in 1 .. Len(calls) : calls[k].node \in 1 .. Len(ast) /\ calls[k].node \in 1 .. Len(ast')
  BY CallProperties, <1>1 DEF AstGrows
<1>3. CallsInOrder'
  BY <1>1, <1>2, CallProperties DEF CallsInOrder, TypeOK, AstGrows
<1> QED
  BY <1>3 DEF CallsOK, TypeOK, Holding, InPhase, Top

LEMMA SameAst == ASSUME TypeOK, UNCHANGED ast PROVE AstGrows
  BY CallProperties DEF TypeOK, AstGrows

LEMMA TypeGiven ==
  ASSUME TypeOK, calls # <<>>, NEW type \in Types,
         ast' = [ast EXCEPT ![Top.node].type = type]
  PROVE  AstGrows /\ ast'[Top.node].type # NoType
<1> DEFINE d == Top.node
           e == [ast[d] EXCEPT !.type = type]
<1>1. ast \in Seq(Node) /\ d \in 1 .. Len(ast)
  BY CallProperties DEF TypeOK, Top
<1>2. ast[d] \in Node
  BY <1>1, ElementOfSeq
<1>3. e \in Node /\ e.tag = ast[d].tag /\ e.type = type
  BY <1>2 DEF Node
<1>4. ast' = [ast EXCEPT ![d] = e]
  OBVIOUS
<1>5. type # NoType
  BY DEF Types
<1> HIDE DEF e, d
<1>6. /\ ast' \in Seq(Node) /\ Len(ast') = Len(ast)
      /\ \A i \in 1 .. Len(ast) : ast'[i] = IF i = d THEN e ELSE ast[i]
  <2> DEFINE new == [ast EXCEPT ![d] = e]
  <2>1. /\ new \in Seq(Node) /\ Len(new) = Len(ast)
        /\ \A i \in 1 .. Len(ast) : new[i] = IF i = d THEN e ELSE ast[i]
    BY <1>1, <1>3, ExceptSeq
  <2>2. ast' = new
    BY <1>4
  <2> HIDE DEF new
  <2> QED
    BY <2>1, <2>2
<1>7. Len(ast) <= MaxNodes /\ Len(ast) \in Nat
  BY CallProperties DEF TypeOK
<1>8. AstGrows
  BY <1>3, <1>5, <1>6, <1>7 DEF AstGrows
<1> QED
  BY <1>1, <1>3, <1>5, <1>6, <1>8 DEF d

\* A declared name is the name of a node with one.
LEMMA VarAdded ==
  ASSUME TypeOK, NEW n \in Names, NEW type, AddNode("var", n, type),
         type \in Types \cup {NoType}
  PROVE  AstGrows /\ New \in 1 .. MaxNodes
<1>1. "var" \in Tags
  BY DEF Tags
<1> QED
  BY <1>1, NodeAdded

-----------------------------------------------------------------------------
(* What the steps do to the scopes. *)

LEMMA ScopeEntered ==
  ASSUME stack \in Seq(Scope), NEW k \in 1 .. MaxNodes, Env!Enter(k)
  PROVE  /\ Env!Empty(k) \in Scope /\ Env!Empty(k).kind = k
         /\ stack' = Append(stack, Env!Empty(k))
         /\ stack' \in Seq(Scope) /\ Len(stack') = Len(stack) + 1
<1> DEFINE D == [ast : 1 .. MaxNodes, overload : BOOLEAN]
           t == [n \in Names |-> <<>>]
<1>1. <<>> \in Seq(D)
  BY EmptySeq
<1> HIDE DEF D
<1>2. t \in [Names -> Seq(D)]
  BY <1>1
<1> HIDE DEF t
<1>3. Env!Empty(k) = [kind |-> k, decls |-> t]
  BY DEF Env!Empty, t
<1>4. Env!Empty(k) \in Scope /\ Env!Empty(k).kind = k
  <2>1. k \in 0 .. MaxNodes
    OBVIOUS
  <2>2. Scope = [kind : 0 .. MaxNodes, decls : [Names -> Seq(D)]]
    BY DEF Scope, D
  <2> QED
    BY <1>2, <1>3, <2>1, <2>2
<1>5. stack' = Append(stack, Env!Empty(k))
  BY DEF Env!Enter
<1> QED
  BY <1>4, <1>5, AppendProperties

LEMMA ScopeLeft ==
  ASSUME stack \in Seq(Scope), Env!Leave
  PROVE  /\ stack' = Front(stack)
         /\ stack' \in Seq(Scope) /\ Len(stack') = Len(stack) - 1 /\ Len(stack) > 1
<1>1. Len(stack) > 1 /\ stack' = Front(stack)
  BY DEF Env!Leave, Env!Front, Front
<1>2. stack # <<>>
  BY <1>1, EmptySeq
<1> QED
  BY <1>1, <1>2, FrontOfCalls

LEMMA DeclsUpdate ==
  ASSUME NEW s \in Scope, NEW n,
         NEW d \in [ast : 1 .. MaxNodes, overload : BOOLEAN]
  PROVE  [s EXCEPT !.decls[n] = <<d>> \o @] \in Scope /\ [s EXCEPT !.decls[n] = <<d>> \o @].kind = s.kind
<1> DEFINE D == [ast : 1 .. MaxNodes, overload : BOOLEAN]
           l == <<d>> \o s.decls[n]
           t == [s.decls EXCEPT ![n] = l]
<1>1. s.decls \in [Names -> Seq(D)]
  BY DEF Scope
<1>2. d \in D
  OBVIOUS
<1> HIDE DEF D
<1>3. n \in Names => l \in Seq(D)
  BY <1>1, <1>2, ConcatProperties
<1> HIDE DEF l
<1>4. t \in [Names -> Seq(D)]
  BY <1>1, <1>3
<1>5. [s EXCEPT !.decls[n] = <<d>> \o @] = [s EXCEPT !.decls = t]
  BY DEF l, Scope
<1> HIDE DEF t
<1> QED
  BY <1>4, <1>5 DEF Scope, D

LEMMA ScopeDeclares ==
  ASSUME stack \in Seq(Scope), Len(stack) > 0,
         NEW n, NEW d \in 1 .. MaxNodes, NEW o \in BOOLEAN, Env!Declare(n, d, o)
  PROVE  /\ stack' \in Seq(Scope) /\ Len(stack') = Len(stack)
         /\ \A i \in 1 .. Len(stack) : stack'[i].kind = stack[i].kind
<1>1. CASE UNCHANGED stack
  BY <1>1
<1>2. CASE stack' = [stack EXCEPT ![Len(stack)].decls[n] = <<[ast |-> d, overload |-> o]>> \o @]
  <2> DEFINE e == [ast |-> d, overload |-> o]
             m == Len(stack)
             s == [stack[m] EXCEPT !.decls[n] = <<e>> \o @]
  <2>1. e \in [ast : 1 .. MaxNodes, overload : BOOLEAN]
    OBVIOUS
  <2> HIDE DEF e
  <2>2. m \in 1 .. Len(stack)
    BY LenProperties
  <2>3. stack[m] \in Scope
    BY <2>2, ElementOfSeq
  <2>4. s \in Scope /\ s.kind = stack[m].kind
    BY <2>1, <2>3, DeclsUpdate
  <2>5. stack' = [stack EXCEPT ![m] = s]
    BY <1>2 DEF e
  <2> HIDE DEF s, m
  <2> QED
    BY <2>2, <2>4, <2>5, ExceptSeq
<1> QED
  BY <1>1, <1>2 DEF Env!Declare

-----------------------------------------------------------------------------
(* Every step keeps the scopes and the calls together. *)

Parts ==
  /\ TypeOK
  /\ Len(stack) > Len(Holding)
  /\ ~failed => Matches(stack, Holding)

LEMMA PartsAreIInv == IInv <=> Parts /\ JumpsBind
  BY MatchesIsTheProperty DEF IInv, Parts, EveryCallHasItsScope

LEMMA PartsAreIInvPrime == IInv' <=> Parts' /\ JumpsBind'
  BY PartsAreIInv, PTL

\* What is left to show of a step.
LEMMA PartsNext ==
  ASSUME AstGrows, CallsOK', stack' \in Seq(Scope), failed' \in BOOLEAN, bound'.tag \in BoundTags,
         Len(stack') > Len(Holding'),
         ~failed' => Matches(stack', Holding')
  PROVE  Parts'
<1> QED
  BY DEF Parts, TypeOK, AstGrows, CallsOK

LEMMA UnboundTag == bound' = Unbound => bound'.tag = "none" /\ bound'.tag \in BoundTags
  BY DEF Unbound, BoundTags

\* A step that changes neither the calls nor the kinds of the scopes.
LEMMA KeepsCalls ==
  ASSUME Parts, AstGrows, UNCHANGED calls, stack' \in Seq(Scope), Len(stack') = Len(stack),
         \A i \in 1 .. Len(stack) : stack'[i].kind = stack[i].kind,
         failed' \in BOOLEAN, failed => failed', bound'.tag \in BoundTags
  PROVE  Parts'
<1>1. CallsOK' /\ Holding' = Holding
  BY SameCalls DEF Parts
<1>2. ASSUME ~failed' PROVE Matches(stack', Holding')
  BY <1>1, <1>2, MatchesUpdate, HoldingProperties DEF Parts
<1> QED
  BY <1>1, <1>2, PartsNext DEF Parts

\* A step that opens a call together with its scope.
LEMMA KeepsEntering ==
  ASSUME Parts, NEW tag \in {"block", "loop", "func", "shader"}, NEW n \in Names \cup {"none"},
         NEW phase \in {"params", "body"}, TopLevel \/ InBody,
         AddNode(tag, n, NoType), Begin(phase), Env!Enter(New),
         phase = "body" => tag \notin {"func", "shader"},
         bound' = Unbound, UNCHANGED failed
  PROVE  Parts'
<1>1. AstGrows /\ New \in 1 .. Len(ast') /\ New \in 1 .. MaxNodes /\ ast'[New].tag = tag
  BY NodeAdded DEF Parts, Tags
<1> DEFINE c == [node |-> New, phase |-> phase]
<1>2. CallsOK' /\ Holding = calls /\ Holding' = Append(calls, c)
  BY <1>1, CallBegins DEF Parts
<1>3. c \in Call /\ c.node = New
  BY <1>1 DEF Call
<1>4. /\ Env!Empty(New) \in Scope /\ Env!Empty(New).kind = New
      /\ stack' = Append(stack, Env!Empty(New))
      /\ stack' \in Seq(Scope) /\ Len(stack') = Len(stack) + 1
  BY <1>1, ScopeEntered DEF Parts, TypeOK
<1> HIDE DEF c
<1>5. calls \in Seq(Call) /\ stack \in Seq(Scope)
  BY DEF Parts, TypeOK
<1>6. Len(Holding') = Len(calls) + 1
  BY <1>2, <1>3, <1>5, AppendProperties
<1>7. ASSUME ~failed' PROVE Matches(stack', Holding')
  BY <1>2, <1>3, <1>4, <1>5, <1>7, MatchesPush DEF Parts
<1>8. Len(stack') > Len(Holding')
  BY <1>2, <1>4, <1>6, CallProperties DEF Parts
<1> QED
  BY <1>1, <1>2, <1>4, <1>7, <1>8, UnboundTag, PartsNext DEF Parts, TypeOK

LEMMA EnterKeeps ==
  ASSUME Parts, NEW tag \in {"block", "loop"}, Enter(tag) PROVE Parts'
  BY KeepsEntering DEF Enter

LEMMA EnterFuncKeeps ==
  ASSUME Parts, NEW tag \in {"func", "shader"}, NEW n \in Names, EnterFunc(tag, n) PROVE Parts'
  BY KeepsEntering DEF EnterFunc

\* A step that closes the innermost scope and its call.
LEMMA KeepsLeaving ==
  ASSUME Parts, InBody \/ InPhase("fields"), AstGrows, Return, Env!Leave,
         bound' = Unbound, UNCHANGED failed
  PROVE  Parts'
<1>1. calls # <<>> /\ Holding = calls
  BY DEF InBody, InPhase, Holding
<1>2. CallsOK' /\ calls' = Front(calls) /\ Holding' = calls' /\ Len(calls') = Len(calls) - 1
  BY <1>1, CallReturns DEF Parts
<1>3. stack' = Front(stack) /\ stack' \in Seq(Scope) /\ Len(stack') = Len(stack) - 1
  BY ScopeLeft DEF Parts, TypeOK
<1>4. Len(stack') > Len(Holding')
  BY <1>1, <1>2, <1>3, CallProperties DEF Parts
<1>5. ASSUME ~failed' PROVE Matches(stack', Holding')
  BY <1>1, <1>2, <1>3, <1>5, MatchesPop DEF Parts, TypeOK
<1> QED
  BY <1>2, <1>3, <1>4, <1>5, UnboundTag, PartsNext DEF Parts, TypeOK

LEMMA LeaveKeeps == ASSUME Parts, Leave PROVE Parts'
  BY KeepsLeaving, SameAst DEF Leave, Parts

LEMMA InsertKeeps ==
  ASSUME Parts, NEW n, NEW d \in 1 .. MaxNodes, NEW o \in BOOLEAN, InsertSymbol(n, d, o)
  PROVE  /\ stack' \in Seq(Scope) /\ Len(stack') = Len(stack)
         /\ \A i \in 1 .. Len(stack) : stack'[i].kind = stack[i].kind
         /\ failed' \in BOOLEAN /\ (failed => failed')
<1>1. Env!Declare(n, d, o) /\ failed' = (failed \/ ~Env!Accepts(n, o))
  BY DEF InsertSymbol
<1>2. Len(stack) > 0
  BY CallProperties, HoldingProperties DEF Parts
<1>3. failed' \in BOOLEAN /\ (failed => failed')
  BY <1>1 DEF Parts, TypeOK
<1> QED
  BY <1>1, <1>2, <1>3, ScopeDeclares DEF Parts, TypeOK

LEMMA DeclareKeeps ==
  ASSUME Parts, NEW n \in Names, NEW named \in BOOLEAN, Declare(n, named) PROVE Parts'
<1> DEFINE type == IF named THEN ast[bound.to].type ELSE "value"
<1>1. AddNode("var", n, type) /\ InsertSymbol(n, New, FALSE) /\ bound' = Unbound /\ UNCHANGED calls
  BY DEF Declare
<1>2. type \in Types \cup {NoType}
  <2>1. CASE named
    <3>1. bound.to \in 1 .. Len(ast) /\ ast \in Seq(Node)
      BY <2>1, CallProperties DEF Declare, NamedType, Parts, TypeOK
    <3>2. ast[bound.to] \in Node
      BY <3>1, ElementOfSeq
    <3> QED
      BY <2>1, <3>2 DEF Node
  <2>2. CASE ~named
    BY <2>2 DEF Types
  <2> QED
    BY <2>1, <2>2
<1> HIDE DEF type
<1>3. AstGrows /\ New \in 1 .. MaxNodes
  BY <1>1, <1>2, VarAdded DEF Parts
<1> QED
  BY <1>1, <1>3, InsertKeeps, KeepsCalls, UnboundTag

LEMMA BadOperatorKeeps == ASSUME Parts, BadOperator PROVE Parts'
<1>1. calls # <<>> /\ Holding = calls /\ AstGrows
  BY SameAst DEF BadOperator, InPhase, Holding, Parts
<1>2. CallsOK' /\ Holding' = calls' /\ Len(calls') = Len(calls) - 1
  BY <1>1, CallReturns DEF BadOperator, Parts
<1>3. Len(stack') > Len(Holding')
  BY <1>1, <1>2, CallProperties DEF BadOperator, Parts
<1> QED
  BY <1>1, <1>2, <1>3, UnboundTag, PartsNext DEF BadOperator, Parts, TypeOK

LEMMA SignatureKeeps ==
  ASSUME Parts, NEW type \in FuncTypes \cup ShaderTypes, Signature(type) PROVE Parts'
<1>1. calls # <<>> /\ Holding = calls /\ Top.phase = "params"
  BY DEF Signature, InPhase, Holding
<1>2. AstGrows /\ ast'[Top.node].type # NoType
  BY <1>1, TypeGiven DEF Signature, Parts, Types
<1>3. /\ CallsOK' /\ Len(calls') = Len(calls) /\ calls' # <<>> /\ Top'.phase = "body"
      /\ \A k \in 1 .. Len(calls) : calls'[k].node = calls[k].node
  BY <1>1, <1>2, CallContinues DEF Signature, Parts
<1>4. Holding' = calls'
  BY <1>3 DEF Holding, InPhase
<1>5. UNCHANGED <<stack, failed>> /\ bound' = Unbound
  BY DEF Signature
<1>6. ASSUME ~failed' PROVE Matches(stack', Holding')
  BY <1>1, <1>3, <1>4, <1>5, <1>6, CallProperties, MatchesUpdate DEF Parts
<1> QED
  BY <1>1, <1>2, <1>3, <1>4, <1>5, <1>6, UnboundTag, PartsNext DEF Parts, TypeOK

\* The scope of a function is closed before its name is declared.
LEMMA LeaveFuncKeeps == ASSUME Parts, LeaveFunc PROVE Parts'
<1>1. calls # <<>> /\ Holding = calls /\ AstGrows
  BY SameAst DEF LeaveFunc, InBody, InPhase, Holding, Parts
<1>2. /\ CallsOK' /\ Len(calls') = Len(calls) /\ calls' # <<>> /\ Top'.phase = "declare"
      /\ \A k \in 1 .. Len(calls) : calls'[k].node = calls[k].node
  BY <1>1, CallContinues DEF LeaveFunc, Parts
<1>3. Holding' = Front(calls') /\ calls' \in Seq(Call) /\ calls \in Seq(Call)
  BY <1>2 DEF Holding, InPhase, CallsOK, Parts, TypeOK
<1>4. stack' = Front(stack) /\ stack' \in Seq(Scope) /\ Len(stack') = Len(stack) - 1
  BY ScopeLeft DEF LeaveFunc, Parts, TypeOK
<1>5. /\ Len(Front(calls)) = Len(calls) - 1 /\ Len(Front(calls')) = Len(calls) - 1
      /\ \A k \in 1 .. Len(calls) - 1 : Front(calls)[k] = calls[k]
      /\ \A k \in 1 .. Len(calls) - 1 : Front(calls')[k] = calls'[k]
  BY <1>1, <1>2, <1>3, FrontOfCalls
<1>6. /\ Len(Holding') = Len(Front(calls)) /\ Len(Front(calls)) \in Nat
      /\ \A k \in 1 .. Len(Front(calls)) : Holding'[k].node = Front(calls)[k].node
  BY <1>1, <1>2, <1>3, <1>5, CallProperties, SMTT(20) DEF Parts
<1>7. ASSUME ~failed' PROVE Matches(stack', Holding')
  <2>1. Matches(stack', Front(calls))
    BY <1>1, <1>3, <1>4, <1>7, MatchesPop DEF LeaveFunc, Parts, TypeOK
  <2> QED
    BY <1>6, <2>1, MatchesUpdate
<1>8. Len(stack') > Len(Holding')
  BY <1>1, <1>4, <1>5, <1>6, CallProperties DEF Parts
<1> QED
  BY <1>1, <1>2, <1>4, <1>7, <1>8, UnboundTag, PartsNext DEF LeaveFunc, Parts, TypeOK

LEMMA DeclareFuncKeeps == ASSUME Parts, DeclareFunc PROVE Parts'
<1>1. calls # <<>> /\ Holding = Front(calls) /\ AstGrows
  BY SameAst DEF DeclareFunc, InPhase, Holding, Parts
<1>2. CallsOK' /\ Holding' = Holding
  BY <1>1, CallReturns DEF DeclareFunc, Parts
<1>3. /\ stack' \in Seq(Scope) /\ Len(stack') = Len(stack)
      /\ \A i \in 1 .. Len(stack) : stack'[i].kind = stack[i].kind
      /\ failed' \in BOOLEAN /\ (failed => failed')
  <2>1. CASE failed' = TRUE /\ UNCHANGED stack
    BY <2>1 DEF Parts, TypeOK
  <2>2. CASE InsertSymbol(Current.name, Top.node, TRUE)
    <3>1. Top.node \in 1 .. MaxNodes
      BY <1>1, CallProperties DEF Parts, TypeOK, Top
    <3> QED
      BY <2>2, <3>1, InsertKeeps
  <2> QED
    BY <2>1, <2>2 DEF DeclareFunc
<1>4. ASSUME ~failed' PROVE Matches(stack', Holding')
  BY <1>2, <1>3, <1>4, MatchesUpdate, HoldingProperties DEF Parts
<1> QED
  BY <1>1, <1>2, <1>3, <1>4, UnboundTag, PartsNext DEF DeclareFunc, Parts

\* A structure is declared before its scope is opened.
LEMMA EnterStructKeeps == ASSUME Parts, NEW n \in Names, EnterStruct(n) PROVE Parts'
<1>1. AddNode("struct", n, NoType) /\ Begin("named") /\ InsertSymbol(n, New, FALSE)
  BY DEF EnterStruct
<1>2. "struct" \in Tags
  BY DEF Tags
<1>3. AstGrows /\ New \in 1 .. Len(ast') /\ New \in 1 .. MaxNodes
  BY <1>1, <1>2, NodeAdded DEF Parts
<1>4. CallsOK' /\ Holding = calls /\ Holding' = calls
  BY <1>1, <1>3, CallBegins DEF Parts, EnterStruct
<1>5. /\ stack' \in Seq(Scope) /\ Len(stack') = Len(stack)
      /\ \A i \in 1 .. Len(stack) : stack'[i].kind = stack[i].kind
      /\ failed' \in BOOLEAN /\ (failed => failed')
  BY <1>1, <1>3, InsertKeeps
<1>6. ASSUME ~failed' PROVE Matches(stack', Holding')
  BY <1>4, <1>5, <1>6, MatchesUpdate, HoldingProperties DEF Parts
<1> QED
  BY <1>3, <1>4, <1>5, <1>6, UnboundTag, PartsNext DEF EnterStruct, Parts

LEMMA BadStructKeeps == ASSUME Parts, BadStruct PROVE Parts'
  BY SameAst, KeepsCalls, UnboundTag DEF BadStruct, Parts, TypeOK

LEMMA EnterFieldsKeeps == ASSUME Parts, EnterFields PROVE Parts'
<1>1. calls # <<>> /\ Holding = Front(calls) /\ AstGrows
  BY SameAst DEF EnterFields, InPhase, Holding, Parts
<1>2. /\ CallsOK' /\ Len(calls') = Len(calls) /\ calls' # <<>> /\ Top'.phase = "fields"
      /\ \A k \in 1 .. Len(calls) : calls'[k].node = calls[k].node
  BY <1>1, CallContinues DEF EnterFields, Parts
<1>3. Holding' = calls'
  BY <1>2 DEF Holding, InPhase
<1> DEFINE n == Len(calls)
<1>4. n \in 1 .. n /\ calls[n] \in Call /\ Top.node = calls[n].node /\ Top.node \in 1 .. MaxNodes
  BY <1>1, CallProperties DEF Parts, TypeOK, Top
<1>5. /\ Env!Empty(Top.node) \in Scope /\ Env!Empty(Top.node).kind = Top.node
      /\ stack' = Append(stack, Env!Empty(Top.node))
      /\ stack' \in Seq(Scope) /\ Len(stack') = Len(stack) + 1
  BY <1>4, ScopeEntered DEF EnterFields, Parts, TypeOK
<1>6. /\ Front(calls) \in Seq(Call) /\ Len(Front(calls)) = n - 1
      /\ \A k \in 1 .. n - 1 : Front(calls)[k] = calls[k]
  BY <1>1, FrontOfCalls DEF Parts, TypeOK
<1> HIDE DEF n
<1>7. ASSUME ~failed' PROVE Matches(stack', Holding')
  <2> DEFINE whole == Append(Front(calls), calls[n])
  <2>1. Matches(stack', whole)
    BY <1>1, <1>4, <1>5, <1>6, <1>7, MatchesPush DEF EnterFields, Parts, TypeOK
  <2>2. Len(whole) = n - 1 + 1 /\ \A k \in 1 .. n - 1 : whole[k] = calls[k]
    BY <1>4, <1>6, AppendProperties
  <2>3. whole[n - 1 + 1] = calls[n]
    BY <1>4, <1>6, AppendProperties
  <2> HIDE DEF whole
  <2>4. Len(whole) = n /\ n \in Nat /\ \A k \in 1 .. n : whole[k] = calls[k]
    <3>1. n \in Nat /\ n - 1 + 1 = n
      BY <1>4, CallProperties DEF Parts, n
    <3> QED
      BY <2>2, <2>3, <3>1
  <2> QED
    BY <1>2, <1>3, <2>1, <2>4, MatchesUpdate DEF n
<1>8. Len(stack') > Len(Holding')
  BY <1>1, <1>2, <1>3, <1>5, <1>6, CallProperties DEF Parts, n
<1> QED
  BY <1>1, <1>2, <1>5, <1>7, <1>8, UnboundTag, PartsNext DEF EnterFields, Parts, TypeOK

LEMMA LeaveStructKeeps == ASSUME Parts, LeaveStruct PROVE Parts'
<1>1. "struct" \in Types /\ calls # <<>>
  BY DEF Types, LeaveStruct, InPhase
<1>2. AstGrows
  BY <1>1, TypeGiven DEF LeaveStruct, Parts
<1> QED
  BY <1>2, KeepsLeaving DEF LeaveStruct

LEMMA NamesKeep ==
  ASSUME Parts, NEW n \in Names, Use(n) \/ UseType(n) \/ CallName(n) PROVE Parts'
<1>1. UNCHANGED <<ast, calls, stack>>
  BY DEF Use, UseType, CallName, Env!FindOne, Env!FindAll
<1>2. bound'.tag \in BoundTags
  <2>1. ASSUME NEW tag, To(tag) PROVE bound'.tag = tag
    BY <2>1 DEF To
  <2>2. CASE Use(n)
    BY <2>1, <2>2 DEF Use, BoundTags
  <2>3. CASE UseType(n)
    BY <2>1, <2>3 DEF UseType, BoundTags
  <2>4. CASE CallName(n)
    BY <2>4 DEF CallName, BoundTags
  <2> QED
    BY <2>2, <2>3, <2>4
<1>3. failed' \in BOOLEAN /\ (failed => failed')
  BY DEF Use, UseType, CallName, Found, Parts, TypeOK
<1> QED
  BY <1>1, <1>2, <1>3, SameAst, KeepsCalls DEF Parts, TypeOK

LEMMA JumpsKeep == ASSUME Parts, CheckReturn \/ CheckBreak PROVE Parts'
<1>1. UNCHANGED <<ast, calls, stack>>
  BY DEF CheckReturn, CheckBreak
<1>2. bound'.tag \in BoundTags
  BY DEF CheckReturn, CheckBreak, BoundTags
<1>3. failed' \in BOOLEAN /\ (failed => failed')
  BY DEF CheckReturn, CheckBreak, Parts, TypeOK
<1> QED
  BY <1>1, <1>2, <1>3, SameAst, KeepsCalls DEF Parts, TypeOK

LEMMA NextKeeps == ASSUME Parts, [Next]_vars PROVE Parts'
<1>1. CASE UNCHANGED vars
  BY <1>1, SameAst, KeepsCalls DEF vars, Parts, TypeOK
<1>2. CASE Next
  BY <1>2, EnterKeeps, LeaveKeeps, DeclareKeeps, EnterFuncKeeps, BadOperatorKeeps, SignatureKeeps,
     LeaveFuncKeeps, DeclareFuncKeeps, EnterStructKeeps, BadStructKeeps, EnterFieldsKeeps,
     LeaveStructKeeps, NamesKeep, JumpsKeep, Zenon DEF Next
<1> QED
  BY <1>1, <1>2

LEMMA InitParts == Init => Parts
<1> SUFFICES ASSUME Init PROVE Parts
  OBVIOUS
<1> DEFINE file == Env!Empty(File)
<1>1. ast = <<>> /\ calls = <<>> /\ stack = <<file>> /\ failed = FALSE /\ bound.tag = "none"
  BY DEF Init, Env!Init, Unbound
<1>2. file \in Scope
  <2> DEFINE D == [ast : 1 .. MaxNodes, overload : BOOLEAN]
             t == [n \in Names |-> <<>>]
  <2>1. <<>> \in Seq(D)
    BY EmptySeq
  <2> HIDE DEF D
  <2>2. t \in [Names -> Seq(D)]
    BY <2>1
  <2> HIDE DEF t
  <2>3. file = [kind |-> File, decls |-> t]
    BY DEF Env!Empty, t
  <2>4. File \in 0 .. MaxNodes
    BY DEF File
  <2>5. Scope = [kind : 0 .. MaxNodes, decls : [Names -> Seq(D)]]
    BY DEF Scope, D
  <2> HIDE DEF file
  <2> QED
    BY <2>2, <2>3, <2>4, <2>5
<1> HIDE DEF file
<1>3. stack \in Seq(Scope) /\ Len(stack) = 1
  BY <1>1, <1>2
<1>4. /\ ast \in Seq(Node) /\ Len(ast) = 0
      /\ calls \in Seq(Call) /\ Len(calls) = 0 /\ DOMAIN calls = {}
  BY <1>1, EmptySeq
<1>5. TypeOK
  <2>1. CallsInOrder
    BY <1>4 DEF CallsInOrder
  <2>2. bound.tag \in BoundTags
    BY <1>1 DEF BoundTags
  <2>3. Len(ast) <= MaxNodes
    BY <1>4
  <2> QED
    BY <1>1, <1>3, <1>4, <2>1, <2>2, <2>3 DEF TypeOK
<1>6. Holding = calls
  BY <1>1 DEF Holding, InPhase
<1> QED
  BY <1>3, <1>4, <1>5, <1>6 DEF Parts, Matches

-----------------------------------------------------------------------------
(* Return and break statements. *)

\* The two searches agree, since scope k + 1 is that of call k.
LEMMA SearchesAgree ==
  ASSUME Parts, ~failed, Holding = calls, NEW tags
  PROVE  Enclosing(tags) = InnermostCall(tags)
<1> DEFINE n  == Len(calls)
           ss == {i \in 2 .. Len(stack) : ast[stack[i].kind].tag \in tags}
           cs == {k \in 1 .. n : ast[calls[k].node].tag \in tags}
<1>1. n \in Nat /\ DOMAIN calls = 1 .. n /\ Len(stack) = n + 1
  BY CallProperties DEF Parts, Matches
<1>2. \A k \in 1 .. n : stack[k + 1].kind = calls[k].node
  BY DEF Parts, Matches
<1>3. \A k \in cs : k + 1 \in ss
  BY <1>1, <1>2
<1>4. \A i \in ss : i - 1 \in cs
  <2> SUFFICES ASSUME NEW i \in ss PROVE i - 1 \in cs
    OBVIOUS
  <2>1. i - 1 \in 1 .. n /\ i - 1 + 1 = i
    BY <1>1
  <2> QED
    BY <1>2, <2>1
<1>5. Enclosing(tags) = IF ss = {} THEN 0 ELSE stack[CHOOSE i \in ss : \A j \in ss : j <= i].kind
  BY DEF Enclosing
<1>6. InnermostCall(tags) = IF cs = {} THEN 0 ELSE calls[CHOOSE k \in cs : \A j \in cs : j <= k].node
  BY <1>1 DEF InnermostCall
<1>7. ss \subseteq 2 .. n + 1 /\ cs \in SUBSET (1 .. n)
  BY <1>1
<1> HIDE DEF ss, cs, n
<1>8. CASE cs = {}
  BY <1>4, <1>5, <1>6, <1>8
<1>9. CASE cs # {}
  <2>1. PICK m \in cs : \A j \in cs : j <= m
    BY <1>1, <1>7, <1>9, LargestElement
  <2>2. m \in 1 .. n /\ m \in Nat
    BY <1>7, <2>1
  <2>3. (CHOOSE k \in cs : \A j \in cs : j <= k) = m
    <3>1. \A k \in cs : k \in Nat
      BY <1>7
    <3>2. ASSUME NEW k \in cs, \A j \in cs : j <= k PROVE k = m
      BY <2>1, <2>2, <3>1, <3>2
    <3> QED
      BY <2>1, <3>2
  <2>4. m + 1 \in ss /\ \A i \in ss : i <= m + 1
    <3>1. \A i \in ss : i - 1 <= m /\ i \in Nat
      BY <1>1, <1>4, <1>7, <2>1
    <3> QED
      BY <1>3, <2>1, <2>2, <3>1
  <2>5. (CHOOSE i \in ss : \A j \in ss : j <= i) = m + 1
    <3>1. \A i \in ss : i \in Nat
      BY <1>1, <1>7
    <3>2. ASSUME NEW i \in ss, \A j \in ss : j <= i PROVE i = m + 1
      BY <2>2, <2>4, <3>1, <3>2
    <3> QED
      BY <2>4, <3>2
  <2> QED
    BY <1>2, <1>5, <1>6, <1>9, <2>2, <2>3, <2>4, <2>5
<1> QED
  BY <1>8, <1>9

\* The innermost function that is being checked has its type.
LEMMA InnermostIsTyped ==
  ASSUME Parts, Holding = calls, InBody, NEW tags, tags \subseteq {"func", "shader"},
         NEW f, f = InnermostCall(tags), f # 0
  PROVE  ast[f].type # NoType
<1> DEFINE n  == Len(calls)
           cs == {k \in 1 .. n : ast[calls[k].node].tag \in tags}
<1>1. n \in Nat /\ DOMAIN calls = 1 .. n
  BY CallProperties DEF Parts
<1>2. f = IF cs = {} THEN 0 ELSE calls[CHOOSE k \in cs : \A j \in cs : j <= k].node
  BY <1>1, SMTT(20) DEF InnermostCall
<1>3. cs \in SUBSET (1 .. n)
  OBVIOUS
<1>4. \A k \in cs : ast[calls[k].node].type # NoType
  <2> SUFFICES ASSUME NEW k \in cs PROVE ast[calls[k].node].type # NoType
    OBVIOUS
  <2>1. calls[k].phase = "body"
    <3>1. k \in DOMAIN calls /\ (k < n \/ k = n)
      BY <1>1
    <3> QED
      BY <3>1 DEF Parts, TypeOK, CallsInOrder, InBody, InPhase, Top
  <2> QED
    BY <1>1, <2>1 DEF Parts, TypeOK, CallsInOrder
<1> HIDE DEF cs, n
<1>5. cs # {}
  BY <1>2
<1>6. PICK m \in cs : \A j \in cs : j <= m
  BY <1>1, <1>3, <1>5, LargestElement
<1>7. (CHOOSE k \in cs : \A j \in cs : j <= k) \in cs
  BY <1>6
<1> QED
  BY <1>2, <1>4, <1>5, <1>7

LEMMA JumpsKeepBinding ==
  ASSUME Parts, CheckReturn \/ CheckBreak
  PROVE  JumpsBind'
<1>1. Holding = calls /\ InBody
  BY DEF CheckReturn, CheckBreak, InBody, InPhase, Holding
<1>2. UNCHANGED <<ast, calls, stack>>
  BY DEF CheckReturn, CheckBreak
<1>3. \A tags : InnermostCall(tags)' = InnermostCall(tags)
  BY <1>2 DEF InnermostCall, Holding, InPhase, Top
<1>4. CASE CheckReturn
  <2>1. bound' = [tag |-> "return", to |-> Enclosing({"func", "shader"})] /\ UNCHANGED failed
    BY <1>4 DEF CheckReturn
  <2>2. ASSUME ~failed
        PROVE  /\ bound'.to = InnermostCall({"func", "shader"})
               /\ bound'.to # 0 => ast[bound'.to].type # NoType
    BY <1>1, <2>1, <2>2, SearchesAgree, InnermostIsTyped
  <2> QED
    BY <1>2, <1>3, <2>1, <2>2 DEF JumpsBind
<1>5. CASE CheckBreak
  <2>1. bound' = [tag |-> "break", to |-> Enclosing({"loop"})] /\ failed' = (failed \/ bound'.to = 0)
    BY <1>5 DEF CheckBreak
  <2>2. ASSUME ~failed PROVE bound'.to = InnermostCall({"loop"})
    BY <1>1, <2>1, <2>2, SearchesAgree
  <2> QED
    BY <1>3, <2>1, <2>2 DEF JumpsBind
<1> QED
  BY <1>4, <1>5

LEMMA OthersBindNothing ==
  ASSUME Parts, Next, ~(CheckReturn \/ CheckBreak)
  PROVE  JumpsBind'
<1>1. bound'.tag \notin {"return", "break"}
  <2>1. CASE bound' = Unbound
    BY <2>1 DEF Unbound
  <2>2. ASSUME NEW tag, To(tag) PROVE bound'.tag = tag
    BY <2>2 DEF To
  <2>3. CASE \E n \in Names : Use(n) \/ UseType(n) \/ CallName(n)
    <3>1. ASSUME NEW n \in Names, Use(n) PROVE bound'.tag = "use"
      BY <2>2, <3>1 DEF Use
    <3>2. ASSUME NEW n \in Names, UseType(n) PROVE bound'.tag = "type"
      BY <2>2, <3>2 DEF UseType
    <3>3. ASSUME NEW n \in Names, CallName(n) PROVE bound'.tag = "call"
      BY <3>3 DEF CallName
    <3> QED
      BY <2>3, <3>1, <3>2, <3>3
  <2>4. bound' = Unbound \/ \E n \in Names : Use(n) \/ UseType(n) \/ CallName(n)
    BY Zenon DEF Next, Enter, Leave, Declare, EnterFunc, BadOperator, Signature, LeaveFunc,
       DeclareFunc, EnterStruct, BadStruct, EnterFields, LeaveStruct
  <2> QED
    BY <2>1, <2>3, <2>4
<1> QED
  BY <1>1 DEF JumpsBind

LEMMA StepKeeps == ASSUME Parts, JumpsBind, [Next]_vars PROVE JumpsBind'
<1>1. CASE UNCHANGED vars
  <2>1. UNCHANGED <<ast, calls, failed, bound>>
    BY <1>1 DEF vars
  <2>2. \A tags : InnermostCall(tags)' = InnermostCall(tags)
    BY <2>1 DEF InnermostCall, Holding, InPhase, Top
  <2> QED
    BY <2>1, <2>2 DEF JumpsBind
<1>2. CASE Next
  BY <1>2, JumpsKeepBinding, OthersBindNothing
<1> QED
  BY <1>1, <1>2

-----------------------------------------------------------------------------
(* How the calls nest. *)

\* The call k is for a node written directly in the one around it, its phase is
\* one of those that its kind of node has, and a function has its type once its
\* signature is checked.
NestsAt(tree, cs, k) ==
  LET d == cs[k].node
  IN /\ tree[d].parent = (IF k = 1 THEN File ELSE cs[k - 1].node)
     /\ \A j \in 1 .. k - 1 : cs[j].node < d
     /\ cs[k].phase \in {"named", "fields"} <=> tree[d].tag = "struct"
     /\ cs[k].phase \in {"params", "declare"} => tree[d].tag \in {"func", "shader"}
     /\ cs[k].phase \in {"body", "declare"} /\ tree[d].tag = "func" => tree[d].type \in FuncTypes
     /\ cs[k].phase = "named" => d = Len(tree)

Nesting ==
  /\ \A d \in 1 .. Len(ast) : ast[d].parent < d
  /\ \A k \in 1 .. Len(calls) : NestsAt(ast, calls, k)

\* Whether a call nests depends on the nodes of the calls and on its phase only.
LEMMA NestsMoved ==
  ASSUME NEW tree, NEW new, NEW cs, NEW ds, NEW k, NestsAt(tree, cs, k),
         ds[k].node = cs[k].node, ds[k].phase = cs[k].phase,
         k # 1 => ds[k - 1].node = cs[k - 1].node,
         \A j \in 1 .. k - 1 : ds[j].node = cs[j].node,
         new[cs[k].node].tag = tree[cs[k].node].tag,
         new[cs[k].node].parent = tree[cs[k].node].parent,
         new[cs[k].node].type = tree[cs[k].node].type,
         cs[k].phase = "named" => Len(new) = Len(tree)
  PROVE  NestsAt(new, ds, k)
<1> DEFINE d == cs[k].node
<1>1. /\ tree[d].parent = (IF k = 1 THEN File ELSE cs[k - 1].node)
      /\ \A j \in 1 .. k - 1 : cs[j].node < d
      /\ cs[k].phase \in {"named", "fields"} <=> tree[d].tag = "struct"
      /\ cs[k].phase \in {"params", "declare"} => tree[d].tag \in {"func", "shader"}
      /\ cs[k].phase \in {"body", "declare"} /\ tree[d].tag = "func" => tree[d].type \in FuncTypes
      /\ cs[k].phase = "named" => d = Len(tree)
  BY DEF NestsAt
<1> HIDE DEF d
<1>2. ds[k].node = d /\ new[d].tag = tree[d].tag /\ new[d].parent = tree[d].parent /\ new[d].type = tree[d].type
  BY DEF d
<1>3. new[d].parent = (IF k = 1 THEN File ELSE ds[k - 1].node) /\ \A j \in 1 .. k - 1 : ds[j].node < d
  BY <1>1, <1>2
<1> QED
  BY <1>1, <1>2, <1>3 DEF NestsAt

\* Only the innermost call is not in a body.
LEMMA OuterCalls ==
  ASSUME TypeOK
  PROVE  \A k \in 1 .. Len(calls) : k = Len(calls) \/ calls[k].phase = "body"
<1>1. Len(calls) \in Nat /\ DOMAIN calls = 1 .. Len(calls)
  BY CallProperties
<1>2. \A k \in 1 .. Len(calls) : k < Len(calls) \/ k = Len(calls)
  <2> DEFINE n == Len(calls)
  <2>1. n \in Nat
    BY <1>1
  <2> HIDE DEF n
  <2>2. \A k \in 1 .. n : k < n \/ k = n
    BY <2>1
  <2> QED
    BY <2>2 DEF n
<1>3. \A k \in 1 .. Len(calls) : k < Len(calls) => calls[k].phase = "body"
  BY <1>1 DEF TypeOK, CallsInOrder
<1> QED
  BY <1>2, <1>3

\* A new node is the last one, inside the call that holds a scope.
LEMMA NewNode ==
  ASSUME TypeOK, NEW tag \in Tags, NEW n \in Names \cup {"none"},
         NEW type \in Types \cup {NoType}, AddNode(tag, n, type)
  PROVE  /\ Len(ast') = Len(ast) + 1 /\ New = Len(ast) + 1 /\ Len(ast) \in Nat
         /\ \A i \in 1 .. Len(ast) : ast'[i] = ast[i]
         /\ ast'[New] = [tag |-> tag, name |-> n, parent |-> Parent, type |-> type]
<1> DEFINE node == [tag |-> tag, name |-> n, parent |-> Parent, type |-> type]
<1>1. node \in Node
  BY ParentType DEF Node
<1>2. ast' = Append(ast, node) /\ ast \in Seq(Node) /\ Len(ast) \in Nat
  BY LenProperties DEF AddNode, TypeOK
<1> HIDE DEF node
<1>3. QED
  <2>1. /\ Len(ast') = Len(ast) + 1
        /\ \A i \in 1 .. Len(ast) : ast'[i] = ast[i]
        /\ ast'[Len(ast) + 1] = node
    BY <1>1, <1>2, AppendProperties
  <2> QED
    BY <1>2, <2>1 DEF New, node

LEMMA ParentIsCall ==
  ASSUME TypeOK, Holding = calls
  PROVE  /\ Parent = IF Len(calls) = 0 THEN File ELSE calls[Len(calls)].node
         /\ Parent \in 0 .. Len(ast)
<1>1. calls = <<>> <=> Len(calls) = 0
  BY EmptySeq DEF TypeOK
<1> QED
  BY <1>1, CallProperties DEF Parent, File

\* A call begins for a new node, directly inside the innermost call.
LEMMA NestsBegin ==
  ASSUME TypeOK, Nesting, TopLevel \/ InBody, NEW tag \in Tags, NEW n \in Names \cup {"none"},
         AddNode(tag, n, NoType), NEW phase \in {"params", "body", "named"}, Begin(phase),
         phase = "named" <=> tag = "struct",
         phase = "params" => tag \in {"func", "shader"},
         phase = "body" => tag \in {"block", "loop"}
  PROVE  Nesting'
<1> DEFINE n0 == Len(calls)
           c == [node |-> New, phase |-> phase]
<1>1. /\ Len(ast') = Len(ast) + 1 /\ New = Len(ast) + 1 /\ Len(ast) \in Nat
      /\ \A i \in 1 .. Len(ast) : ast'[i] = ast[i]
      /\ ast'[New].tag = tag /\ ast'[New].parent = Parent
  <2>1. NoType \in Types \cup {NoType}
    OBVIOUS
  <2>2. /\ Len(ast') = Len(ast) + 1 /\ New = Len(ast) + 1 /\ Len(ast) \in Nat
        /\ \A i \in 1 .. Len(ast) : ast'[i] = ast[i]
        /\ ast'[New] = [tag |-> tag, name |-> n, parent |-> Parent, type |-> NoType]
    BY <2>1, NewNode
  <2> QED
    BY <2>2
<1>2. Holding = calls
  BY DEF Holding, TopLevel, InBody, InPhase
<1>3. Parent = (IF n0 = 0 THEN File ELSE calls[n0].node) /\ Parent \in 0 .. Len(ast)
  BY <1>2, ParentIsCall
<1>4. n0 \in Nat /\ calls \in Seq(Call) /\ calls' = Append(calls, c)
  BY CallProperties DEF TypeOK, Begin
<1>5. c \in Call /\ c.node = New /\ c.phase = phase
  BY <1>1 DEF Call
<1> HIDE DEF c, n0
<1>6. Len(calls') = n0 + 1 /\ calls'[n0 + 1] = c /\ \A i \in 1 .. n0 : calls'[i] = calls[i]
  BY <1>4, <1>5, AppendProperties DEF n0
<1>7. \A k \in 1 .. n0 : calls[k].node \in 1 .. Len(ast) /\ NestsAt(ast, calls, k)
  BY CallProperties DEF Nesting, n0
<1>8. n0 # 0 => calls[n0].phase = "body"
  BY EmptySeq DEF TopLevel, InBody, InPhase, Top, n0
<1>9. \A k \in 1 .. n0 : calls[k].phase = "body"
  <2>1. \A k \in 1 .. n0 : k = n0 \/ calls[k].phase = "body"
    BY OuterCalls DEF n0
  <2>2. \A k \in 1 .. n0 : n0 # 0
    BY <1>4
  <2> QED
    BY <1>8, <2>1, <2>2
<1>10. \A d \in 1 .. Len(ast') : ast'[d].parent < d
  <2> SUFFICES ASSUME NEW d \in 1 .. Len(ast') PROVE ast'[d].parent < d
    OBVIOUS
  <2>1. CASE d = New
    BY <1>1, <1>3, <2>1
  <2>2. CASE d # New
    <3>1. d \in 1 .. Len(ast)
      BY <1>1, <2>2
    <3> QED
      BY <1>1, <3>1 DEF Nesting
  <2> QED
    BY <2>1, <2>2
<1>11. ASSUME NEW k \in 1 .. n0 + 1 PROVE NestsAt(ast', calls', k)
  <2>1. CASE k \in 1 .. n0
    <3>1. /\ calls'[k] = calls[k] /\ calls[k].node \in 1 .. Len(ast) /\ NestsAt(ast, calls, k)
          /\ ast'[calls[k].node] = ast[calls[k].node]
          /\ calls[k].phase = "body"
          /\ \A j \in 1 .. k - 1 : calls'[j] = calls[j]
          /\ k # 1 => calls'[k - 1] = calls[k - 1]
      BY <1>1, <1>4, <1>6, <1>7, <1>9, <2>1
    <3> QED
      BY <3>1, NestsMoved
  <2>2. CASE k = n0 + 1
    <3>1. calls'[k].node = New /\ calls'[k].phase = phase
      BY <1>5, <1>6, <2>2
    <3>2. ast'[New].parent = (IF k = 1 THEN File ELSE calls'[k - 1].node)
      <4>1. (k = 1 <=> n0 = 0) /\ k - 1 = n0 /\ (n0 # 0 => n0 \in 1 .. n0)
        BY <1>4, <2>2
      <4> QED
        BY <1>1, <1>3, <1>6, <4>1
    <3>3. \A j \in 1 .. k - 1 : calls'[j].node < New
      <4>1. \A j \in 1 .. k - 1 : j \in 1 .. n0
        BY <1>4, <2>2
      <4> QED
        BY <1>1, <1>6, <1>7, <4>1
    <3> QED
      BY <1>1, <3>1, <3>2, <3>3 DEF NestsAt
  <2> QED
    BY <1>4, <2>1, <2>2
<1> QED
  BY <1>6, <1>10, <1>11 DEF Nesting

\* A variable is declared inside a call.
LEMMA NestsDeclare ==
  ASSUME TypeOK, Nesting, Checking, NEW n \in Names, NEW type \in Types \cup {NoType},
         AddNode("var", n, type), UNCHANGED calls
  PROVE  Nesting'
<1>1. /\ Len(ast') = Len(ast) + 1 /\ New = Len(ast) + 1 /\ Len(ast) \in Nat
      /\ \A i \in 1 .. Len(ast) : ast'[i] = ast[i]
      /\ ast'[New].parent = Parent
  <2>1. "var" \in Tags /\ n \in Names \cup {"none"}
    BY DEF Tags
  <2>2. /\ Len(ast') = Len(ast) + 1 /\ New = Len(ast) + 1 /\ Len(ast) \in Nat
        /\ \A i \in 1 .. Len(ast) : ast'[i] = ast[i]
        /\ ast'[New] = [tag |-> "var", name |-> n, parent |-> Parent, type |-> type]
    BY <2>1, NewNode
  <2> QED
    BY <2>2
<1>2. Holding = calls
  BY DEF Holding, Checking, TopLevel, InBody, InPhase
<1>3. Parent \in 0 .. Len(ast)
  BY <1>2, ParentIsCall
<1>4. \A k \in 1 .. Len(calls) : calls[k].node \in 1 .. Len(ast) /\ NestsAt(ast, calls, k)
  BY CallProperties DEF Nesting
<1>5. \A k \in 1 .. Len(calls) : calls[k].phase # "named"
  <2>1. \A k \in 1 .. Len(calls) : k = Len(calls) \/ calls[k].phase = "body"
    BY OuterCalls
  <2>2. calls # <<>> => calls[Len(calls)].phase # "named"
    BY DEF Checking, TopLevel, InBody, InPhase, Top
  <2>3. \A k \in 1 .. Len(calls) : calls # <<>>
    BY EmptySeq
  <2> QED
    BY <2>1, <2>2, <2>3
<1>6. \A d \in 1 .. Len(ast') : ast'[d].parent < d
  <2> SUFFICES ASSUME NEW d \in 1 .. Len(ast') PROVE ast'[d].parent < d
    OBVIOUS
  <2>1. d = New \/ d \in 1 .. Len(ast)
    BY <1>1
  <2> QED
    BY <1>1, <1>3, <2>1 DEF Nesting
<1>7. ASSUME NEW k \in 1 .. Len(calls) PROVE NestsAt(ast', calls', k)
  <2>1. ast'[calls[k].node] = ast[calls[k].node] /\ NestsAt(ast, calls, k) /\ calls[k].phase # "named"
    BY <1>1, <1>4, <1>5
  <2> QED
    BY <2>1, NestsMoved
<1> QED
  BY <1>6, <1>7 DEF Nesting

\* Nothing changes in the tree, but perhaps the type of one node.
OnlyTypeOf(d) ==
  /\ Len(ast') = Len(ast)
  /\ \A i \in 1 .. Len(ast) :
       /\ ast'[i].tag = ast[i].tag /\ ast'[i].name = ast[i].name /\ ast'[i].parent = ast[i].parent
       /\ i # d => ast'[i].type = ast[i].type

LEMMA SameTypes == ASSUME NEW d, UNCHANGED ast PROVE OnlyTypeOf(d)
  BY DEF OnlyTypeOf

LEMMA TypeOfTop ==
  ASSUME TypeOK, calls # <<>>, NEW type \in Types, ast' = [ast EXCEPT ![Top.node].type = type]
  PROVE  OnlyTypeOf(Top.node) /\ ast'[Top.node].type = type
<1> DEFINE d == Top.node
           e == [ast[d] EXCEPT !.type = type]
<1>1. ast \in Seq(Node) /\ d \in 1 .. Len(ast)
  BY CallProperties DEF TypeOK, Top
<1>2. ast[d] \in Node
  BY <1>1, ElementOfSeq
<1>3. /\ e \in Node /\ e.type = type
      /\ e.tag = ast[d].tag /\ e.name = ast[d].name /\ e.parent = ast[d].parent
  BY <1>2 DEF Node
<1>4. ast' = [ast EXCEPT ![d] = e]
  OBVIOUS
<1> HIDE DEF e, d
<1>5. Len(ast') = Len(ast) /\ \A i \in 1 .. Len(ast) : ast'[i] = IF i = d THEN e ELSE ast[i]
  <2> DEFINE new == [ast EXCEPT ![d] = e]
  <2>1. Len(new) = Len(ast) /\ \A i \in 1 .. Len(ast) : new[i] = IF i = d THEN e ELSE ast[i]
    BY <1>1, <1>3, ExceptSeq
  <2>2. ast' = new
    BY <1>4
  <2> HIDE DEF new
  <2> QED
    BY <2>1, <2>2
<1> QED
  BY <1>1, <1>3, <1>5 DEF OnlyTypeOf, d

\* The calls around the innermost one are not changed by what it does.
LEMMA NestsReturn ==
  ASSUME TypeOK, Nesting, calls # <<>>, OnlyTypeOf(Top.node), Return
  PROVE  Nesting'
<1> DEFINE n == Len(calls) - 1
<1>1. n \in Nat /\ Len(calls) \in 1 .. Len(calls) /\ calls \in Seq(Call)
  BY CallProperties DEF TypeOK
<1>2. Len(calls') = n /\ \A k \in 1 .. n : calls'[k] = calls[k]
  BY <1>1, FrontOfCalls DEF Return
<1>3. \A k \in 1 .. n : /\ calls[k].node \in 1 .. Len(ast) /\ NestsAt(ast, calls, k)
                        /\ calls[k].node # Top.node
  <2>1. \A k \in 1 .. n : k \in 1 .. Len(calls) /\ k \in 1 .. Len(calls) - 1
    BY <1>1
  <2>2. \A k \in 1 .. Len(calls) - 1 : calls[k].node < Top.node
    BY <1>1 DEF Nesting, NestsAt, Top
  <2>3. \A k \in 1 .. Len(calls) : calls[k].node \in 1 .. Len(ast) /\ NestsAt(ast, calls, k)
    BY CallProperties DEF Nesting
  <2>4. Len(ast) \in Nat
    BY CallProperties
  <2> QED
    BY <2>1, <2>2, <2>3, <2>4
<1> HIDE DEF n
<1>4. ASSUME NEW k \in 1 .. n PROVE NestsAt(ast', calls', k)
  <2>1. /\ calls'[k] = calls[k] /\ NestsAt(ast, calls, k)
        /\ \A j \in 1 .. k - 1 : calls'[j] = calls[j]
        /\ k # 1 => calls'[k - 1] = calls[k - 1]
    <3>1. \A j \in 1 .. k - 1 : j \in 1 .. n
      BY <1>1 DEF n
    <3>2. k # 1 => k - 1 \in 1 .. n
      BY <1>1 DEF n
    <3> QED
      BY <1>2, <1>3, <3>1, <3>2
  <2>2. /\ ast'[calls[k].node].tag = ast[calls[k].node].tag
        /\ ast'[calls[k].node].parent = ast[calls[k].node].parent
        /\ ast'[calls[k].node].type = ast[calls[k].node].type
        /\ Len(ast') = Len(ast)
    BY <1>3 DEF OnlyTypeOf
  <2> QED
    BY <2>1, <2>2, NestsMoved
<1> QED
  BY <1>2, <1>4 DEF Nesting, OnlyTypeOf

\* The innermost call goes on to its next phase.
LEMMA NestsContinue ==
  ASSUME TypeOK, Nesting, calls # <<>>, OnlyTypeOf(Top.node),
         NEW phase \in {"body", "declare", "fields"}, Continue(phase),
         phase = "fields" => Current.tag = "struct",
         phase # "fields" => /\ Current.tag \in {"func", "shader"}
                             /\ Current.tag = "func" => ast'[Top.node].type \in FuncTypes
  PROVE  Nesting'
<1> DEFINE n == Len(calls)
           c == [calls[n] EXCEPT !.phase = phase]
<1>1. n \in 1 .. n /\ n \in Nat /\ calls \in Seq(Call) /\ calls[n] \in Call
  BY CallProperties DEF TypeOK
<1>2. c \in Call /\ c.phase = phase /\ c.node = calls[n].node
  BY <1>1 DEF Call
<1>3. calls' = [calls EXCEPT ![n] = c]
  BY DEF Continue
<1> HIDE DEF c
<1>4. Len(calls') = n /\ \A k \in 1 .. n : calls'[k] = IF k = n THEN c ELSE calls[k]
  BY <1>1, <1>2, <1>3, ExceptSeq
<1>5. \A k \in 1 .. n : calls'[k].node = calls[k].node
  BY <1>2, <1>4
<1>6. \A k \in 1 .. n : calls[k].node \in 1 .. Len(ast) /\ NestsAt(ast, calls, k)
  BY CallProperties DEF Nesting
<1>7. Top = calls[n] /\ Len(ast) \in Nat
  BY CallProperties DEF Top
<1>8. \A k \in 1 .. n : k # n => k \in 1 .. n - 1 /\ calls[k].node < Top.node
  <2>1. \A k \in 1 .. n - 1 : calls[k].node < Top.node
    BY <1>1, <1>6, <1>7 DEF NestsAt
  <2>2. \A k \in 1 .. n : k # n => k \in 1 .. n - 1
    BY <1>1
  <2> QED
    BY <2>1, <2>2
<1> HIDE DEF n
<1>9. ASSUME NEW k \in 1 .. n PROVE NestsAt(ast', calls', k)
  <2>1. /\ \A j \in 1 .. k - 1 : calls'[j].node = calls[j].node
        /\ k # 1 => calls'[k - 1].node = calls[k - 1].node
        /\ NestsAt(ast, calls, k)
    BY <1>1, <1>5, <1>6, SMTT(20)
  <2>2. /\ ast'[calls[k].node].tag = ast[calls[k].node].tag
        /\ ast'[calls[k].node].parent = ast[calls[k].node].parent
        /\ Len(ast') = Len(ast)
    BY <1>6 DEF OnlyTypeOf
  <2>3. CASE k = n
    <3>1. calls'[k].phase = phase /\ calls'[k].node = Top.node /\ Current = ast[calls[k].node]
      BY <1>2, <1>4, <1>7, <2>3 DEF Current
    <3> QED
      BY <1>5, <2>1, <2>2, <3>1 DEF NestsAt
  <2>4. CASE k # n
    <3>1. calls'[k] = calls[k] /\ calls[k].node # Top.node
      BY <1>4, <1>6, <1>7, <1>8, <2>4
    <3>2. ast'[calls[k].node].type = ast[calls[k].node].type
      BY <1>6, <3>1 DEF OnlyTypeOf
    <3> QED
      BY <2>1, <2>2, <3>1, <3>2 DEF NestsAt
  <2> QED
    BY <2>3, <2>4
<1> QED
  BY <1>4, <1>9 DEF Nesting, OnlyTypeOf

LEMMA NestsSame == ASSUME Nesting, UNCHANGED <<ast, calls>> PROVE Nesting'
  BY DEF Nesting, NestsAt

LEMMA InnermostNests ==
  ASSUME TypeOK, Nesting, calls # <<>>
  PROVE  /\ Top.node \in 1 .. Len(ast) /\ Top = calls[Len(calls)] /\ Current = ast[Top.node]
         /\ Top.phase \in {"named", "fields"} <=> Current.tag = "struct"
         /\ Top.phase \in {"params", "declare"} => Current.tag \in {"func", "shader"}
         /\ Top.phase \in {"body", "declare"} /\ Current.tag = "func" => Current.type \in FuncTypes
         /\ Top.phase = "named" => Top.node = Len(ast)
<1>1. Len(calls) \in 1 .. Len(calls) /\ calls[Len(calls)].node \in 1 .. Len(ast)
  BY CallProperties
<1>2. NestsAt(ast, calls, Len(calls))
  BY <1>1 DEF Nesting
<1>3. Top = calls[Len(calls)] /\ Current = ast[Top.node]
  BY DEF Top, Current
<1> QED
  BY <1>1, <1>2, <1>3 DEF NestsAt

LEMMA SignatureNests ==
  ASSUME TypeOK, Nesting, NEW type \in FuncTypes \cup ShaderTypes, Signature(type) PROVE Nesting'
<1>1. calls # <<>> /\ Top.phase = "params"
  BY DEF Signature, InPhase
<1>2. OnlyTypeOf(Top.node) /\ ast'[Top.node].type = type
  <2>1. type \in Types
    BY DEF Types
  <2> QED
    BY <1>1, <2>1, TypeOfTop DEF Signature
<1>3. Current.tag \in {"func", "shader"}
  BY <1>1, InnermostNests
<1>4. Current.tag = "func" => type \in FuncTypes
  BY DEF Signature
<1>5. Continue("body")
  BY DEF Signature
<1> QED
  BY <1>1, <1>2, <1>3, <1>4, <1>5, NestsContinue

LEMMA LeaveFuncNests == ASSUME TypeOK, Nesting, LeaveFunc PROVE Nesting'
<1>1. calls # <<>> /\ Top.phase = "body" /\ Continue("declare") /\ UNCHANGED ast
  BY DEF LeaveFunc, InBody, InPhase
<1>2. Current.tag \in {"func", "shader"}
  BY DEF LeaveFunc
<1>3. Current.tag = "func" => ast'[Top.node].type \in FuncTypes
  BY <1>1, InnermostNests
<1> QED
  BY <1>1, <1>2, <1>3, SameTypes, NestsContinue

LEMMA EnterFieldsNests == ASSUME TypeOK, Nesting, EnterFields PROVE Nesting'
<1>1. calls # <<>> /\ Top.phase = "named" /\ Continue("fields") /\ UNCHANGED ast
  BY DEF EnterFields, InPhase
<1>2. Current.tag = "struct"
  BY <1>1, InnermostNests
<1> QED
  BY <1>1, <1>2, SameTypes, NestsContinue

LEMMA LeaveStructNests == ASSUME TypeOK, Nesting, LeaveStruct PROVE Nesting'
<1>1. calls # <<>> /\ Return /\ "struct" \in Types
  BY DEF LeaveStruct, InPhase, Types
<1> QED
  BY <1>1, TypeOfTop, NestsReturn DEF LeaveStruct

\* The calls that are over change neither the tree nor the calls around them.
LEMMA ReturnNests ==
  ASSUME TypeOK, Nesting, Leave \/ BadOperator \/ DeclareFunc PROVE Nesting'
<1>1. calls # <<>> /\ Return /\ UNCHANGED ast
  BY DEF Leave, BadOperator, DeclareFunc, InBody, InPhase
<1> QED
  BY <1>1, SameTypes, NestsReturn

LEMMA EnterNests ==
  ASSUME TypeOK, Nesting, NEW tag \in {"block", "loop"}, Enter(tag) PROVE Nesting'
<1>1. tag \in Tags /\ tag # "struct"
  BY DEF Tags
<1>2. AddNode(tag, "none", NoType) /\ Begin("body") /\ InBody
  BY DEF Enter
<1> QED
  BY <1>1, <1>2, NestsBegin

LEMMA EnterFuncNests ==
  ASSUME TypeOK, Nesting, NEW tag \in {"func", "shader"}, NEW n \in Names, EnterFunc(tag, n)
  PROVE  Nesting'
<1>1. tag \in Tags /\ tag # "struct" /\ n \in Names \cup {"none"}
  BY DEF Tags
<1>2. AddNode(tag, n, NoType) /\ Begin("params") /\ (TopLevel \/ InBody)
  BY DEF EnterFunc
<1> QED
  BY <1>1, <1>2, NestsBegin

LEMMA EnterStructNests ==
  ASSUME TypeOK, Nesting, NEW n \in Names, EnterStruct(n) PROVE Nesting'
<1>1. "struct" \in Tags /\ n \in Names \cup {"none"}
  BY DEF Tags
<1>2. AddNode("struct", n, NoType) /\ Begin("named") /\ TopLevel
  BY DEF EnterStruct
<1> QED
  BY <1>1, <1>2, NestsBegin

LEMMA TypeOfVar ==
  ASSUME TypeOK, NEW n, NEW named \in BOOLEAN, Declare(n, named)
  PROVE  (IF named THEN ast[bound.to].type ELSE "value") \in Types \cup {NoType}
<1>1. CASE named
  <2>1. bound.to \in 1 .. Len(ast) /\ ast \in Seq(Node)
    BY <1>1, CallProperties DEF Declare, NamedType, TypeOK
  <2>2. ast[bound.to] \in Node
    BY <2>1, ElementOfSeq
  <2> QED
    BY <1>1, <2>2 DEF Node
<1>2. CASE ~named
  BY <1>2 DEF Types
<1> QED
  BY <1>1, <1>2

LEMMA DeclareNests ==
  ASSUME TypeOK, Nesting, NEW n \in Names, NEW named \in BOOLEAN, Declare(n, named)
  PROVE  Nesting'
<1> DEFINE type == IF named THEN ast[bound.to].type ELSE "value"
<1>1. Checking /\ AddNode("var", n, type) /\ UNCHANGED calls
  BY DEF Declare
<1>2. type \in Types \cup {NoType}
  BY TypeOfVar
<1> HIDE DEF type
<1> QED
  BY <1>1, <1>2, NestsDeclare

LEMMA InitNests == Init => Nesting
<1> SUFFICES ASSUME Init PROVE Nesting
  OBVIOUS
<1>1. Len(ast) = 0 /\ Len(calls) = 0
  BY EmptySeq DEF Init
<1> QED
  BY <1>1 DEF Nesting

LEMMA NextNests == ASSUME TypeOK, Nesting, [Next]_vars PROVE Nesting'
<1>1. CASE UNCHANGED vars
  BY <1>1, NestsSame DEF vars
<1>2. CASE Next
  <2>1. ASSUME BadStruct \/ CheckReturn \/ CheckBreak \/ \E n \in Names : Use(n) \/ UseType(n) \/ CallName(n)
        PROVE  Nesting'
    BY <2>1, NestsSame DEF BadStruct, CheckReturn, CheckBreak, Use, UseType, CallName
  <2> QED
    BY <1>2, <2>1, EnterNests, ReturnNests, DeclareNests, EnterFuncNests, SignatureNests,
       LeaveFuncNests, EnterStructNests, EnterFieldsNests, LeaveStructNests, Zenon DEF Next
<1> QED
  BY <1>1, <1>2

-----------------------------------------------------------------------------
(* What is declared. *)

Entry == [ast : 1 .. MaxNodes, overload : BOOLEAN]

LEMMA ScopeAt ==
  ASSUME stack \in Seq(Scope), NEW k \in 1 .. Len(stack), NEW n \in Names
  PROVE  /\ stack[k] \in Scope /\ stack[k].kind \in Nat
         /\ stack[k].decls[n] \in Seq(Entry) /\ Len(stack[k].decls[n]) \in Nat
<1>1. stack[k] \in Scope
  BY ElementOfSeq
<1>2. Scope = [kind : 0 .. MaxNodes, decls : [Names -> Seq(Entry)]]
  BY DEF Scope, Entry
<1>3. stack[k].decls[n] \in Seq(Entry) /\ stack[k].kind \in 0 .. MaxNodes
  BY <1>1, <1>2
<1> QED
  BY <1>1, <1>3, LenProperties

\* A scope that is entered declares nothing; one that is left is forgotten.
LEMMA EnterStack ==
  ASSUME stack \in Seq(Scope), NEW k \in 1 .. MaxNodes, Env!Enter(k)
  PROVE  /\ Len(stack') = Len(stack) + 1
         /\ \A i \in 1 .. Len(stack) : stack'[i] = stack[i]
         /\ stack'[Len(stack) + 1].kind = k
         /\ \A n \in Names : Len(stack'[Len(stack) + 1].decls[n]) = 0
<1>1. Env!Empty(k) \in Scope /\ stack' = Append(stack, Env!Empty(k)) /\ Env!Empty(k).kind = k
  BY ScopeEntered
<1>2. \A n \in Names : Env!Empty(k).decls[n] = <<>>
  BY DEF Env!Empty
<1>3. /\ Len(stack') = Len(stack) + 1
      /\ \A i \in 1 .. Len(stack) : stack'[i] = stack[i]
      /\ stack'[Len(stack) + 1] = Env!Empty(k)
  BY <1>1, AppendProperties
<1> QED
  BY <1>1, <1>2, <1>3, EmptySeq

LEMMA LeaveStack ==
  ASSUME stack \in Seq(Scope), Env!Leave
  PROVE  /\ Len(stack) \in Nat /\ Len(stack) > 1 /\ Len(stack') = Len(stack) - 1
         /\ \A i \in 1 .. Len(stack) - 1 : stack'[i] = stack[i]
<1>1. stack' = Front(stack) /\ Len(stack) > 1
  BY ScopeLeft
<1>2. stack # <<>> /\ Len(stack) \in Nat
  BY <1>1, EmptySeq, LenProperties
<1> QED
  BY <1>1, <1>2, FrontOfCalls

\* The declaration d of n is put before those that the list has.
Prepends(new, old, d) ==
  /\ Len(new) = Len(old) + 1
  /\ new[1].ast = d
  /\ \A i \in 2 .. Len(old) + 1 : new[i] = old[i - 1]

LEMMA DeclareStack ==
  ASSUME stack \in Seq(Scope), Len(stack) > 0,
         NEW n, NEW d \in 1 .. MaxNodes, NEW o \in BOOLEAN, Env!Declare(n, d, o)
  PROVE  /\ Len(stack') = Len(stack)
         /\ \A k \in 1 .. Len(stack) : stack'[k].kind = stack[k].kind
         /\ \A k \in 1 .. Len(stack), x \in Names :
              k # Len(stack) \/ x # n => stack'[k].decls[x] = stack[k].decls[x]
         /\ n \in Names =>
              IF Env!Accepts(n, o)
              THEN Prepends(stack'[Len(stack)].decls[n], stack[Len(stack)].decls[n], d)
              ELSE UNCHANGED stack
<1> DEFINE m == Len(stack)
           e == [ast |-> d, overload |-> o]
           s == [stack[m] EXCEPT !.decls[n] = <<e>> \o @]
<1>1. m \in 1 .. m /\ m \in Nat
  BY LenProperties
<1>2. stack[m] \in Scope
  BY <1>1, ElementOfSeq
<1>3. e \in Entry /\ e.ast = d
  BY DEF Entry
<1>4. s \in Scope /\ s.kind = stack[m].kind
  BY <1>2, DeclsUpdate
<1>5. \A x \in Names : s.decls[x] = IF x = n THEN <<e>> \o stack[m].decls[n] ELSE stack[m].decls[x]
  BY <1>2 DEF Scope
<1>6. CASE UNCHANGED stack /\ ~Env!Accepts(n, o)
  BY <1>6
<1>7. CASE Env!Accepts(n, o)
  <2>1. stack' = [stack EXCEPT ![m] = s]
    BY <1>7 DEF Env!Declare
  <2> HIDE DEF s, e, m
  <2>2. Len(stack') = m /\ \A k \in 1 .. m : stack'[k] = IF k = m THEN s ELSE stack[k]
    BY <1>1, <1>4, <2>1, ExceptSeq DEF m
  <2>3. n \in Names => Prepends(s.decls[n], stack[m].decls[n], d)
    <3> SUFFICES ASSUME n \in Names PROVE Prepends(s.decls[n], stack[m].decls[n], d)
      OBVIOUS
    <3> DEFINE old == stack[m].decls[n]
    <3>1. old \in Seq(Entry) /\ Len(old) \in Nat
      BY <1>1, ScopeAt DEF m
    <3>2. s.decls[n] = <<e>> \o old
      BY <1>5
    <3> HIDE DEF old
    <3>3. /\ Len(<<e>> \o old) = Len(old) + 1
          /\ (<<e>> \o old)[1] = e
          /\ \A i \in 2 .. Len(old) + 1 : (<<e>> \o old)[i] = old[i - 1]
      BY <1>3, <3>1, PrependElements
    <3> QED
      BY <1>3, <3>2, <3>3 DEF Prepends, old
  <2> QED
    BY <1>1, <1>4, <1>5, <1>7, <2>2, <2>3 DEF m
<1> QED
  BY <1>6, <1>7 DEF Env!Declare

At(k, n, i) == stack[k].decls[n][i].ast

\* What is declared is a node; a function that is declared has its type, and no
\* call is in progress for it.
DeclaredNodes ==
  \A k \in 1 .. Len(stack), n \in Names : \A i \in 1 .. Len(stack[k].decls[n]) :
    /\ At(k, n, i) \in 1 .. Len(ast)
    /\ ast[At(k, n, i)].tag = "func" => ast[At(k, n, i)].type \in FuncTypes
    /\ ast[At(k, n, i)].tag \in {"func", "shader"} =>
         \A j \in 1 .. Len(calls) : calls[j].node # At(k, n, i)

Differ(tree, c, d) == tree[c].tag = "func" /\ tree[d].tag = "func" => tree[c].type # tree[d].type

\* Functions of one name at different places of the scopes differ in type.
FuncsDiffer ==
  \A n \in Names, k, l \in 1 .. Len(stack) :
    \A i \in 1 .. Len(stack[k].decls[n]), j \in 1 .. Len(stack[l].decls[n]) :
      k # l \/ i # j => Differ(ast, At(k, n, i), At(l, n, j))

Declared == DeclaredNodes /\ FuncsDiffer

\* The nodes keep what the declarations look at, but for a function that is
\* being checked, and new calls are for new nodes.
TreeKeeps ==
  /\ Len(ast) \in Nat /\ Len(ast') \in Nat /\ Len(ast) <= Len(ast')
  /\ \A d \in 1 .. Len(ast) :
       /\ ast'[d].tag = ast[d].tag /\ ast'[d].name = ast[d].name /\ ast'[d].parent = ast[d].parent
       /\ \/ ast'[d].type = ast[d].type
          \/ ast[d].tag \notin {"func", "shader"}
          \/ \E j \in 1 .. Len(calls) : calls[j].node = d

CallsKeep ==
  \A k \in 1 .. Len(calls') : \/ calls'[k].node > Len(ast)
                              \/ \E j \in 1 .. Len(calls) : calls'[k].node = calls[j].node

\* Every declaration was at the same place before.
PlacesKeep ==
  \A k \in 1 .. Len(stack'), n \in Names : \A i \in 1 .. Len(stack'[k].decls[n]) :
    /\ k \in 1 .. Len(stack) /\ i \in 1 .. Len(stack[k].decls[n])
    /\ At(k, n, i)' = At(k, n, i)

\* A node that was declared is as it was.
LEMMA DeclaredKeeps ==
  ASSUME DeclaredNodes, TreeKeeps, CallsKeep,
         NEW k \in 1 .. Len(stack), NEW n \in Names, NEW i \in 1 .. Len(stack[k].decls[n])
  PROVE  /\ At(k, n, i) \in 1 .. Len(ast) /\ At(k, n, i) \in 1 .. Len(ast')
         /\ ast'[At(k, n, i)].tag = ast[At(k, n, i)].tag
         /\ ast[At(k, n, i)].tag = "func" => /\ ast'[At(k, n, i)].type = ast[At(k, n, i)].type
                                             /\ ast[At(k, n, i)].type \in FuncTypes
         /\ ast[At(k, n, i)].tag \in {"func", "shader"} =>
              \A j \in 1 .. Len(calls') : calls'[j].node # At(k, n, i)
<1> DEFINE d == At(k, n, i)
<1>1. /\ d \in 1 .. Len(ast)
      /\ ast[d].tag = "func" => ast[d].type \in FuncTypes
      /\ ast[d].tag \in {"func", "shader"} => \A j \in 1 .. Len(calls) : calls[j].node # d
  BY DEF DeclaredNodes
<1> HIDE DEF d
<1>2. d \in 1 .. Len(ast') /\ ~(d > Len(ast)) /\ ast'[d].tag = ast[d].tag
  BY <1>1 DEF TreeKeeps
<1>3. ast[d].tag = "func" => ast'[d].type = ast[d].type
  BY <1>1 DEF TreeKeeps
<1>4. ast[d].tag \in {"func", "shader"} => \A j \in 1 .. Len(calls') : calls'[j].node # d
  BY <1>1, <1>2 DEF CallsKeep
<1> QED
  BY <1>1, <1>2, <1>3, <1>4 DEF d

LEMMA DifferKept ==
  ASSUME NEW tree, NEW new, NEW c, NEW d, Differ(tree, c, d),
         new[c].tag = tree[c].tag, new[d].tag = tree[d].tag,
         tree[c].tag = "func" => new[c].type = tree[c].type,
         tree[d].tag = "func" => new[d].type = tree[d].type
  PROVE  Differ(new, c, d)
  BY DEF Differ

\* A step that declares nothing.
LEMMA NothingDeclared ==
  ASSUME Declared, TreeKeeps, CallsKeep, PlacesKeep PROVE Declared'
<1>1. ASSUME NEW k \in 1 .. Len(stack'), NEW n \in Names, NEW i \in 1 .. Len(stack'[k].decls[n])
      PROVE  /\ k \in 1 .. Len(stack) /\ i \in 1 .. Len(stack[k].decls[n])
             /\ At(k, n, i)' = At(k, n, i) /\ At(k, n, i) \in 1 .. Len(ast')
             /\ ast'[At(k, n, i)].tag = ast[At(k, n, i)].tag
             /\ ast[At(k, n, i)].tag = "func" => /\ ast'[At(k, n, i)].type = ast[At(k, n, i)].type
                                                 /\ ast[At(k, n, i)].type \in FuncTypes
             /\ ast[At(k, n, i)].tag \in {"func", "shader"} =>
                  \A j \in 1 .. Len(calls') : calls'[j].node # At(k, n, i)
  <2>1. k \in 1 .. Len(stack) /\ i \in 1 .. Len(stack[k].decls[n]) /\ At(k, n, i)' = At(k, n, i)
    BY DEF PlacesKeep
  <2> QED
    BY <2>1, DeclaredKeeps DEF Declared
<1>2. DeclaredNodes'
  <2> SUFFICES ASSUME NEW k \in 1 .. Len(stack'), NEW n \in Names, NEW i \in 1 .. Len(stack'[k].decls[n])
               PROVE  /\ At(k, n, i)' \in 1 .. Len(ast')
                      /\ ast'[At(k, n, i)'].tag = "func" => ast'[At(k, n, i)'].type \in FuncTypes
                      /\ ast'[At(k, n, i)'].tag \in {"func", "shader"} =>
                           \A j \in 1 .. Len(calls') : calls'[j].node # At(k, n, i)'
    BY DEF DeclaredNodes
  <2>1. PICK d : d = At(k, n, i)
    OBVIOUS
  <2>2. /\ At(k, n, i)' = d /\ d \in 1 .. Len(ast') /\ ast'[d].tag = ast[d].tag
        /\ ast[d].tag = "func" => ast'[d].type = ast[d].type /\ ast[d].type \in FuncTypes
        /\ ast[d].tag \in {"func", "shader"} => \A j \in 1 .. Len(calls') : calls'[j].node # d
    BY <1>1, <2>1
  <2> QED
    BY <2>2
<1>3. FuncsDiffer'
  <2> SUFFICES ASSUME NEW n \in Names, NEW k \in 1 .. Len(stack'), NEW l \in 1 .. Len(stack'),
                      NEW i \in 1 .. Len(stack'[k].decls[n]), NEW j \in 1 .. Len(stack'[l].decls[n]),
                      k # l \/ i # j
               PROVE  Differ(ast', At(k, n, i)', At(l, n, j)')
    BY DEF FuncsDiffer
  <2>1. Differ(ast, At(k, n, i), At(l, n, j))
    BY <1>1 DEF Declared, FuncsDiffer
  <2>2. Differ(ast', At(k, n, i), At(l, n, j))
    BY <1>1, <2>1, DifferKept, SMTT(20)
  <2> QED
    BY <1>1, <2>2
<1> QED
  BY <1>2, <1>3 DEF Declared

\* A step that declares d, after the environment has accepted it or not.
LEMMA OneDeclared ==
  ASSUME Declared, TreeKeeps, CallsKeep, stack \in Seq(Scope), Len(stack) > 0,
         NEW n, NEW d \in 1 .. MaxNodes, NEW o \in BOOLEAN, Env!Declare(n, d, o),
         d \in 1 .. Len(ast'),
         ast'[d].tag = "func" =>
           /\ ast'[d].type \in FuncTypes
           /\ n \in Names => \A k \in 1 .. Len(stack) : \A i \in 1 .. Len(stack[k].decls[n]) :
                ast[At(k, n, i)].tag = "func" => ast[At(k, n, i)].type # ast'[d].type,
         ast'[d].tag \in {"func", "shader"} => \A j \in 1 .. Len(calls') : calls'[j].node # d
  PROVE  Declared'
<1> DEFINE m == Len(stack)
<1>1. /\ Len(stack') = m
      /\ \A k \in 1 .. m, x \in Names : k # m \/ x # n => stack'[k].decls[x] = stack[k].decls[x]
      /\ n \in Names =>
              IF Env!Accepts(n, o)
              THEN Prepends(stack'[m].decls[n], stack[m].decls[n], d)
              ELSE UNCHANGED stack
  BY DeclareStack
<1>2. CASE n \notin Names \/ ~Env!Accepts(n, o)
  <2>1. \A k \in 1 .. m, x \in Names : stack'[k].decls[x] = stack[k].decls[x]
    BY <1>1, <1>2
  <2>2. PlacesKeep
    BY <1>1, <2>1 DEF PlacesKeep, At
  <2> QED
    BY <2>2, NothingDeclared
<1>3. CASE n \in Names /\ Env!Accepts(n, o)
  <2> DEFINE Was(k, x, i) == IF k = m /\ x = n THEN i - 1 ELSE i
  <2>1. m \in 1 .. m /\ m \in Nat
    BY LenProperties
  <2>2. Prepends(stack'[m].decls[n], stack[m].decls[n], d)
    BY <1>1, <1>3
  <2>3. ASSUME NEW k \in 1 .. m, NEW x \in Names, NEW i \in 1 .. Len(stack'[k].decls[x])
        PROVE  \/ k = m /\ x = n /\ i = 1 /\ At(k, x, i)' = d
               \/ /\ Was(k, x, i) \in 1 .. Len(stack[k].decls[x])
                  /\ At(k, x, i)' = At(k, x, Was(k, x, i))
    <3>1. CASE k # m \/ x # n
      BY <1>1, <3>1 DEF At
    <3>2. CASE k = m /\ x = n /\ i = 1
      BY <2>2, <3>2 DEF At, Prepends
    <3>3. CASE k = m /\ x = n /\ i # 1
      <4>1. Len(stack[m].decls[n]) \in Nat
        BY <1>3, <2>1, ScopeAt
      <4>2. i \in 2 .. Len(stack[m].decls[n]) + 1
        BY <2>2, <3>3, <4>1 DEF Prepends
      <4>3. stack'[k].decls[x][i] = stack[k].decls[x][i - 1] /\ i - 1 \in 1 .. Len(stack[m].decls[n])
        BY <2>2, <3>3, <4>1, <4>2 DEF Prepends
      <4> QED
        BY <3>3, <4>3 DEF At
    <3> QED
      BY <3>1, <3>2, <3>3
  <2>4. ASSUME NEW k \in 1 .. m, NEW x \in Names, NEW i \in 1 .. Len(stack'[k].decls[x]),
               NEW l \in 1 .. m, NEW j \in 1 .. Len(stack'[l].decls[x]), k # l \/ i # j
        PROVE  k # l \/ Was(k, x, i) # Was(l, x, j)
    <3>1. i \in Int /\ j \in Int
      OBVIOUS
    <3> QED
      BY <2>4, <3>1
  <2> HIDE DEF Was, m
  <2>5. ASSUME NEW k \in 1 .. m, NEW x \in Names, NEW i \in 1 .. Len(stack'[k].decls[x])
        PROVE  /\ At(k, x, i)' \in 1 .. Len(ast')
               /\ ast'[At(k, x, i)'].tag = "func" => ast'[At(k, x, i)'].type \in FuncTypes
               /\ ast'[At(k, x, i)'].tag \in {"func", "shader"} =>
                    \A j \in 1 .. Len(calls') : calls'[j].node # At(k, x, i)'
    <3>1. CASE At(k, x, i)' = d
      BY <3>1
    <3>2. CASE Was(k, x, i) \in 1 .. Len(stack[k].decls[x]) /\ At(k, x, i)' = At(k, x, Was(k, x, i))
      <4>1. PICK p : p = Was(k, x, i)
        OBVIOUS
      <4>2. PICK e : e = At(k, x, p)
        OBVIOUS
      <4>3. At(k, x, i)' = e
        BY <3>2, <4>1, <4>2
      <4>4. /\ e \in 1 .. Len(ast') /\ ast'[e].tag = ast[e].tag
            /\ ast[e].tag = "func" => ast'[e].type = ast[e].type /\ ast[e].type \in FuncTypes
            /\ ast[e].tag \in {"func", "shader"} => \A j \in 1 .. Len(calls') : calls'[j].node # e
        BY <3>2, <4>1, <4>2, DeclaredKeeps, SMTT(20) DEF Declared, m
      <4> QED
        BY <4>3, <4>4
    <3> QED
      BY <2>3, <3>1, <3>2
  <2>6. ASSUME NEW l \in 1 .. m, NEW j \in 1 .. Len(stack[l].decls[n])
        PROVE  Differ(ast', d, At(l, n, j)) /\ Differ(ast', At(l, n, j), d)
    <3>1. /\ ast'[At(l, n, j)].tag = ast[At(l, n, j)].tag
          /\ ast[At(l, n, j)].tag = "func" => ast'[At(l, n, j)].type = ast[At(l, n, j)].type
      BY <1>3, DeclaredKeeps DEF Declared, m
    <3>2. ast'[d].tag = "func" /\ ast[At(l, n, j)].tag = "func" => ast[At(l, n, j)].type # ast'[d].type
      BY <1>3 DEF m
    <3> QED
      BY <3>1, <3>2 DEF Differ
  <2>7. ASSUME NEW x \in Names, NEW k \in 1 .. m, NEW l \in 1 .. m,
               NEW i \in 1 .. Len(stack'[k].decls[x]), NEW j \in 1 .. Len(stack'[l].decls[x]),
               k # l \/ i # j
        PROVE  Differ(ast', At(k, x, i)', At(l, x, j)')
    <3> DEFINE New1 == k = m /\ x = n /\ i = 1 /\ At(k, x, i)' = d
               New2 == l = m /\ x = n /\ j = 1 /\ At(l, x, j)' = d
               p == Was(k, x, i)
               q == Was(l, x, j)
               Old1 == p \in 1 .. Len(stack[k].decls[x]) /\ At(k, x, i)' = At(k, x, p)
               Old2 == q \in 1 .. Len(stack[l].decls[x]) /\ At(l, x, j)' = At(l, x, q)
    <3>1. (New1 \/ Old1) /\ (New2 \/ Old2)
      BY <2>3
    <3>2. ~(New1 /\ New2)
      BY <2>7
    <3>3. CASE New1 /\ Old2
      BY <2>6, <3>3
    <3>4. CASE Old1 /\ New2
      BY <2>6, <3>4
    <3>5. CASE Old1 /\ Old2
      <4>1. k # l \/ p # q
        BY <2>4, <2>7
      <4> HIDE DEF p, q
      <4>2. Differ(ast, At(k, x, p), At(l, x, q))
        BY <3>5, <4>1 DEF Declared, FuncsDiffer, m
      <4>3. Differ(ast', At(k, x, p), At(l, x, q))
        <5>1. /\ ast'[At(k, x, p)].tag = ast[At(k, x, p)].tag
              /\ ast[At(k, x, p)].tag = "func" => ast'[At(k, x, p)].type = ast[At(k, x, p)].type
          BY <3>5, DeclaredKeeps DEF Declared, m
        <5>2. /\ ast'[At(l, x, q)].tag = ast[At(l, x, q)].tag
              /\ ast[At(l, x, q)].tag = "func" => ast'[At(l, x, q)].type = ast[At(l, x, q)].type
          BY <3>5, DeclaredKeeps DEF Declared, m
        <5> QED
          BY <4>2, <5>1, <5>2, DifferKept
      <4> QED
        BY <3>5, <4>3
    <3> QED
      BY <3>1, <3>2, <3>3, <3>4, <3>5
  <2>8. Len(stack') = m
    BY <1>1
  <2> QED
    BY <2>5, <2>7, <2>8 DEF Declared, DeclaredNodes, FuncsDiffer
<1> QED
  BY <1>2, <1>3

-----------------------------------------------------------------------------
(* What is visible. *)

LEMMA FlattenIsJoin ==
  ASSUME NEW X, NEW seqs, NEW n \in Nat \ {0}, Len(seqs) = n, AreSeqs(seqs, n, X)
  PROVE  \E f : Joins(f, n, seqs) /\ FlattenSeq(seqs) = f[n]
<1> DEFINE f == CHOOSE f : Joins(f, n, seqs)
<1>1. \E g : Joins(g, n, seqs)
  BY JoinExists DEF AreSeqs
<1>2. Joins(f, n, seqs)
  BY <1>1
<1>3. FlattenSeq(seqs) = f[n]
  BY DEF FlattenSeq, Joins
<1> QED
  BY <1>2, <1>3

LEMMA FlattenElements ==
  ASSUME NEW X, NEW seqs, NEW n \in Nat \ {0}, Len(seqs) = n, AreSeqs(seqs, n, X)
  PROVE  FlattenSeq(seqs) \in Seq(X) /\ HasAllOf(FlattenSeq(seqs), seqs, n)
<1>1. PICK f : Joins(f, n, seqs) /\ FlattenSeq(seqs) = f[n]
  BY FlattenIsJoin
<1> QED
  BY <1>1, JoinWhole

LEMMA FlattenPairs ==
  ASSUME NEW X, NEW seqs, NEW n \in Nat \ {0}, Len(seqs) = n, AreSeqs(seqs, n, X),
         NEW R, PairsIn(seqs, n, R)
  PROVE  Pairwise(FlattenSeq(seqs), R)
<1>1. PICK f : Joins(f, n, seqs) /\ FlattenSeq(seqs) = f[n]
  BY FlattenIsJoin
<1> QED
  BY <1>1, JoinWhole

\* The visible declarations of a name are those of all scopes, each once.
LEMMA VisiblePlaces ==
  ASSUME TypeOK, Len(stack) > 0, NEW n \in Names
  PROVE  /\ \A k \in 1 .. Len(stack) : \A i \in 1 .. Len(stack[k].decls[n]) :
              \E p \in DOMAIN Visible(n) : Visible(n)[p] = At(k, n, i)
         /\ FuncsDiffer =>
              \A p, q \in DOMAIN Visible(n) : p # q => Differ(ast, Visible(n)[p], Visible(n)[q])
<1>1. PICK m : m = Len(stack)
  OBVIOUS
<1>2. PICK seqs : seqs = [i \in DOMAIN stack |-> Env!Outward[i].decls[n]]
  OBVIOUS
<1>3. PICK v : v = FlattenSeq(seqs)
  OBVIOUS
<1>4. m \in Nat \ {0} /\ DOMAIN stack = 1 .. m
  BY <1>1, LenProperties DEF TypeOK
<1>5. \A k \in 1 .. m : stack[k].decls[n] \in Seq(Entry)
  BY <1>1, ScopeAt DEF TypeOK
<1>6. \A i \in 1 .. m : m - i + 1 \in 1 .. m /\ seqs[i] = stack[m - i + 1].decls[n]
  BY <1>1, <1>2, <1>4 DEF Env!Outward, Env!Reverse
<1>7. DOMAIN seqs = 1 .. m /\ \A i \in 1 .. m : seqs[i] \in Seq(Entry)
  BY <1>2, <1>4, <1>5, <1>6
<1>8. Len(seqs) = m
  <2>1. seqs = [i \in 1 .. m |-> seqs[i]]
    BY <1>2, <1>4
  <2>2. seqs \in Seq(Seq(Entry))
    BY <1>4, <1>7, <2>1
  <2> QED
    BY <1>4, <1>7, <2>2, LenProperties
<1>9. /\ v \in Seq(Entry)
      /\ \A k \in 1 .. m : \A q \in 1 .. Len(seqs[k]) : \E p \in 1 .. Len(v) : v[p] = seqs[k][q]
  <2>1. AreSeqs(seqs, m, Entry)
    BY <1>7 DEF AreSeqs
  <2>2. v \in Seq(Entry) /\ HasAllOf(v, seqs, m)
    BY <1>3, <1>4, <1>8, <2>1, FlattenElements
  <2> QED
    BY <2>2 DEF HasAllOf
<1>10. DOMAIN v = 1 .. Len(v) /\ Visible(n) = [i \in 1 .. Len(v) |-> v[i].ast]
  <2>1. Visible(n) = [i \in DOMAIN v |-> v[i].ast]
    BY <1>2, <1>3 DEF Visible, Env!Asts
  <2> QED
    BY <1>9, <2>1, LenProperties
<1>11. ASSUME NEW k \in 1 .. m, NEW i \in 1 .. Len(stack[k].decls[n])
       PROVE  \E p \in DOMAIN Visible(n) : Visible(n)[p] = At(k, n, i)
  <2>1. PICK l : l = m - k + 1
    OBVIOUS
  <2>2. l \in 1 .. m /\ m - l + 1 = k
    BY <1>4, <2>1
  <2>3. seqs[l] = stack[k].decls[n]
    BY <1>6, <2>2
  <2>4. i \in 1 .. Len(seqs[l]) /\ seqs[l][i] = stack[k].decls[n][i]
    BY <2>3, Zenon
  <2>5. \A h \in 1 .. m : \A q \in 1 .. Len(seqs[h]) : \E p \in 1 .. Len(v) : v[p] = seqs[h][q]
    BY <1>9, Zenon
  <2>6. \E p \in 1 .. Len(v) : v[p] = seqs[l][i]
    BY <2>2, <2>4, <2>5, Zenon
  <2>7. PICK p \in 1 .. Len(v) : v[p] = stack[k].decls[n][i]
    BY <2>4, <2>6, Zenon
  <2> QED
    BY <1>10, <2>7 DEF At
<1>12. ASSUME FuncsDiffer, NEW p \in DOMAIN Visible(n), NEW q \in DOMAIN Visible(n), p # q
       PROVE  Differ(ast, Visible(n)[p], Visible(n)[q])
  <2>1. PICK R : R = {x \in Entry \X Entry : Differ(ast, x[1].ast, x[2].ast)}
    OBVIOUS
  <2>2. ASSUME NEW k \in 1 .. m, NEW l \in 1 .. m, NEW i \in 1 .. Len(seqs[k]),
               NEW j \in 1 .. Len(seqs[l]), k # l \/ i # j
        PROVE  <<seqs[k][i], seqs[l][j]>> \in R
    <3>1. PICK a, b : a = m - k + 1 /\ b = m - l + 1
      OBVIOUS
    <3>2. a \in 1 .. m /\ b \in 1 .. m /\ (k # l => a # b)
      BY <1>4, <3>1
    <3>3. seqs[k] = stack[a].decls[n] /\ seqs[l] = stack[b].decls[n]
      BY <1>6, <3>1
    <3>4. Differ(ast, At(a, n, i), At(b, n, j))
      BY <1>1, <1>12, <2>2, <3>2, <3>3 DEF FuncsDiffer
    <3>5. seqs[k][i] \in Entry /\ seqs[l][j] \in Entry
      BY <1>7, ElementOfSeq
    <3> QED
      BY <2>1, <3>3, <3>4, <3>5 DEF At
  <2>3. \A a, b \in 1 .. Len(v) : a # b => <<v[a], v[b]>> \in R
    <3>1. AreSeqs(seqs, m, Entry)
      BY <1>7 DEF AreSeqs
    <3>2. PairsIn(seqs, m, R)
      BY <2>2 DEF PairsIn
    <3>3. Pairwise(v, R)
      BY <1>3, <1>4, <1>8, <3>1, <3>2, FlattenPairs
    <3> QED
      BY <3>3 DEF Pairwise
  <2>4. <<v[p], v[q]>> \in R /\ Visible(n)[p] = v[p].ast /\ Visible(n)[q] = v[q].ast
    BY <1>10, <1>12, <2>3
  <2> QED
    BY <2>1, <2>4
<1> QED
  BY <1>1, <1>11, <1>12

\* Functions that are visible together differ.
LEMMA VisibleDiffer ==
  ASSUME TypeOK, Len(stack) > 0, FuncsDiffer PROVE VisibleOverloadsDiffer
  BY VisiblePlaces DEF VisibleOverloadsDiffer, Differ

-----------------------------------------------------------------------------
(* Every step keeps what is declared. *)

LEMMA TreeGrows ==
  ASSUME TypeOK, NEW tag \in Tags, NEW n \in Names \cup {"none"},
         NEW type \in Types \cup {NoType}, AddNode(tag, n, type)
  PROVE  TreeKeeps
<1>1. /\ Len(ast') = Len(ast) + 1 /\ Len(ast) \in Nat
      /\ \A i \in 1 .. Len(ast) : ast'[i] = ast[i]
  BY NewNode
<1> QED
  BY <1>1 DEF TreeKeeps

LEMMA TreeStays ==
  ASSUME TypeOK, UNCHANGED ast \/ (calls # <<>> /\ OnlyTypeOf(Top.node)) PROVE TreeKeeps
<1>1. Len(ast) \in Nat
  BY CallProperties
<1>2. CASE UNCHANGED ast
  BY <1>1, <1>2 DEF TreeKeeps
<1>3. CASE calls # <<>> /\ OnlyTypeOf(Top.node)
  <2>1. \E j \in 1 .. Len(calls) : calls[j].node = Top.node
    BY <1>3, CallProperties DEF Top
  <2>2. \A d \in 1 .. Len(ast) : d = Top.node \/ ast'[d].type = ast[d].type
    BY <1>3 DEF OnlyTypeOf
  <2>3. /\ Len(ast') = Len(ast)
        /\ \A d \in 1 .. Len(ast) :
             ast'[d].tag = ast[d].tag /\ ast'[d].name = ast[d].name /\ ast'[d].parent = ast[d].parent
    BY <1>3 DEF OnlyTypeOf
  <2> QED
    BY <1>1, <2>1, <2>2, <2>3 DEF TreeKeeps
<1> QED
  BY <1>2, <1>3

LEMMA ContinueKeepsNodes ==
  ASSUME TypeOK, calls # <<>>, NEW phase \in {"body", "declare", "fields"}, Continue(phase)
  PROVE  Len(calls') = Len(calls) /\ \A k \in 1 .. Len(calls) : calls'[k].node = calls[k].node
<1> DEFINE n == Len(calls)
           c == [calls[n] EXCEPT !.phase = phase]
<1>1. n \in 1 .. n /\ calls[n] \in Call /\ calls \in Seq(Call)
  BY CallProperties DEF TypeOK
<1>2. c \in Call /\ c.node = calls[n].node
  BY <1>1 DEF Call
<1>3. calls' = [calls EXCEPT ![n] = c]
  BY DEF Continue
<1> HIDE DEF c
<1>4. Len(calls') = n /\ \A k \in 1 .. n : calls'[k] = IF k = n THEN c ELSE calls[k]
  BY <1>1, <1>2, <1>3, ExceptSeq
<1> QED
  BY <1>2, <1>4

LEMMA CallsStay ==
  ASSUME TypeOK,
         \/ UNCHANGED calls
         \/ calls # <<>> /\ Return
         \/ calls # <<>> /\ \E phase \in {"body", "declare", "fields"} : Continue(phase)
         \/ \E phase \in {"params", "body", "named"} : Begin(phase)
  PROVE  CallsKeep
<1>1. calls \in Seq(Call) /\ Len(calls) \in Nat /\ Len(ast) \in Nat
  BY CallProperties DEF TypeOK
<1>2. CASE UNCHANGED calls
  BY <1>2 DEF CallsKeep
<1>3. CASE calls # <<>> /\ Return
  <2>1. Len(calls') = Len(calls) - 1 /\ \A k \in 1 .. Len(calls) - 1 : calls'[k] = calls[k]
    BY <1>1, <1>3, FrontOfCalls DEF Return
  <2>2. \A k \in 1 .. Len(calls) - 1 : k \in 1 .. Len(calls)
    BY <1>1
  <2> QED
    BY <2>1, <2>2 DEF CallsKeep
<1>4. ASSUME calls # <<>>, NEW phase \in {"body", "declare", "fields"}, Continue(phase)
      PROVE  CallsKeep
  <2>1. Len(calls') = Len(calls) /\ \A k \in 1 .. Len(calls) : calls'[k].node = calls[k].node
    BY <1>4, ContinueKeepsNodes
  <2> QED
    BY <2>1 DEF CallsKeep
<1>5. ASSUME NEW phase \in {"params", "body", "named"}, Begin(phase) PROVE CallsKeep
  <2> DEFINE c == [node |-> New, phase |-> phase]
  <2>1. c \in Call /\ c.node = Len(ast) + 1
    BY <1>1 DEF Call, New
  <2>2. calls' = Append(calls, c)
    BY <1>5 DEF Begin
  <2> HIDE DEF c
  <2>3. /\ Len(calls') = Len(calls) + 1 /\ calls'[Len(calls) + 1] = c
        /\ \A k \in 1 .. Len(calls) : calls'[k] = calls[k]
    BY <1>1, <2>1, <2>2, AppendProperties
  <2>4. \A k \in 1 .. Len(calls') : k \in 1 .. Len(calls) \/ k = Len(calls) + 1
    BY <1>1, <2>3
  <2>5. c.node > Len(ast)
    BY <1>1, <2>1
  <2> QED
    BY <2>3, <2>4, <2>5 DEF CallsKeep
<1> QED
  BY <1>2, <1>3, <1>4, <1>5

LEMMA PlacesStay ==
  ASSUME TypeOK, UNCHANGED stack \/ Env!Leave \/ \E k \in 1 .. MaxNodes : Env!Enter(k)
  PROVE  PlacesKeep
<1>1. stack \in Seq(Scope) /\ Len(stack) \in Nat
  BY CallProperties DEF TypeOK
<1>2. CASE UNCHANGED stack
  BY <1>2 DEF PlacesKeep, At
<1>3. CASE Env!Leave
  <2>1. Len(stack') = Len(stack) - 1 /\ \A i \in 1 .. Len(stack) - 1 : stack'[i] = stack[i]
    BY <1>1, <1>3, LeaveStack
  <2>2. \A i \in 1 .. Len(stack) - 1 : i \in 1 .. Len(stack)
    BY <1>1
  <2> QED
    BY <2>1, <2>2 DEF PlacesKeep, At
<1>4. ASSUME NEW k \in 1 .. MaxNodes, Env!Enter(k) PROVE PlacesKeep
  <2>1. /\ Len(stack') = Len(stack) + 1
        /\ \A i \in 1 .. Len(stack) : stack'[i] = stack[i]
        /\ \A n \in Names : Len(stack'[Len(stack) + 1].decls[n]) = 0
    BY <1>1, <1>4, EnterStack
  <2>2. \A i \in 1 .. Len(stack') : i \in 1 .. Len(stack) \/ i = Len(stack) + 1
    BY <1>1, <2>1
  <2>3. \A n \in Names : 1 .. Len(stack'[Len(stack) + 1].decls[n]) = {}
    BY <2>1
  <2> QED
    BY <2>1, <2>2, <2>3 DEF PlacesKeep, At
<1> QED
  BY <1>2, <1>3, <1>4

LEMMA DeclareDeclares ==
  ASSUME Parts, Declared, NEW n \in Names, NEW named \in BOOLEAN, Declare(n, named)
  PROVE  Declared'
<1> DEFINE type == IF named THEN ast[bound.to].type ELSE "value"
<1>1. AddNode("var", n, type) /\ Env!Declare(n, New, FALSE) /\ UNCHANGED calls
  BY DEF Declare, InsertSymbol
<1>2. type \in Types \cup {NoType} /\ "var" \in Tags /\ n \in Names \cup {"none"}
  BY TypeOfVar DEF Parts, Tags
<1> HIDE DEF type
<1>3. TreeKeeps /\ CallsKeep
  BY <1>1, <1>2, TreeGrows, CallsStay DEF Parts
<1>4. ast'[New].tag = "var" /\ New \in 1 .. Len(ast') /\ New \in 1 .. MaxNodes
  BY <1>1, <1>2, NodeAdded DEF Parts
<1>5. stack \in Seq(Scope) /\ Len(stack) > 0
  BY CallProperties, HoldingProperties DEF Parts, TypeOK
<1> QED
  BY <1>1, <1>3, <1>4, <1>5, OneDeclared

LEMMA EnterStructDeclares ==
  ASSUME Parts, Declared, NEW n \in Names, EnterStruct(n) PROVE Declared'
<1>1. AddNode("struct", n, NoType) /\ Env!Declare(n, New, FALSE) /\ Begin("named")
  BY DEF EnterStruct, InsertSymbol
<1>2. "struct" \in Tags /\ n \in Names \cup {"none"}
  BY DEF Tags
<1>3. TreeKeeps /\ CallsKeep
  BY <1>1, <1>2, TreeGrows, CallsStay DEF Parts
<1>4. ast'[New].tag = "struct" /\ New \in 1 .. Len(ast') /\ New \in 1 .. MaxNodes
  BY <1>1, <1>2, NodeAdded DEF Parts
<1>5. stack \in Seq(Scope) /\ Len(stack) > 0
  BY CallProperties, HoldingProperties DEF Parts, TypeOK
<1> QED
  BY <1>1, <1>3, <1>4, <1>5, OneDeclared

\* A function is declared only when it differs from those that are visible.
LEMMA DeclareFuncDeclares ==
  ASSUME Parts, Nesting, Declared, DeclareFunc PROVE Declared'
<1> DEFINE d == Top.node
<1>1. calls # <<>> /\ Top.phase = "declare" /\ Return /\ UNCHANGED ast
  BY DEF DeclareFunc, InPhase
<1>2. TreeKeeps /\ CallsKeep
  BY <1>1, TreeStays, CallsStay DEF Parts
<1>3. stack \in Seq(Scope) /\ Len(stack) > 0
  BY CallProperties, HoldingProperties DEF Parts, TypeOK
<1>4. CASE UNCHANGED stack
  BY <1>2, <1>4, PlacesStay, NothingDeclared DEF Parts
<1>5. CASE ~Conflicts(Current.name, d) /\ Env!Declare(Current.name, d, TRUE)
  <2>1. /\ d \in 1 .. Len(ast) /\ d \in 1 .. MaxNodes /\ Current = ast[d]
        /\ Current.tag \in {"func", "shader"}
        /\ Current.tag = "func" => Current.type \in FuncTypes
    <3>1. Len(ast) \in Nat /\ Len(ast) <= MaxNodes
      BY CallProperties DEF Parts, TypeOK
    <3> QED
      BY <1>1, <3>1, InnermostNests DEF Parts
  <2>2. \A j \in 1 .. Len(calls') : calls'[j].node # d
    <3>1. calls \in Seq(Call) /\ Len(calls) \in 1 .. Len(calls) /\ Len(calls) \in Nat
      BY <1>1, CallProperties DEF Parts, TypeOK
    <3>2. Len(calls') = Len(calls) - 1 /\ \A j \in 1 .. Len(calls) - 1 : calls'[j] = calls[j]
      BY <1>1, <3>1, FrontOfCalls DEF Return
    <3>3. \A j \in 1 .. Len(calls) - 1 : calls[j].node < d
      BY <3>1 DEF Nesting, NestsAt, Top
    <3>4. \A j \in 1 .. Len(calls) - 1 : calls[j].node \in Nat
      <4>1. \A j \in 1 .. Len(calls) - 1 : j \in 1 .. Len(calls)
        BY <3>1
      <4> QED
        BY <4>1, CallProperties DEF Parts
    <3> HIDE DEF d
    <3> QED
      BY <2>1, <3>2, <3>3, <3>4
  <2>3. ASSUME ast[d].tag = "func", Current.name \in Names,
               NEW k \in 1 .. Len(stack), NEW i \in 1 .. Len(stack[k].decls[Current.name]),
               ast[At(k, Current.name, i)].tag = "func"
        PROVE  ast[At(k, Current.name, i)].type # ast[d].type
    <3>1. PICK n : n = Current.name
      OBVIOUS
    <3>2. PICK p \in DOMAIN Visible(n) : Visible(n)[p] = At(k, n, i)
      BY <1>3, <2>3, <3>1, VisiblePlaces DEF Parts
    <3>3. ~(HasFuncType(Visible(n)[p]) /\ ast[Visible(n)[p]].type = ast[d].type)
      BY <1>5, <2>3, <3>1, <3>2 DEF Conflicts
    <3>4. ast[At(k, n, i)].type \in FuncTypes
      BY <2>3, <3>1 DEF Declared, DeclaredNodes
    <3> QED
      BY <3>1, <3>2, <3>3, <3>4 DEF HasFuncType
  <2> HIDE DEF d
  <2>4. Declared'
    BY <1>1, <1>2, <1>3, <1>5, <2>1, <2>2, <2>3, OneDeclared
  <2> QED
    BY <2>4
<1> QED
  BY <1>4, <1>5 DEF DeclareFunc, InsertSymbol

\* The other steps declare nothing.
LEMMA OthersDeclare ==
  ASSUME Parts, Nesting, Declared, TreeKeeps, CallsKeep,
         UNCHANGED stack \/ Env!Leave \/ \E k \in 1 .. MaxNodes : Env!Enter(k)
  PROVE  Declared'
  BY PlacesStay, NothingDeclared DEF Parts

LEMMA EnterDeclares ==
  ASSUME Parts, Nesting, Declared, NEW tag \in Tags, NEW n \in Names \cup {"none"},
         NEW phase \in {"params", "body"}, AddNode(tag, n, NoType), Begin(phase), Env!Enter(New)
  PROVE  Declared'
<1>1. TreeKeeps /\ CallsKeep
  BY TreeGrows, CallsStay DEF Parts
<1>2. New \in 1 .. MaxNodes
  BY NodeAdded DEF Parts
<1> QED
  BY <1>1, <1>2, OthersDeclare

LEMMA ContinueDeclares ==
  ASSUME Parts, Nesting, Declared,
         Leave \/ BadOperator \/ LeaveFunc \/ EnterFields \/ LeaveStruct
           \/ \E type \in FuncTypes \cup ShaderTypes : Signature(type)
  PROVE  Declared'
<1>1. calls # <<>>
  BY DEF Leave, BadOperator, LeaveFunc, EnterFields, LeaveStruct, Signature, InBody, InPhase
<1>2. CallsKeep
  <2>1. Return \/ \E phase \in {"body", "declare", "fields"} : Continue(phase)
    BY DEF Leave, BadOperator, LeaveFunc, EnterFields, LeaveStruct, Signature
  <2> QED
    BY <1>1, <2>1, CallsStay DEF Parts
<1>3. TreeKeeps
  <2>1. CASE UNCHANGED ast
    BY <2>1, TreeStays DEF Parts
  <2>2. ASSUME NEW type \in Types, ast' = [ast EXCEPT ![Top.node].type = type] PROVE TreeKeeps
    BY <1>1, <2>2, TypeOfTop, TreeStays DEF Parts
  <2> QED
    BY <2>1, <2>2 DEF Leave, BadOperator, LeaveFunc, EnterFields, LeaveStruct, Signature, Types
<1>4. UNCHANGED stack \/ Env!Leave \/ \E k \in 1 .. MaxNodes : Env!Enter(k)
  <2>1. Top.node \in 1 .. MaxNodes
    <3>1. Top.node \in 1 .. Len(ast) /\ Len(ast) \in Nat /\ Len(ast) <= MaxNodes
      BY <1>1, CallProperties DEF Parts, TypeOK, Top
    <3> QED
      BY <3>1
  <2> QED
    BY <2>1 DEF Leave, BadOperator, LeaveFunc, EnterFields, LeaveStruct, Signature
<1> QED
  BY <1>2, <1>3, <1>4, OthersDeclare

LEMMA NextDeclares == ASSUME Parts, Nesting, Declared, [Next]_vars PROVE Declared'
<1>1. ASSUME UNCHANGED <<ast, calls, stack>> PROVE Declared'
  BY <1>1, TreeStays, CallsStay, OthersDeclare DEF Parts
<1>2. CASE UNCHANGED vars
  BY <1>1, <1>2 DEF vars
<1>3. CASE Next
  <2>1. ASSUME BadStruct \/ CheckReturn \/ CheckBreak \/ \E n \in Names : Use(n) \/ UseType(n) \/ CallName(n)
        PROVE  Declared'
    BY <1>1, <2>1 DEF BadStruct, CheckReturn, CheckBreak, Use, UseType, CallName, Env!FindOne, Env!FindAll
  <2>2. ASSUME NEW tag \in {"block", "loop"}, Enter(tag) PROVE Declared'
    <3>1. tag \in Tags
      BY DEF Tags
    <3> QED
      BY <2>2, <3>1, EnterDeclares DEF Enter
  <2>3. ASSUME NEW tag \in {"func", "shader"}, NEW n \in Names, EnterFunc(tag, n) PROVE Declared'
    <3>1. tag \in Tags /\ n \in Names \cup {"none"}
      BY DEF Tags
    <3> QED
      BY <2>3, <3>1, EnterDeclares DEF EnterFunc
  <2> QED
    BY <1>3, <2>1, <2>2, <2>3, DeclareDeclares, EnterStructDeclares, DeclareFuncDeclares,
       ContinueDeclares, Zenon DEF Next
<1> QED
  BY <1>2, <1>3

-----------------------------------------------------------------------------
(* Scopes and the nesting of the program text. *)

HasCall(d)   == \E j \in 1 .. Len(calls) : calls[j].node = d
\* A function is announced to its scope when its call is over.
Announced    == {d \in 1 .. Len(ast) : ast[d].tag \in {"func", "shader"} => ~HasCall(d)}
Own(p, n)    == {d \in Announced : ast[d].name = n /\ ast[d].parent = p}
NodesOf(list) == {list[i].ast : i \in 1 .. Len(list)}
Sources(k, n) == NodesOf(stack[k].decls[n])

FileScope == Len(stack) > 0 /\ stack[1].kind = File

\* Until an error is reported, a scope declares the nodes written directly in
\* the construct that it belongs to.
NamesMatch ==
  ~failed => \A k \in 1 .. Len(stack), n \in Names : Sources(k, n) = Own(stack[k].kind, n)

LEMMA FileScopeNext == ASSUME Parts, FileScope, [Next]_vars PROVE FileScope'
<1>1. stack \in Seq(Scope) /\ Len(stack) \in Nat /\ 1 \in 1 .. Len(stack)
  BY LenProperties DEF Parts, TypeOK, FileScope
<1>2. CASE UNCHANGED stack
  BY <1>2 DEF FileScope
<1>3. ASSUME NEW k \in 1 .. MaxNodes, Env!Enter(k) PROVE FileScope'
  BY <1>1, <1>3, EnterStack DEF FileScope
<1>4. CASE Env!Leave
  <2>1. Len(stack') = Len(stack) - 1 /\ Len(stack) > 1 /\ \A i \in 1 .. Len(stack) - 1 : stack'[i] = stack[i]
    BY <1>1, <1>4, LeaveStack
  <2>2. 1 \in 1 .. Len(stack) - 1
    BY <1>1, <2>1
  <2> QED
    BY <1>1, <2>1, <2>2 DEF FileScope
<1>5. ASSUME NEW n, NEW d \in 1 .. MaxNodes, NEW o \in BOOLEAN, Env!Declare(n, d, o) PROVE FileScope'
  BY <1>1, <1>5, DeclareStack DEF FileScope
<1>6. \/ UNCHANGED stack \/ Env!Leave \/ \E k \in 1 .. MaxNodes : Env!Enter(k)
      \/ \E n : \E d \in 1 .. MaxNodes, o \in BOOLEAN : Env!Declare(n, d, o)
  <2>1. CASE UNCHANGED vars
    BY <2>1 DEF vars
  <2>2. ASSUME NEW tag \in {"block", "loop"}, Enter(tag) PROVE New \in 1 .. MaxNodes /\ Env!Enter(New)
    BY <2>2, NodeAdded DEF Enter, Tags, Parts
  <2>3. ASSUME NEW tag \in {"func", "shader"}, NEW n \in Names, EnterFunc(tag, n)
        PROVE  New \in 1 .. MaxNodes /\ Env!Enter(New)
    BY <2>3, NodeAdded DEF EnterFunc, Tags, Parts
  <2>4. ASSUME NEW n \in Names, EnterStruct(n)
        PROVE  New \in 1 .. MaxNodes /\ Env!Declare(n, New, FALSE)
    BY <2>4, NodeAdded DEF EnterStruct, InsertSymbol, Tags, Parts
  <2>5. ASSUME NEW n \in Names, NEW named \in BOOLEAN, Declare(n, named)
        PROVE  New \in 1 .. MaxNodes /\ Env!Declare(n, New, FALSE)
    <3>1. New \in 1 .. MaxNodes
      BY <2>5, TypeOfVar, VarAdded DEF Declare, Parts
    <3> QED
      BY <2>5, <3>1 DEF Declare, InsertSymbol
  <2>6. calls # <<>> => Top.node \in 1 .. MaxNodes
    BY CallProperties DEF Parts, TypeOK, Top
  <2>7. ASSUME DeclareFunc
        PROVE  UNCHANGED stack \/ (Top.node \in 1 .. MaxNodes /\ Env!Declare(Current.name, Top.node, TRUE))
    BY <2>6, <2>7 DEF DeclareFunc, InsertSymbol, InPhase
  <2>8. ASSUME EnterFields PROVE Top.node \in 1 .. MaxNodes /\ Env!Enter(Top.node)
    BY <2>6, <2>8 DEF EnterFields, InPhase
  <2>9. ASSUME BadStruct \/ BadOperator \/ CheckReturn \/ CheckBreak
                 \/ (\E type \in FuncTypes \cup ShaderTypes : Signature(type))
                 \/ \E n \in Names : Use(n) \/ UseType(n) \/ CallName(n)
        PROVE  UNCHANGED stack
    BY <2>9 DEF BadStruct, BadOperator, CheckReturn, CheckBreak, Signature, Use, UseType, CallName,
       Env!FindOne, Env!FindAll
  <2>10. ASSUME Leave \/ LeaveFunc \/ LeaveStruct PROVE Env!Leave
    BY <2>10 DEF Leave, LeaveFunc, LeaveStruct
  <2>11. CASE Next
    BY <2>2, <2>3, <2>4, <2>5, <2>7, <2>8, <2>9, <2>10, <2>11, Zenon DEF Next
  <2> QED
    BY <2>1, <2>11
<1> QED
  BY <1>2, <1>3, <1>4, <1>5, <1>6

\* The scopes are those of the constructs around the text being checked, from
\* the outermost to the innermost.
LEMMA ScopesNest ==
  ASSUME Parts, Nesting, FileScope, ~failed
  PROVE  /\ \A k, l \in 1 .. Len(stack) : k < l => stack[k].kind < stack[l].kind
         /\ \A k \in 1 .. Len(stack) : stack[k].kind \in 0 .. Len(ast)
         /\ stack[Len(stack)].kind = Parent
         /\ Len(stack) = Len(Holding) + 1 /\ Len(Holding) \in Nat
         /\ \A k \in 1 .. Len(Holding) : stack[k + 1].kind = Holding[k].node /\ Holding[k] = calls[k]
<1>1. /\ Len(stack) = Len(Holding) + 1
      /\ \A k \in 1 .. Len(Holding) : stack[k + 1].kind = Holding[k].node
  BY DEF Parts, Matches
<1>2. Len(Holding) \in Nat /\ Holding \in Seq(Call)
  BY HoldingProperties DEF Parts
<1>3. /\ \A k \in 1 .. Len(Holding) : k \in 1 .. Len(calls) /\ Holding[k] = calls[k]
  <2>1. CASE Holding = calls
    BY <2>1
  <2>2. CASE Holding = Front(calls) /\ calls # <<>>
    <3>1. Len(calls) \in Nat /\ calls \in Seq(Call)
      BY CallProperties DEF Parts, TypeOK
    <3>2. Len(Holding) = Len(calls) - 1 /\ \A k \in 1 .. Len(calls) - 1 : Holding[k] = calls[k]
      BY <2>2, <3>1, FrontOfCalls
    <3> QED
      BY <3>1, <3>2
  <2> QED
    BY <2>1, <2>2 DEF Holding, InPhase
<1>4. \A k \in 1 .. Len(Holding) :
        /\ Holding[k].node \in 1 .. Len(ast)
        /\ \A j \in 1 .. k - 1 : Holding[j].node < Holding[k].node
  <2> SUFFICES ASSUME NEW k \in 1 .. Len(Holding)
               PROVE  /\ Holding[k].node \in 1 .. Len(ast)
                      /\ \A j \in 1 .. k - 1 : Holding[j].node < Holding[k].node
    OBVIOUS
  <2>1. k \in 1 .. Len(calls) /\ Holding[k] = calls[k] /\ calls[k].node \in 1 .. Len(ast)
    BY <1>3, CallProperties DEF Parts
  <2>2. \A j \in 1 .. k - 1 : j \in 1 .. Len(Holding)
    BY <1>2
  <2>3. \A j \in 1 .. k - 1 : calls[j].node < calls[k].node
    BY <2>1 DEF Nesting, NestsAt
  <2> QED
    BY <1>3, <2>1, <2>2, <2>3
<1>5. \A k \in 1 .. Len(stack) : k # 1 => k - 1 \in 1 .. Len(Holding) /\ k - 1 + 1 = k
  BY <1>1, <1>2
<1>6. Len(ast) \in Nat /\ stack[1].kind = 0
  BY CallProperties DEF Parts, FileScope, File
<1>7. \A k \in 1 .. Len(stack) :
        IF k = 1 THEN stack[k].kind = 0
        ELSE stack[k].kind = Holding[k - 1].node /\ Holding[k - 1].node \in 1 .. Len(ast)
  BY <1>1, <1>4, <1>5, <1>6
<1>8. ASSUME NEW k \in 1 .. Len(stack), NEW l \in 1 .. Len(stack), k < l
      PROVE  stack[k].kind < stack[l].kind
  <2>1. l # 1 /\ l - 1 \in 1 .. Len(Holding) /\ (k # 1 => k - 1 \in 1 .. (l - 1) - 1)
    BY <1>1, <1>2, <1>8
  <2>2. k # 1 => Holding[k - 1].node < Holding[l - 1].node
    BY <1>4, <2>1
  <2> QED
    BY <1>6, <1>7, <2>1, <2>2
<1>9. \A k \in 1 .. Len(stack) : stack[k].kind \in 0 .. Len(ast)
  BY <1>6, <1>7
<1>10. stack[Len(stack)].kind = Parent
  <2>1. Holding = <<>> <=> Len(Holding) = 0
    BY <1>2, EmptySeq
  <2>2. Len(Holding) # 0 => Len(Holding) \in 1 .. Len(Holding)
    BY <1>2
  <2> QED
    BY <1>1, <1>2, <1>6, <2>1, <2>2 DEF Parent, File
<1> QED
  BY <1>1, <1>2, <1>3, <1>8, <1>9, <1>10

\* What the scopes should declare changes with what is announced.
LEMMA OwnStays ==
  ASSUME TreeKeeps, Announced' = Announced
  PROVE  \A p, n : Own(p, n)' = Own(p, n)
<1> SUFFICES ASSUME NEW p, NEW n PROVE Own(p, n)' = Own(p, n)
  OBVIOUS
<1>1. \A d \in Announced : ast'[d].name = ast[d].name /\ ast'[d].parent = ast[d].parent
  BY DEF Announced, TreeKeeps
<1>2. Own(p, n) = {d \in Announced : ast[d].name = n /\ ast[d].parent = p}
  BY DEF Own
<1>3. Own(p, n)' = {d \in Announced : ast'[d].name = n /\ ast'[d].parent = p}
  BY DEF Own
<1> QED
  BY <1>1, <1>2, <1>3

LEMMA OwnAdds ==
  ASSUME TreeKeeps, NEW m, Announced' = Announced \cup {m}
  PROVE  \A p, n :
           Own(p, n)' = Own(p, n) \cup (IF ast'[m].name = n /\ ast'[m].parent = p THEN {m} ELSE {})
<1> SUFFICES ASSUME NEW p, NEW n
             PROVE  Own(p, n)' = Own(p, n)
                      \cup (IF ast'[m].name = n /\ ast'[m].parent = p THEN {m} ELSE {})
  OBVIOUS
<1>1. \A d \in Announced : ast'[d].name = ast[d].name /\ ast'[d].parent = ast[d].parent
  BY DEF Announced, TreeKeeps
<1>2. Own(p, n) = {d \in Announced : ast[d].name = n /\ ast[d].parent = p}
  BY DEF Own
<1>3. Own(p, n)' = {d \in Announced \cup {m} : ast'[d].name = n /\ ast'[d].parent = p}
  BY DEF Own
<1>4. Own(p, n) = {d \in Announced : ast'[d].name = n /\ ast'[d].parent = p}
  BY <1>1, <1>2
<1> QED
  BY <1>3, <1>4

\* A node that is added is announced unless a call begins for a function.
LEMMA AddAnnounces ==
  ASSUME TypeOK, Nesting, NEW tag \in Tags, NEW n \in Names \cup {"none"},
         NEW type \in Types \cup {NoType}, AddNode(tag, n, type),
         \/ UNCHANGED calls /\ tag = "var"
         \/ \E phase \in {"params", "body", "named"} : Begin(phase)
  PROVE  Announced' = Announced \cup (IF tag \in {"func", "shader"} THEN {} ELSE {New})
<1>1. /\ Len(ast') = Len(ast) + 1 /\ New = Len(ast) + 1 /\ Len(ast) \in Nat
      /\ \A i \in 1 .. Len(ast) : ast'[i] = ast[i]
      /\ ast'[New].tag = tag
  <2>1. ast'[New].tag = tag
    BY NodeAdded
  <2> QED
    BY <2>1, NewNode
<1>2. \A d \in 1 .. Len(ast) : HasCall(d)' <=> HasCall(d)
  <2>1. CASE UNCHANGED calls
    BY <2>1 DEF HasCall
  <2>2. ASSUME NEW phase \in {"params", "body", "named"}, Begin(phase)
        PROVE  \A d \in 1 .. Len(ast) : HasCall(d)' <=> HasCall(d)
    <3> DEFINE c == [node |-> New, phase |-> phase]
    <3>1. c \in Call /\ c.node = Len(ast) + 1 /\ calls \in Seq(Call) /\ Len(calls) \in Nat
      BY <1>1, CallProperties DEF Call, TypeOK
    <3>2. calls' = Append(calls, c)
      BY <2>2 DEF Begin
    <3> HIDE DEF c
    <3>3. /\ Len(calls') = Len(calls) + 1 /\ calls'[Len(calls) + 1] = c
          /\ \A k \in 1 .. Len(calls) : calls'[k] = calls[k]
      BY <3>1, <3>2, AppendProperties
    <3>4. /\ \A k \in 1 .. Len(calls') : k \in 1 .. Len(calls) \/ k = Len(calls) + 1
          /\ \A k \in 1 .. Len(calls) : k \in 1 .. Len(calls')
      BY <3>1, <3>3
    <3>5. \A d \in 1 .. Len(ast) : c.node # d
      BY <1>1, <3>1
    <3> QED
      BY <3>3, <3>4, <3>5 DEF HasCall
  <2> QED
    BY <2>1, <2>2
<1>3. tag \notin {"func", "shader"} \/ \E j \in 1 .. Len(calls') : calls'[j].node = New
  <2>1. ASSUME NEW phase \in {"params", "body", "named"}, Begin(phase)
        PROVE  \E j \in 1 .. Len(calls') : calls'[j].node = New
    <3> DEFINE c == [node |-> New, phase |-> phase]
    <3>1. c \in Call /\ calls \in Seq(Call) /\ Len(calls) \in Nat /\ c.node = New
      BY <1>1, CallProperties DEF Call, TypeOK
    <3>2. calls' = Append(calls, c)
      BY <2>1 DEF Begin
    <3> HIDE DEF c
    <3>3. Len(calls') = Len(calls) + 1 /\ calls'[Len(calls) + 1] = c
      BY <3>1, <3>2, AppendProperties
    <3>4. Len(calls) + 1 \in 1 .. Len(calls')
      BY <3>1, <3>3
    <3> QED
      BY <3>1, <3>3, <3>4
  <2> QED
    BY <2>1
<1>5. PICK m : m = New
  OBVIOUS
<1>6. Announced' = {d \in 1 .. Len(ast') : ast'[d].tag \in {"func", "shader"} => ~HasCall(d)'}
  BY DEF Announced
<1>7. 1 .. Len(ast') = (1 .. Len(ast)) \cup {m} /\ m \notin 1 .. Len(ast)
  BY <1>1, <1>5
<1>8. tag \notin {"func", "shader"} \/ HasCall(m)'
  BY <1>3, <1>5 DEF HasCall
<1>9. \A d \in 1 .. Len(ast) : (ast'[d].tag \in {"func", "shader"} => ~HasCall(d)') <=> d \in Announced
  BY <1>1, <1>2 DEF Announced
<1>10. Announced \subseteq 1 .. Len(ast)
  BY DEF Announced
<1> HIDE DEF Announced, HasCall
<1>11. ast'[m].tag = tag
  BY <1>1, <1>5
<1>12. CASE tag \in {"func", "shader"}
  BY <1>6, <1>7, <1>8, <1>9, <1>10, <1>11, <1>12
<1>13. CASE tag \notin {"func", "shader"}
  <2>1. m \in Announced'
    BY <1>6, <1>7, <1>11, <1>13
  <2> QED
    BY <1>5, <1>6, <1>7, <1>9, <1>10, <1>13, <2>1
<1> QED
  BY <1>12, <1>13

\* A call that returns announces its node; the others are as they were.
LEMMA ReturnAnnounces ==
  ASSUME TypeOK, Nesting, calls # <<>>, OnlyTypeOf(Top.node), Return
  PROVE  Announced' = Announced \cup {Top.node}
<1> DEFINE m == Len(calls)
<1>1. calls \in Seq(Call) /\ m \in 1 .. m /\ m \in Nat /\ Top.node \in 1 .. Len(ast) /\ Top.node = calls[m].node
  BY CallProperties DEF TypeOK, Top
<1>2. Len(calls') = m - 1 /\ \A k \in 1 .. m - 1 : calls'[k] = calls[k]
  BY <1>1, FrontOfCalls DEF Return
<1>3. \A k \in 1 .. m - 1 : k \in 1 .. m /\ calls[k].node < Top.node /\ calls[k].node \in Nat
  <2>1. \A k \in 1 .. m - 1 : k \in 1 .. m
    BY <1>1
  <2> QED
    BY <1>1, <2>1, CallProperties, SMTT(20) DEF Nesting, NestsAt
<1>4. PICK t : t = Top.node
  OBVIOUS
<1> HIDE DEF m
<1>5. \A k \in 1 .. m : k \in 1 .. m - 1 \/ k = m
  BY <1>1
<1>6. \A d \in 1 .. Len(ast) : HasCall(d)' <=> HasCall(d) /\ d # t
  <2>1. \A d \in 1 .. Len(ast) : HasCall(d) <=> \E j \in 1 .. m : calls[j].node = d
    BY DEF HasCall, m
  <2>2. \A d \in 1 .. Len(ast) : HasCall(d)' <=> \E j \in 1 .. m - 1 : calls[j].node = d
    BY <1>2 DEF HasCall
  <2>3. \A k \in 1 .. m - 1 : k \in 1 .. m /\ calls[k].node # t
    BY <1>1, <1>3, <1>4
  <2> QED
    BY <1>1, <1>4, <1>5, <2>1, <2>2, <2>3
<1>7. Len(ast') = Len(ast) /\ \A i \in 1 .. Len(ast) : ast'[i].tag = ast[i].tag
  BY DEF OnlyTypeOf
<1>8. Announced' = {d \in 1 .. Len(ast) : ast[d].tag \in {"func", "shader"} => ~HasCall(d)'}
  BY <1>7 DEF Announced
<1>9. Announced = {d \in 1 .. Len(ast) : ast[d].tag \in {"func", "shader"} => ~HasCall(d)}
  BY DEF Announced
<1> QED
  BY <1>1, <1>4, <1>6, <1>8, <1>9

\* The step of a call that goes on announces nothing.
LEMMA ContinueAnnounces ==
  ASSUME TypeOK, OnlyTypeOf(Top.node) \/ UNCHANGED ast,
         \/ UNCHANGED calls
         \/ calls # <<>> /\ \E phase \in {"body", "declare", "fields"} : Continue(phase)
  PROVE  Announced' = Announced
<1>1. \A d : HasCall(d)' <=> HasCall(d)
  <2>1. CASE UNCHANGED calls
    BY <2>1 DEF HasCall
  <2>2. ASSUME calls # <<>>, NEW phase \in {"body", "declare", "fields"}, Continue(phase)
        PROVE  \A d : HasCall(d)' <=> HasCall(d)
    <3>1. Len(calls') = Len(calls) /\ \A k \in 1 .. Len(calls) : calls'[k].node = calls[k].node
      BY <2>2, ContinueKeepsNodes
    <3> QED
      BY <3>1 DEF HasCall
  <2> QED
    BY <2>1, <2>2
<1>2. Len(ast') = Len(ast) /\ \A i \in 1 .. Len(ast) : ast'[i].tag = ast[i].tag
  BY DEF OnlyTypeOf
<1> QED
  BY <1>1, <1>2 DEF Announced

LEMMA PrependedNodes ==
  ASSUME NEW new, NEW old, NEW d, Len(old) \in Nat, Prepends(new, old, d)
  PROVE  NodesOf(new) = NodesOf(old) \cup {d}
<1>1. /\ Len(new) = Len(old) + 1 /\ new[1].ast = d
      /\ \A i \in 2 .. Len(old) + 1 : new[i] = old[i - 1]
  BY DEF Prepends
<1>2. ASSUME NEW i \in 1 .. Len(new)
      PROVE  new[i].ast = d \/ \E j \in 1 .. Len(old) : new[i].ast = old[j].ast
  <2>1. CASE i = 1
    BY <1>1, <2>1
  <2>2. CASE i # 1
    <3>1. i \in 2 .. Len(old) + 1 /\ i - 1 \in 1 .. Len(old)
      BY <1>1, <2>2
    <3> QED
      BY <1>1, <3>1
  <2> QED
    BY <2>1, <2>2
<1>3. ASSUME NEW j \in 1 .. Len(old) PROVE \E i \in 1 .. Len(new) : new[i].ast = old[j].ast
  <2>1. j + 1 \in 2 .. Len(old) + 1 /\ j + 1 \in 1 .. Len(new) /\ (j + 1) - 1 = j
    BY <1>1
  <2> QED
    BY <1>1, <2>1
<1>4. \E i \in 1 .. Len(new) : new[i].ast = d
  <2>1. 1 \in 1 .. Len(new)
    BY <1>1
  <2> QED
    BY <1>1, <2>1
<1>5. \A list, e : e \in NodesOf(list) <=> \E i \in 1 .. Len(list) : e = list[i].ast
  BY DEF NodesOf
<1>6. \A e : e \in NodesOf(new) <=> e \in NodesOf(old) \cup {d}
  <2> SUFFICES ASSUME NEW e PROVE e \in NodesOf(new) <=> e \in NodesOf(old) \/ e = d
    OBVIOUS
  <2>1. e \in NodesOf(new) => e \in NodesOf(old) \/ e = d
    BY <1>2, <1>5
  <2>2. e \in NodesOf(old) \/ e = d => e \in NodesOf(new)
    BY <1>3, <1>4, <1>5
  <2> QED
    BY <2>1, <2>2
<1> QED
  BY <1>6, Zenon

\* A step that declares nothing, and at most enters an empty scope or leaves one.
LEMMA MatchStays ==
  ASSUME Parts, NamesMatch, ~failed' => ~failed,
         \A p, n : n \in Names => Own(p, n)' = Own(p, n),
         \/ UNCHANGED stack
         \/ Env!Leave
         \/ \E k \in 1 .. MaxNodes : Env!Enter(k) /\ \A n \in Names : Own(k, n)' = {}
  PROVE  NamesMatch'
<1> SUFFICES ASSUME ~failed', NEW k \in 1 .. Len(stack'), NEW n \in Names
             PROVE  Sources(k, n)' = Own(stack[k].kind, n)'
  BY DEF NamesMatch
<1>0. PICK p : p = stack'[k].kind
  OBVIOUS
<1> SUFFICES Sources(k, n)' = Own(p, n)'
  BY <1>0
<1>1. stack \in Seq(Scope) /\ Len(stack) \in Nat
  BY CallProperties DEF Parts, TypeOK
<1>2. \A l \in 1 .. Len(stack) : Sources(l, n) = Own(stack[l].kind, n)
  BY DEF NamesMatch
<1>3. CASE k \in 1 .. Len(stack) /\ stack'[k] = stack[k]
  <2>1. Sources(k, n)' = Sources(k, n)
    BY <1>3 DEF Sources
  <2>2. Own(p, n)' = Own(stack[k].kind, n)
    BY <1>0, <1>3
  <2> QED
    BY <1>2, <1>3, <2>1, <2>2
<1>4. CASE UNCHANGED stack
  BY <1>3, <1>4
<1>5. CASE Env!Leave
  <2>1. Len(stack') = Len(stack) - 1 /\ \A i \in 1 .. Len(stack) - 1 : stack'[i] = stack[i]
    BY <1>1, <1>5, LeaveStack
  <2>2. k \in 1 .. Len(stack) /\ k \in 1 .. Len(stack) - 1
    BY <1>1, <2>1
  <2> QED
    BY <1>3, <2>1, <2>2
<1>6. ASSUME NEW d \in 1 .. MaxNodes, Env!Enter(d), \A x \in Names : Own(d, x)' = {}
      PROVE  Sources(k, n)' = Own(p, n)'
  <2>1. /\ Len(stack') = Len(stack) + 1
        /\ \A i \in 1 .. Len(stack) : stack'[i] = stack[i]
        /\ stack'[Len(stack) + 1].kind = d
        /\ Len(stack'[Len(stack) + 1].decls[n]) = 0
    BY <1>1, <1>6, EnterStack
  <2>2. CASE k \in 1 .. Len(stack)
    BY <1>3, <2>1, <2>2
  <2>3. CASE k = Len(stack) + 1
    <3>1. Sources(k, n)' = {}
      BY <2>1, <2>3 DEF Sources, NodesOf
    <3>2. p = d
      BY <1>0, <2>1, <2>3
    <3> QED
      BY <1>6, <3>1, <3>2
  <2> QED
    BY <1>1, <2>1, <2>2, <2>3
<1> QED
  BY <1>4, <1>5, <1>6

\* A step that declares the node d, written directly in the construct of the
\* innermost scope, under its name.
LEMMA MatchDeclares ==
  ASSUME Parts, Nesting, FileScope, NamesMatch, ~failed', ~failed,
         NEW x, NEW d \in 1 .. MaxNodes, NEW o \in BOOLEAN, Env!Declare(x, d, o), Env!Accepts(x, o),
         \A p, n : n \in Names => Own(p, n)' = Own(p, n) \cup (IF n = x /\ p = Parent THEN {d} ELSE {})
  PROVE  NamesMatch'
<1> SUFFICES ASSUME NEW k \in 1 .. Len(stack'), NEW n \in Names
             PROVE  Sources(k, n)' = Own(stack[k].kind, n)'
  BY DEF NamesMatch
<1>0. PICK p : p = stack'[k].kind
  OBVIOUS
<1> SUFFICES Sources(k, n)' = Own(p, n)'
  BY <1>0
<1> DEFINE m == Len(stack)
<1>1. stack \in Seq(Scope) /\ m \in Nat /\ m > 0
  BY CallProperties DEF Parts, TypeOK, FileScope
<1>2. /\ Len(stack') = m
      /\ \A l \in 1 .. m : stack'[l].kind = stack[l].kind
      /\ \A l \in 1 .. m, y \in Names : l # m \/ y # x => stack'[l].decls[y] = stack[l].decls[y]
      /\ x \in Names => Prepends(stack'[m].decls[x], stack[m].decls[x], d)
  BY <1>1, DeclareStack
<1>3. stack[m].kind = Parent /\ \A l \in 1 .. m : l < m => stack[l].kind < stack[m].kind
  <2>1. /\ stack[m].kind = Parent
        /\ \A i, l \in 1 .. Len(stack) : i < l => stack[i].kind < stack[l].kind
    BY ScopesNest, Zenon
  <2>2. m \in 1 .. Len(stack)
    BY <1>1
  <2> HIDE DEF m
  <2> QED
    BY <2>1, <2>2 DEF m
<1>4. \A l \in 1 .. m : stack[l].kind \in Nat
  BY <1>1, ScopeAt
<1>5. stack[k].kind = Parent <=> k = m
  BY <1>1, <1>2, <1>3, <1>4
<1>6. Own(p, n)' = Own(stack[k].kind, n) \cup (IF n = x /\ k = m THEN {d} ELSE {})
  BY <1>0, <1>2, <1>5
<1>7. Sources(k, n) = Own(stack[k].kind, n)
  BY <1>2 DEF NamesMatch
<1>8. Sources(k, n)' = Sources(k, n) \cup (IF n = x /\ k = m THEN {d} ELSE {})
  <2>1. CASE n # x \/ k # m
    <3>1. stack'[k].decls[n] = stack[k].decls[n]
      BY <1>2, <2>1
    <3>2. Sources(k, n)' = Sources(k, n)
      BY <3>1 DEF Sources
    <3> QED
      BY <2>1, <3>2
  <2>2. CASE n = x /\ k = m
    <3>1. PICK new : new = stack'[k].decls[n]
      OBVIOUS
    <3>2. PICK old : old = stack[k].decls[n]
      OBVIOUS
    <3>3. Prepends(new, old, d) /\ Len(old) \in Nat
      BY <1>1, <1>2, <2>2, <3>1, <3>2, ScopeAt
    <3>4. Sources(k, n)' = NodesOf(new) /\ Sources(k, n) = NodesOf(old)
      BY <3>1, <3>2 DEF Sources
    <3>5. NodesOf(new) = NodesOf(old) \cup {d}
      BY <3>3, PrependedNodes
    <3> QED
      BY <2>2, <3>4, <3>5
  <2> QED
    BY <2>1, <2>2
<1> QED
  BY <1>6, <1>7, <1>8

\* The last node is the parent of none.
LEMMA LastIsNoParent ==
  ASSUME NEW tree, NEW k \in Nat, \A d \in 1 .. k : tree[d].parent < d
  PROVE  \A d \in 1 .. k : tree[d].parent # k
<1> SUFFICES ASSUME NEW d \in 1 .. k, tree[d].parent = k PROVE FALSE
  OBVIOUS
<1>1. tree[d].parent < d
  OBVIOUS
<1> QED
  BY <1>1

\* Blocks and loops have no name, and functions are not announced yet.
LEMMA EnterMatches ==
  ASSUME Parts, Nesting, Nesting', NamesMatch, NEW tag \in Tags, NEW n \in Names \cup {"none"},
         n = "none" \/ tag \in {"func", "shader"},
         NEW phase \in {"params", "body"}, AddNode(tag, n, NoType), Begin(phase), Env!Enter(New),
         UNCHANGED failed
  PROVE  NamesMatch'
<1>1. TreeKeeps
  BY TreeGrows DEF Parts
<1>2. Announced' = Announced \cup (IF tag \in {"func", "shader"} THEN {} ELSE {New})
  BY AddAnnounces DEF Parts
<1>3. PICK m : m = New
  OBVIOUS
<1>4. /\ m \in 1 .. MaxNodes /\ m \in Nat /\ Len(ast') = m
      /\ ast'[m] = [tag |-> tag, name |-> n, parent |-> Parent, type |-> NoType]
  BY <1>3, NodeAdded, NewNode DEF Parts
<1>5. \A p, x : x \in Names => Own(p, x)' = Own(p, x)
  <2>1. CASE tag \in {"func", "shader"}
    <3>1. Announced' = Announced
      BY <1>2, <2>1
    <3> QED
      BY <1>1, <3>1, OwnStays
  <2>2. CASE tag \notin {"func", "shader"}
    <3>1. Announced' = Announced \cup {m} /\ ast'[m].name = "none"
      BY <1>2, <1>3, <1>4, <2>2
    <3>2. \A p, x : Own(p, x)' = Own(p, x)
                      \cup (IF ast'[m].name = x /\ ast'[m].parent = p THEN {m} ELSE {})
      BY <1>1, <3>1, OwnAdds
    <3>3. \A x \in Names : x # "none"
      BY CheckerAssumption
    <3> QED
      BY <3>1, <3>2, <3>3
  <2> QED
    BY <2>1, <2>2
<1>6. \A x \in Names : Own(m, x)' = {}
  <2>1. \A d \in 1 .. m : ast'[d].parent < d
    BY <1>4 DEF Nesting
  <2>2. \A d \in 1 .. m : ast'[d].parent # m
    BY <1>4, <2>1, LastIsNoParent
  <2> QED
    BY <1>4, <2>2 DEF Own, Announced
<1> QED
  BY <1>3, <1>4, <1>5, <1>6, MatchStays

\* The fields of a structure are declared in a scope of their own.
LEMMA EnterFieldsMatches ==
  ASSUME Parts, Nesting, NamesMatch, EnterFields PROVE NamesMatch'
<1>1. /\ calls # <<>> /\ Top.phase = "named" /\ Continue("fields") /\ Env!Enter(Top.node)
      /\ UNCHANGED <<ast, failed>>
  BY DEF EnterFields, InPhase
<1>2. TreeKeeps /\ Announced' = Announced
  BY <1>1, TreeStays, ContinueAnnounces DEF Parts
<1>3. \A p, x : Own(p, x)' = Own(p, x)
  BY <1>1, <1>2 DEF Own
<1>4. Top.node = Len(ast) /\ Top.node \in 1 .. Len(ast)
  BY <1>1, InnermostNests DEF Parts
<1>5. PICK m : m = Top.node
  OBVIOUS
<1>6. m \in 1 .. MaxNodes /\ m \in Nat /\ m = Len(ast)
  BY <1>4, <1>5, CallProperties DEF Parts, TypeOK
<1>7. \A x \in Names : Own(m, x)' = {}
  <2>1. \A d \in 1 .. m : ast[d].parent # m
    BY <1>6, LastIsNoParent DEF Nesting
  <2>2. \A x \in Names : Own(m, x) = {}
    BY <1>6, <2>1 DEF Own, Announced
  <2> QED
    BY <1>3, <2>2
<1> QED
  BY <1>1, <1>3, <1>5, <1>6, <1>7, MatchStays

\* Other steps of a call that goes on, or that ends without a declaration.
LEMMA ContinueMatches ==
  ASSUME Parts, Nesting, NamesMatch,
         \/ Leave \/ LeaveFunc \/ LeaveStruct
         \/ \E type \in FuncTypes \cup ShaderTypes : Signature(type)
  PROVE  NamesMatch'
<1>1. calls # <<>> /\ UNCHANGED failed /\ (UNCHANGED stack \/ Env!Leave)
  BY DEF Leave, LeaveFunc, LeaveStruct, Signature, InBody, InPhase
<1>2. OnlyTypeOf(Top.node)
  <2>1. CASE UNCHANGED ast
    BY <2>1, SameTypes
  <2>2. ASSUME NEW type \in Types, ast' = [ast EXCEPT ![Top.node].type = type] PROVE OnlyTypeOf(Top.node)
    BY <1>1, <2>2, TypeOfTop DEF Parts
  <2> QED
    BY <2>1, <2>2 DEF Leave, LeaveFunc, LeaveStruct, Signature, Types
<1>3. TreeKeeps
  BY <1>1, <1>2, TreeStays DEF Parts
<1>4. Announced' = Announced
  <2>1. CASE \E phase \in {"body", "declare", "fields"} : Continue(phase)
    BY <1>1, <1>2, <2>1, ContinueAnnounces DEF Parts
  <2>2. CASE Return /\ Current.tag \notin {"func", "shader"}
    <3>1. Announced' = Announced \cup {Top.node}
      BY <1>1, <1>2, <2>2, ReturnAnnounces DEF Parts
    <3>2. Top.node \in 1 .. Len(ast) /\ ast[Top.node].tag \notin {"func", "shader"}
      BY <1>1, <2>2, InnermostNests DEF Parts
    <3>3. Top.node \in Announced
      BY <3>2 DEF Announced
    <3> QED
      BY <3>1, <3>3
  <2>3. LeaveStruct => Current.tag = "struct"
    BY InnermostNests DEF LeaveStruct, InPhase, Parts
  <2> QED
    BY <2>1, <2>2, <2>3 DEF Leave, LeaveFunc, LeaveStruct, Signature
<1>5. \A p, x : Own(p, x)' = Own(p, x)
  BY <1>3, <1>4, OwnStays
<1> QED
  BY <1>1, <1>5, MatchStays

\* Variables and structures are declared as soon as they are met.
LEMMA AddMatches ==
  ASSUME Parts, Nesting, FileScope, NamesMatch,
         NEW tag \in {"var", "struct"}, NEW x \in Names, NEW type \in Types \cup {NoType},
         AddNode(tag, x, type), InsertSymbol(x, New, FALSE),
         (UNCHANGED calls /\ tag = "var") \/ Begin("named")
  PROVE  NamesMatch'
<1> SUFFICES ASSUME ~failed' PROVE NamesMatch'
  BY DEF NamesMatch
<1>1. tag \in Tags /\ x \in Names \cup {"none"} /\ tag \notin {"func", "shader"}
  BY DEF Tags
<1>2. TreeKeeps
  BY <1>1, TreeGrows DEF Parts
<1>3. Announced' = Announced \cup (IF tag \in {"func", "shader"} THEN {} ELSE {New})
  BY <1>1, AddAnnounces DEF Parts
<1>4. PICK m : m = New
  OBVIOUS
<1>5. m \in 1 .. MaxNodes /\ ast'[m] = [tag |-> tag, name |-> x, parent |-> Parent, type |-> type]
  BY <1>1, <1>4, NodeAdded, NewNode DEF Parts
<1>6. ~failed /\ Env!Declare(x, m, FALSE) /\ Env!Accepts(x, FALSE)
  BY <1>4 DEF InsertSymbol
<1>7. Announced' = Announced \cup {m}
  BY <1>1, <1>3, <1>4
<1>8. \A p, n : Own(p, n)' = Own(p, n)
                  \cup (IF ast'[m].name = n /\ ast'[m].parent = p THEN {m} ELSE {})
  BY <1>2, <1>7, OwnAdds
<1>9. \A p, n : n \in Names => Own(p, n)' = Own(p, n) \cup (IF n = x /\ p = Parent THEN {m} ELSE {})
  BY <1>5, <1>8
<1> QED
  BY <1>5, <1>6, <1>9, MatchDeclares

\* A function is declared, in the scope around its own, when its call is over.
LEMMA DeclareFuncMatches ==
  ASSUME Parts, Nesting, FileScope, NamesMatch, DeclareFunc PROVE NamesMatch'
<1> SUFFICES ASSUME ~failed' PROVE NamesMatch'
  BY DEF NamesMatch
<1>1. /\ calls # <<>> /\ Top.phase = "declare" /\ Return /\ UNCHANGED ast
      /\ ~failed /\ Env!Declare(Current.name, Top.node, TRUE) /\ Env!Accepts(Current.name, TRUE)
  BY DEF DeclareFunc, InPhase, InsertSymbol
<1>2. OnlyTypeOf(Top.node)
  BY <1>1, SameTypes
<1>3. TreeKeeps /\ Announced' = Announced \cup {Top.node}
  BY <1>1, <1>2, TreeStays, ReturnAnnounces DEF Parts
<1>4. Top.node \in 1 .. MaxNodes /\ Current = ast[Top.node]
  BY <1>1, CallProperties, InnermostNests DEF Parts, TypeOK
<1>5. ast[Top.node].parent = Parent
  <2>1. calls \in Seq(Call) /\ Len(calls) \in 1 .. Len(calls) /\ Len(calls) \in Nat
    BY <1>1, CallProperties DEF Parts, TypeOK
  <2>2. ast[Top.node].parent = (IF Len(calls) = 1 THEN File ELSE calls[Len(calls) - 1].node)
    BY <2>1 DEF Nesting, NestsAt, Top
  <2>3. Holding = Front(calls)
    BY <1>1 DEF Holding, InPhase
  <2>4. Len(Holding) = Len(calls) - 1 /\ \A k \in 1 .. Len(calls) - 1 : Holding[k] = calls[k]
    BY <1>1, <2>1, <2>3, FrontOfCalls
  <2>5. Holding = <<>> <=> Len(Holding) = 0
    BY HoldingProperties, EmptySeq DEF Parts
  <2>6. CASE Len(calls) = 1
    BY <2>2, <2>4, <2>5, <2>6 DEF Parent
  <2>7. CASE Len(calls) # 1
    <3>1. Len(calls) - 1 \in 1 .. Len(calls) - 1 /\ Len(Holding) # 0
      BY <2>1, <2>4, <2>7
    <3>2. Parent = Holding[Len(Holding)].node
      BY <2>5, <3>1 DEF Parent
    <3> QED
      BY <2>2, <2>4, <2>7, <3>1, <3>2
  <2> QED
    BY <2>6, <2>7
<1>6. PICK m : m = Top.node
  OBVIOUS
<1>7. \A p, n : Own(p, n)' = Own(p, n)
                  \cup (IF ast'[m].name = n /\ ast'[m].parent = p THEN {m} ELSE {})
  BY <1>3, <1>6, OwnAdds
<1>8. PICK x : x = Current.name
  OBVIOUS
<1>9. ast'[m].name = x /\ ast'[m].parent = Parent
  BY <1>1, <1>4, <1>5, <1>6, <1>8
<1>10. \A p, n : n \in Names => Own(p, n)' = Own(p, n) \cup (IF n = x /\ p = Parent THEN {m} ELSE {})
  BY <1>7, <1>9
<1> QED
  BY <1>1, <1>4, <1>6, <1>8, <1>10, MatchDeclares

LEMMA NextMatches ==
  ASSUME Parts, Nesting, Nesting', FileScope, NamesMatch, [Next]_vars PROVE NamesMatch'
<1>1. ASSUME UNCHANGED <<ast, calls, stack>>, ~failed' => ~failed PROVE NamesMatch'
  <2>1. TreeKeeps /\ Announced' = Announced
    BY <1>1, TreeStays, ContinueAnnounces DEF Parts
  <2>2. \A p, n : Own(p, n)' = Own(p, n)
    BY <2>1, OwnStays
  <2> QED
    BY <1>1, <2>2, MatchStays
<1>2. CASE UNCHANGED vars
  BY <1>1, <1>2 DEF vars
<1>3. CASE Next
  <2>1. ASSUME CheckReturn \/ CheckBreak \/ \E n \in Names : Use(n) \/ UseType(n) \/ CallName(n)
        PROVE  NamesMatch'
    <3>1. UNCHANGED <<ast, calls, stack>>
      BY <2>1 DEF CheckReturn, CheckBreak, Use, UseType, CallName, Env!FindOne, Env!FindAll
    <3>2. ~failed' => ~failed
      BY <2>1 DEF CheckReturn, CheckBreak, Use, UseType, CallName
    <3> QED
      BY <1>1, <3>1, <3>2
  <2>2. ASSUME BadStruct \/ BadOperator PROVE NamesMatch'
    BY <2>2 DEF BadStruct, BadOperator, NamesMatch
  <2>3. ASSUME NEW tag \in {"block", "loop"}, Enter(tag) PROVE NamesMatch'
    <3>1. tag \in Tags
      BY DEF Tags
    <3> QED
      BY <2>3, <3>1, EnterMatches DEF Enter
  <2>4. ASSUME NEW tag \in {"func", "shader"}, NEW n \in Names, EnterFunc(tag, n) PROVE NamesMatch'
    <3>1. tag \in Tags /\ n \in Names \cup {"none"}
      BY DEF Tags
    <3> QED
      BY <2>4, <3>1, EnterMatches DEF EnterFunc
  <2>5. ASSUME NEW n \in Names, EnterStruct(n) PROVE NamesMatch'
    BY <2>5, AddMatches DEF EnterStruct
  <2>6. ASSUME NEW n \in Names, NEW named \in BOOLEAN, Declare(n, named) PROVE NamesMatch'
    <3>1. (IF named THEN ast[bound.to].type ELSE "value") \in Types \cup {NoType}
      BY <2>6, TypeOfVar DEF Parts
    <3> QED
      BY <2>6, <3>1, AddMatches DEF Declare
  <2> QED
    BY <1>3, <2>1, <2>2, <2>3, <2>4, <2>5, <2>6, EnterFieldsMatches, DeclareFuncMatches,
       ContinueMatches, Zenon DEF Next
<1> QED
  BY <1>2, <1>3

-----------------------------------------------------------------------------
(* What a name is bound to. *)

\* The declarations of n that can be meant are those of the open scopes.
LEMMA InScopeIsOwn ==
  ASSUME Parts, Nesting, FileScope, ~failed, NEW n
  PROVE  \A d : d \in InScope(n) <=>
                  \E k \in 1 .. Len(stack) : d \in Own(stack[k].kind, n)
<1>1. /\ Len(stack) = Len(Holding) + 1 /\ Len(Holding) \in Nat
      /\ \A k \in 1 .. Len(Holding) : stack[k + 1].kind = Holding[k].node
  BY ScopesNest, Zenon
<1>2. stack[1].kind = File
  BY DEF FileScope
<1>3. DOMAIN Holding = 1 .. Len(Holding) /\ DOMAIN ast = 1 .. Len(ast) /\ DOMAIN calls = 1 .. Len(calls)
  BY HoldingProperties, LenProperties DEF Parts, TypeOK
<1>4. \A p : (p = File \/ \E k \in 1 .. Len(Holding) : Holding[k].node = p)
               <=> \E k \in 1 .. Len(stack) : stack[k].kind = p
  <2> SUFFICES ASSUME NEW p
               PROVE  (p = File \/ \E k \in 1 .. Len(Holding) : Holding[k].node = p)
                        <=> \E k \in 1 .. Len(stack) : stack[k].kind = p
    OBVIOUS
  <2>1. ASSUME NEW k \in 1 .. Len(Holding) PROVE k + 1 \in 1 .. Len(stack) /\ stack[k + 1].kind = Holding[k].node
    BY <1>1
  <2>2. 1 \in 1 .. Len(stack)
    BY <1>1
  <2>3. ASSUME NEW k \in 1 .. Len(stack), k # 1
        PROVE  k - 1 \in 1 .. Len(Holding) /\ stack[k].kind = Holding[k - 1].node
    <3>1. k - 1 \in 1 .. Len(Holding) /\ (k - 1) + 1 = k
      BY <1>1, <2>3
    <3>2. stack[(k - 1) + 1].kind = Holding[k - 1].node
      BY <1>1, <3>1
    <3> QED
      BY <3>1, <3>2
  <2> QED
    BY <1>2, <2>1, <2>2, <2>3
<1>5. \A d : d \in InScope(n) <=>
               /\ d \in Announced /\ ast[d].name = n
               /\ \E k \in 1 .. Len(stack) : stack[k].kind = ast[d].parent
  BY <1>3, <1>4 DEF InScope, Announced, HasCall
<1> QED
  BY <1>5 DEF Own

\* The only declaration of the innermost scope that declares n is in scope, and
\* all others belong to scopes around it.
LEMMA NearestIsInnermost ==
  ASSUME Parts, Nesting, FileScope, NamesMatch, ~failed, NEW n \in Names, Env!IsSingle(n),
         NEW d, d = stack[Env!Nearest(n)].decls[n][1].ast
  PROVE  /\ d \in DOMAIN ast /\ ast[d].name = n /\ d \in InScope(n)
         /\ \A e \in InScope(n) \ {d} : ast[e].parent < ast[d].parent
<1> DEFINE i0 == Env!Nearest(n)
<1>1. stack \in Seq(Scope) /\ Len(stack) \in Nat /\ DOMAIN stack = 1 .. Len(stack)
      /\ DOMAIN ast = 1 .. Len(ast)
  BY CallProperties, LenProperties DEF Parts, TypeOK
<1>2. Env!Declaring(n) \subseteq 1 .. Len(stack) /\ Env!Declaring(n) # {} /\ Len(stack[i0].decls[n]) = 1
  BY <1>1 DEF Env!Declaring, Env!IsSingle
<1>3. i0 \in Env!Declaring(n) /\ \A j \in Env!Declaring(n) : j <= i0
  <2>1. \E i \in Env!Declaring(n) : \A j \in Env!Declaring(n) : j <= i
    BY <1>1, <1>2, LargestElement
  <2> QED
    BY <2>1 DEF Env!Nearest
<1> HIDE DEF i0
<1>4. i0 \in 1 .. Len(stack)
  BY <1>2, <1>3
<1>5. NodesOf(stack[i0].decls[n]) = {d}
  <2>1. d = stack[i0].decls[n][1].ast
    BY DEF i0
  <2> QED
    BY <1>2, <2>1 DEF NodesOf
<1>6. Own(stack[i0].kind, n) = {d}
  BY <1>4, <1>5 DEF NamesMatch, Sources
<1>7. d \in InScope(n)
  BY <1>4, <1>6, InScopeIsOwn
<1>8. d \in 1 .. Len(ast) /\ ast[d].name = n /\ ast[d].parent = stack[i0].kind
  BY <1>6 DEF Own, Announced
<1>9. ASSUME NEW e \in InScope(n), e # d PROVE ast[e].parent < ast[d].parent
  <2>1. PICK k \in 1 .. Len(stack) : e \in Own(stack[k].kind, n)
    BY InScopeIsOwn
  <2>2. k # i0 /\ ast[e].parent = stack[k].kind
    <3>1. k # i0
      BY <1>6, <1>9, <2>1
    <3> QED
      BY <2>1, <3>1 DEF Own
  <2>3. e \in NodesOf(stack[k].decls[n])
    BY <2>1 DEF NamesMatch, Sources
  <2>4. stack[k].decls[n] # <<>>
    <3>1. \E i \in 1 .. Len(stack[k].decls[n]) : TRUE
      BY <2>3 DEF NodesOf
    <3> QED
      BY <3>1, EmptySeq
  <2>5. k <= i0
    BY <1>1, <1>3, <2>4 DEF Env!Declaring
  <2>6. k < i0
    BY <1>4, <2>2, <2>5
  <2>7. \A i, j \in 1 .. Len(stack) : i < j => stack[i].kind < stack[j].kind
    BY ScopesNest, Zenon
  <2> QED
    BY <1>4, <1>8, <2>2, <2>6, <2>7
<1> QED
  BY <1>1, <1>7, <1>8, <1>9

LEMMA SearchBinds ==
  ASSUME Parts, Nesting, FileScope, NamesMatch, NEW n \in Names, Use(n) \/ UseType(n)
  PROVE  LexicalScope'
<1> SUFFICES ASSUME ~failed' PROVE LexicalScope'
  BY DEF LexicalScope
<1>1. Env!FindOne(n) /\ UNCHANGED <<ast, calls, stack>> /\ (To("use") \/ To("type"))
  BY DEF Use, UseType, Env!FindOne
<1>2. ~failed /\ Found
  BY DEF Use, UseType
<1>3. Env!IsSingle(n) /\ answer' = Env!One(stack[Env!Nearest(n)].decls[n][1].ast)
  BY <1>1, <1>2 DEF Env!FindOne, Env!Nothing, Found
<1>4. bound'.to = stack[Env!Nearest(n)].decls[n][1].ast
  BY <1>1, <1>2, <1>3 DEF To, FoundOne, Env!One
<1>5. PICK d : d = bound'.to
  OBVIOUS
<1>6. /\ d \in DOMAIN ast /\ ast[d].name = n /\ d \in InScope(n)
      /\ \A e \in InScope(n) \ {d} : ast[e].parent < ast[d].parent
  BY <1>2, <1>3, <1>4, <1>5, NearestIsInnermost
<1>7. InScope(n)' = InScope(n)
  BY <1>1 DEF InScope, Holding, InPhase, Top
<1>8. /\ bound'.to \in DOMAIN ast' /\ ast'[bound'.to].name = n
      /\ bound'.to \in InScope(n)'
      /\ \A e \in InScope(n)' \ {bound'.to} : ast'[e].parent < ast'[bound'.to].parent
  BY <1>1, <1>5, <1>6, <1>7
<1> QED
  BY <1>8 DEF LexicalScope

LEMMA NextBinds ==
  ASSUME Parts, Nesting, FileScope, NamesMatch, LexicalScope, [Next]_vars PROVE LexicalScope'
<1>1. CASE UNCHANGED vars
  BY <1>1 DEF vars, LexicalScope, InScope, Holding, InPhase, Top
<1>2. CASE Next
  <2>1. CASE bound' = Unbound \/ bound'.tag \in {"call", "return", "break"}
    BY <2>1 DEF Unbound, LexicalScope
  <2>2. CASE \E n \in Names : Use(n) \/ UseType(n)
    BY <2>2, SearchBinds
  <2>3. \/ bound' = Unbound \/ bound'.tag \in {"call", "return", "break"}
        \/ \E n \in Names : Use(n) \/ UseType(n)
    <3>1. ASSUME NEW n \in Names, CallName(n) PROVE bound'.tag = "call"
      BY <3>1 DEF CallName
    <3>2. CheckReturn => bound'.tag = "return"
      BY DEF CheckReturn
    <3>3. CheckBreak => bound'.tag = "break"
      BY DEF CheckBreak
    <3> QED
      BY <1>2, <3>1, <3>2, <3>3, Zenon DEF Next, Enter, Leave, Declare, EnterFunc, BadOperator,
         Signature, LeaveFunc, DeclareFunc, EnterStruct, BadStruct, EnterFields, LeaveStruct
  <2> QED
    BY <2>1, <2>2, <2>3
<1> QED
  BY <1>1, <1>2

LEMMA InitDeclares == Init => Declared /\ FileScope /\ NamesMatch
<1> SUFFICES ASSUME Init PROVE Declared /\ FileScope /\ NamesMatch
  OBVIOUS
<1>1. Len(ast) = 0 /\ stack = <<Env!Empty(File)>>
  BY EmptySeq DEF Init, Env!Init
<1>2. Len(stack) = 1 /\ stack[1] = Env!Empty(File)
  BY <1>1
<1>3. \A k \in 1 .. Len(stack), n \in Names : stack[k].decls[n] = <<>>
  BY <1>2 DEF Env!Empty
<1>4. \A k \in 1 .. Len(stack), n \in Names : Len(stack[k].decls[n]) = 0
  BY <1>3
<1>5. \A k \in 1 .. Len(stack), n \in Names : 1 .. Len(stack[k].decls[n]) = {}
  BY <1>4
<1>6. stack[1].kind = File
  BY <1>2 DEF Env!Empty
<1>7. Declared
  BY <1>5 DEF Declared, DeclaredNodes, FuncsDiffer
<1>8. \A k \in 1 .. Len(stack), n \in Names : Sources(k, n) = {} /\ Own(stack[k].kind, n) = {}
  BY <1>1, <1>5 DEF Sources, NodesOf, Own, Announced
<1> QED
  BY <1>2, <1>6, <1>7, <1>8 DEF FileScope, NamesMatch

-----------------------------------------------------------------------------
(* Theorems. *)

\* The inductive invariant of the checker holds in every state.
THEOREM Invariance == Spec => []IInv
<1>1. Init => IInv
  <2>1. Init => JumpsBind
    BY DEF Init, Unbound, JumpsBind
  <2> QED
    BY <2>1, InitParts, PartsAreIInv
<1>2. IInv /\ [Next]_vars => IInv'
  BY NextKeeps, StepKeeps, PartsAreIInv, PartsAreIInvPrime
<1> QED
  BY <1>1, <1>2, PTL DEF Spec

\* env_pop_scope never pops the outermost scope: every check_* call finds the
\* scope that it pushed, errors or not (the assertion of env.c:180).
THEOREM ScopesSuffice == Spec => []EveryCallHasItsScope
<1>1. IInv => EveryCallHasItsScope
  BY DEF IInv
<1> QED
  BY <1>1, Invariance, PTL

\* Until an error is reported, the scopes are those of the calls in progress.
THEOREM ScopesAreThoseOfCalls == Spec => []ScopesMatchCalls
<1>1. IInv => ScopesMatchCalls
  BY DEF IInv
<1> QED
  BY <1>1, Invariance, PTL

\* Until an error is reported, return and break statements are bound to the
\* innermost function and loop that is being checked.
THEOREM JumpsAreBound == Spec => []JumpsBind
<1>1. IInv => JumpsBind
  BY DEF IInv
<1> QED
  BY <1>1, Invariance, PTL

\* What the scopes declare: the calls nest as the program text does, visible
\* functions differ in type, and until an error is reported each scope declares
\* the nodes of its construct and names are bound by the nesting of the text.
DeclInv == Nesting /\ Declared /\ FileScope /\ NamesMatch /\ LexicalScope

LEMMA NextKeepsDecls == ASSUME Parts, DeclInv, [Next]_vars PROVE DeclInv'
<1>1. Nesting' /\ Declared' /\ FileScope'
  BY NextNests, NextDeclares, FileScopeNext DEF DeclInv, Parts
<1>2. NamesMatch' /\ LexicalScope'
  BY <1>1, NextMatches, NextBinds DEF DeclInv
<1> QED
  BY <1>1, <1>2 DEF DeclInv

\* The declarations in the scopes are those that the program text has made.
THEOREM ScopesDeclare == Spec => []DeclInv
<1>1. Init => DeclInv
  BY InitNests, InitDeclares DEF DeclInv, LexicalScope, Init, Unbound
<1>2. IInv /\ DeclInv /\ [Next]_vars => DeclInv'
  BY NextKeepsDecls, PartsAreIInv
<1> QED
  BY <1>1, <1>2, Invariance, PTL DEF Spec

\* Functions of one name that are visible together differ in type, even after
\* errors: find_conflicting_overload looks at all that a call may find.
THEOREM OverloadsDiffer == Spec => []VisibleOverloadsDiffer
<1>1. IInv /\ DeclInv => VisibleOverloadsDiffer
  BY VisibleDiffer, PartsAreIInv DEF DeclInv, Declared, FileScope, Parts
<1> QED
  BY <1>1, Invariance, ScopesDeclare, PTL

\* Until an error is reported, a name is bound to the only declaration that the
\* innermost construct declaring it has, by the nesting of the program text.
THEOREM NamesAreLexical == Spec => []LexicalScope
<1>1. DeclInv => LexicalScope
  BY DEF DeclInv
<1> QED
  BY <1>1, ScopesDeclare, PTL
=============================================================================
