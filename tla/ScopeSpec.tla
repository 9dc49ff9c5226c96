----------------------------- MODULE ScopeSpec -----------------------------
(***************************************************************************)
(* What the environment of the type checker (env.c) promises: a stack of   *)
(* scopes, each with the declarations made for every name, newest first.   *)
(***************************************************************************)
EXTENDS Naturals, Sequences, SequencesExt

CONSTANTS
  Names,      \* names of declarations
  Decls,      \* the declarations themselves
  Kinds,      \* what the scopes are for
  FileKind    \* what the outermost scope is for

VARIABLES
  stack,      \* the open scopes, innermost last; empty when closed
  answer      \* what the last operation returned

vars == <<stack, answer>>

Nothing  == [tag |-> "nothing"]
Done(ok) == [tag |-> "done", ok |-> ok]
One(d)   == [tag |-> "one", decl |-> d]
All(ds)  == [tag |-> "all", decls |-> ds]

Empty(k) == [kind |-> k, decls |-> [n \in Names |-> <<>>]]
Top      == stack[Len(stack)]

\* Only overloadable declarations share a name in one scope.
Accepts(n, overload) ==
  \A i \in DOMAIN Top.decls[n] : overload /\ Top.decls[n][i].overload

Asts(ds) == [i \in DOMAIN ds |-> ds[i].ast]

\* The scopes from the innermost to the outermost.
Outward == Reverse(stack)

\* The scopes that declare n; the innermost is the one that a lookup finds.
Declaring(n) == {i \in DOMAIN stack : stack[i].decls[n] # <<>>}
Nearest(n)   == CHOOSE i \in Declaring(n) : \A j \in Declaring(n) : j <= i

\* n has one declaration in the innermost scope that declares it.
IsSingle(n) == Declaring(n) # {} /\ Len(stack[Nearest(n)].decls[n]) = 1

-----------------------------------------------------------------------------
Init ==
  /\ stack = <<Empty(FileKind)>>
  /\ answer = Nothing

Enter(k) ==
  /\ stack' = Append(stack, Empty(k))
  /\ answer' = Nothing

Leave ==
  /\ Len(stack) > 1
  /\ stack' = Front(stack)
  /\ answer' = Nothing

Declare(n, d, overload) ==
  /\ answer' = Done(Accepts(n, overload))
  /\ IF Accepts(n, overload)
     THEN stack' = [stack EXCEPT ![Len(stack)].decls[n] =
                      <<[ast |-> d, overload |-> overload]>> \o @]
     ELSE UNCHANGED stack

\* The declaration of n that is visible, when it is the only one of its scope.
FindOne(n) ==
  /\ answer' = IF IsSingle(n) THEN One(stack[Nearest(n)].decls[n][1].ast) ELSE Nothing
  /\ UNCHANGED stack

\* All declarations of n, inner scopes first.
FindAll(n) ==
  /\ answer' = All(Asts(FlattenSeq([i \in DOMAIN stack |-> Outward[i].decls[n]])))
  /\ UNCHANGED stack

\* The end of checking: nothing is asked any more.
Close ==
  /\ stack' = <<>>
  /\ UNCHANGED answer

Next ==
  /\ stack # <<>>
  /\ \/ \E k \in Kinds : Enter(k)
     \/ Leave
     \/ \E n \in Names, d \in Decls, overload \in BOOLEAN : Declare(n, d, overload)
     \/ \E n \in Names : FindOne(n) \/ FindAll(n)
     \/ Close

Spec == Init /\ [][Next]_vars
=============================================================================
