-------------------------------- MODULE Env --------------------------------
(***************************************************************************)
(* The environment of the type checker (env.c): scopes that are kept and   *)
(* used again after they are popped, symbols in linked lists, and a list   *)
(* of free symbols.  clear_scope is a loop and takes one step per symbol;  *)
(* everything else is one step.                                            *)
(***************************************************************************)
EXTENDS Integers, Sequences, FiniteSets

CONSTANTS
  Names,      \* names of symbols
  Decls,      \* declarations that symbols stand for
  Kinds,      \* AST tags of the scopes that the checker pushes
  Cells,      \* addresses that xcalloc returns for symbols
  NULL,       \* no address
  NoDecl,     \* the contents of a new symbol
  MaxScopes   \* bound on the scopes ever allocated

ASSUME EnvAssumption ==
  /\ NULL \notin Cells
  /\ IsFiniteSet(Cells)
  /\ MaxScopes \in Nat \ {0}

VARIABLES
  scopes,        \* the scopes allocated so far, linked by prev and next
  depth,         \* env->scope is scopes[depth]
  symbols,       \* the contents of the symbols
  allocated,     \* the addresses returned by xcalloc
  freeSymbols,   \* head of the list of free symbols
  mode,          \* "open", "pop" or "destroy" in clear_scope, "closed" after env_destroy
  clearing,      \* clear_scope: the scope, the names still to clear and the cursor
  answer         \* what the last operation returned

vars == <<scopes, depth, symbols, allocated, freeSymbols, mode, clearing, answer>>

Pointer == Cells \cup {NULL}
Symbol  == [ast : Decls \cup {NoDecl}, next : Pointer, overload : BOOLEAN]
Scope   == [kind : Kinds \cup {"file"}, table : [Names -> Pointer]]
Cursor  == [scope : Nat, left : SUBSET Names, symbol : Pointer]

EmptyTable == [n \in Names |-> NULL]
NotClearing == [scope |-> 0, left |-> {}, symbol |-> NULL]

Nothing  == [tag |-> "nothing"]
Done(ok) == [tag |-> "done", ok |-> ok]
One(d)   == [tag |-> "one", decl |-> d]
All(ds)  == [tag |-> "all", decls |-> ds]

TypeOK ==
  /\ scopes \in Seq(Scope)
  /\ depth \in 1 .. Len(scopes)
  /\ symbols \in [Cells -> Symbol]
  /\ allocated \subseteq Cells
  /\ freeSymbols \in Pointer
  /\ mode \in {"open", "pop", "destroy", "closed"}
  /\ clearing \in Cursor

-----------------------------------------------------------------------------
(* Lookups. *)

First(i, n) == scopes[i].table[n]

\* The symbol that is k links behind c; there are no longer lists.
Walk(c) ==
  LET follow == [p \in Pointer |-> IF p = NULL THEN NULL ELSE symbols[p].next]
      walk[k \in 0 .. Cardinality(Cells)] == IF k = 0 THEN c ELSE follow[walk[k - 1]]
  IN walk

Content(p) == [ast |-> symbols[p].ast, overload |-> symbols[p].overload]

\* The declarations in the list from c.
Chain(c) ==
  LET walk == Walk(c)
  IN [k \in {k \in 1 .. Cardinality(Cells) : walk[k - 1] # NULL} |-> Content(walk[k - 1])]

\* env_find_one_symbol stops at the innermost scope that has the name.
FindOne(n) ==
  LET found == {i \in 1 .. depth : First(i, n) # NULL}
      inner == CHOOSE i \in found : \A j \in found : j <= i
      first == First(inner, n)
  IN /\ mode = "open"
     /\ answer' = IF found # {} /\ symbols[first].next = NULL
                  THEN One(symbols[first].ast)
                  ELSE Nothing
     /\ UNCHANGED <<scopes, depth, symbols, allocated, freeSymbols, mode, clearing>>

\* The declarations of n, scope by scope.
AstsOf(n) ==
  [i \in 1 .. depth |-> LET list == Chain(First(i, n)) IN [k \in DOMAIN list |-> list[k].ast]]

\* env_find_all_symbols goes on to the outer scopes.
InnerFirst(asts, d) ==
  LET from[i \in 0 .. d] == IF i = 0 THEN <<>> ELSE asts[i] \o from[i - 1]
  IN from[d]

FindAll(n) ==
  /\ mode = "open"
  /\ answer' = All(InnerFirst(AstsOf(n), depth))
  /\ UNCHANGED <<scopes, depth, symbols, allocated, freeSymbols, mode, clearing>>

-----------------------------------------------------------------------------
(* Insertion. *)

\* Slip: a symbol taken from the free list keeps its link to the next one.
AllocKeepsLink(c) == symbols[c].next

\* alloc_symbol: the link of the symbol it returns.
AllocLink(c) == NULL

\* alloc_symbol: the first free symbol, or a new one.
Alloc(c) ==
  IF freeSymbols # NULL
  THEN /\ c = freeSymbols
       /\ freeSymbols' = symbols[c].next
       /\ UNCHANGED allocated
  ELSE /\ c \in Cells \ allocated
       /\ allocated' = allocated \cup {c}
       /\ UNCHANGED freeSymbols

\* Slip: the flag of the symbol already there is not looked at.
RefusesNew(first, overload) == first # NULL /\ ~overload

Refuses(first, overload) == first # NULL /\ ~(overload /\ symbols[first].overload)

Refused(n, overload) ==
  /\ mode = "open"
  /\ Refuses(First(depth, n), overload)
  /\ answer' = Done(FALSE)
  /\ UNCHANGED <<scopes, depth, symbols, allocated, freeSymbols, mode, clearing>>

\* The name is new in the scope: its list starts at the new symbol.
InsertFirst(n, d, overload) ==
  /\ mode = "open"
  /\ First(depth, n) = NULL
  /\ \E c \in Cells :
       /\ Alloc(c)
       /\ symbols' = [symbols EXCEPT ![c] =
                        [ast |-> d, next |-> AllocLink(c), overload |-> overload]]
       /\ scopes' = [scopes EXCEPT ![depth].table[n] = c]
  /\ answer' = Done(TRUE)
  /\ UNCHANGED <<depth, mode, clearing>>

\* The name has symbols: the first one takes the new declaration and its old
\* contents move to the new symbol behind it.
InsertOverload(n, d, overload) ==
  LET first == First(depth, n)
  IN /\ mode = "open"
     /\ first # NULL
     /\ ~Refuses(first, overload)
     /\ \E c \in Cells :
          /\ Alloc(c)
          /\ symbols' = [symbols EXCEPT
                           ![c] = [ast |-> symbols[first].ast, next |-> symbols[first].next,
                                   overload |-> overload],
                           ![first].ast = d,
                           ![first].next = c]
     /\ answer' = Done(TRUE)
     /\ UNCHANGED <<scopes, depth, mode, clearing>>

-----------------------------------------------------------------------------
(* Scopes. *)

PushScope(k) ==
  /\ mode = "open"
  /\ depth < MaxScopes
  /\ depth' = depth + 1
  /\ scopes' = IF depth = Len(scopes)
               THEN Append(scopes, [kind |-> k, table |-> EmptyTable])
               ELSE [scopes EXCEPT ![depth + 1].kind = k]
  /\ answer' = Nothing
  /\ UNCHANGED <<symbols, allocated, freeSymbols, mode, clearing>>

\* env_pop_scope calls clear_scope, and then goes back to the previous scope.
PopScope ==
  /\ mode = "open"
  /\ depth > 1
  /\ mode' = "pop"
  /\ clearing' = [scope |-> depth, left |-> Names, symbol |-> NULL]
  /\ answer' = Nothing
  /\ UNCHANGED <<scopes, depth, symbols, allocated, freeSymbols>>

\* env_destroy clears every scope from the outermost one.
Destroy ==
  /\ mode = "open"
  /\ mode' = "destroy"
  /\ clearing' = [scope |-> 1, left |-> Names, symbol |-> NULL]
  /\ UNCHANGED <<scopes, depth, symbols, allocated, freeSymbols, answer>>

InClear == mode \in {"pop", "destroy"}

\* clear_scope: the next list of the table, in any order.
ClearName(n) ==
  /\ InClear
  /\ clearing.symbol = NULL
  /\ n \in clearing.left
  /\ clearing' = [clearing EXCEPT !.left = @ \ {n}, !.symbol = First(clearing.scope, n)]
  /\ UNCHANGED <<scopes, depth, symbols, allocated, freeSymbols, mode, answer>>

\* Slip: the cursor follows the link after free_symbol has changed it.
NextOf(c) == freeSymbols

\* clear_scope reads the link before it frees the symbol.
SavedNext(c) == symbols[c].next

\* free_symbol
ClearSymbol ==
  LET c == clearing.symbol
  IN /\ InClear
     /\ c # NULL
     /\ symbols' = [symbols EXCEPT ![c].next = freeSymbols]
     /\ freeSymbols' = c
     /\ clearing' = [clearing EXCEPT !.symbol = SavedNext(c)]
     /\ UNCHANGED <<scopes, depth, allocated, mode, answer>>

Cleared ==
  /\ InClear
  /\ clearing.symbol = NULL
  /\ clearing.left = {}
  /\ scopes' = [scopes EXCEPT ![clearing.scope].table = EmptyTable]

ScopePopped ==
  /\ mode = "pop"
  /\ Cleared
  /\ depth' = depth - 1
  /\ mode' = "open"
  /\ clearing' = NotClearing
  /\ UNCHANGED <<symbols, allocated, freeSymbols, answer>>

ScopeDestroyed ==
  /\ mode = "destroy"
  /\ Cleared
  /\ IF clearing.scope < Len(scopes)
     THEN /\ clearing' = [scope |-> clearing.scope + 1, left |-> Names, symbol |-> NULL]
          /\ UNCHANGED mode
     ELSE /\ clearing' = NotClearing
          /\ mode' = "closed"
  /\ UNCHANGED <<depth, symbols, allocated, freeSymbols, answer>>

\* The rest of env_destroy frees the list of free symbols.
FreeSymbol ==
  /\ mode = "closed"
  /\ freeSymbols # NULL
  /\ allocated' = allocated \ {freeSymbols}
  /\ freeSymbols' = symbols[freeSymbols].next
  /\ UNCHANGED <<scopes, depth, symbols, mode, clearing, answer>>

-----------------------------------------------------------------------------
Init ==
  /\ scopes = <<[kind |-> "file", table |-> EmptyTable]>>
  /\ depth = 1
  /\ symbols = [c \in Cells |-> [ast |-> NoDecl, next |-> NULL, overload |-> FALSE]]
  /\ allocated = {}
  /\ freeSymbols = NULL
  /\ mode = "open"
  /\ clearing = NotClearing
  /\ answer = Nothing

Next ==
  \/ \E n \in Names, overload \in BOOLEAN : Refused(n, overload)
  \/ \E n \in Names, d \in Decls, overload \in BOOLEAN :
       InsertFirst(n, d, overload) \/ InsertOverload(n, d, overload)
  \/ \E n \in Names : FindOne(n) \/ FindAll(n) \/ ClearName(n)
  \/ \E k \in Kinds : PushScope(k)
  \/ PopScope
  \/ Destroy
  \/ ClearSymbol
  \/ ScopePopped
  \/ ScopeDestroyed
  \/ FreeSymbol

Spec == Init /\ [][Next]_vars

\* The loops of clear_scope and env_destroy are run to their end.
FairSpec ==
  /\ Spec
  /\ WF_vars(\E n \in Names : ClearName(n))
  /\ WF_vars(ClearSymbol)
  /\ WF_vars(ScopePopped)
  /\ WF_vars(ScopeDestroyed)
  /\ WF_vars(FreeSymbol)

-----------------------------------------------------------------------------
(* Ownership: the pointers through which a symbol can be reached. *)

\* The table entries in use: clear_scope leaves those it has freed dangling.
Entries ==
  {e \in (1 .. Len(scopes)) \X Names :
     ~(InClear /\ e[1] = clearing.scope /\ e[2] \notin clearing.left)}

HeadOf(e) == First(e[1], e[2])

\* The symbols that are used point to symbols that were not given back to the
\* allocator, and so do the tables, the free list and the cursor.
NoDanglingSymbols ==
  /\ \A e \in Entries : HeadOf(e) \in allocated \cup {NULL}
  /\ \A c \in allocated : symbols[c].next \in allocated \cup {NULL}
  /\ freeSymbols \in allocated \cup {NULL}
  /\ clearing.symbol \in allocated \cup {NULL}

\* No symbol is in two lists, or twice in one: two scopes, two names, or a scope
\* and the free list never share one (alloc_symbol, free_symbol, clear_scope).
NoSharedSymbols ==
  /\ \A e, f \in Entries : HeadOf(e) = HeadOf(f) => e = f \/ HeadOf(e) = NULL
  /\ \A c, d \in allocated :
       symbols[c].next = symbols[d].next => c = d \/ symbols[c].next = NULL
  /\ \A e \in Entries, c \in allocated : HeadOf(e) = symbols[c].next => HeadOf(e) = NULL
  /\ \A p \in {freeSymbols, clearing.symbol} :
       p # NULL => /\ \A e \in Entries : HeadOf(e) # p
                   /\ \A c \in allocated : symbols[c].next # p
  /\ freeSymbols = clearing.symbol => freeSymbols = NULL

\* The scopes above the current one, which env_push_scope uses again, are empty.
ReusedScopesAreEmpty ==
  \A i \in 1 .. Len(scopes) :
    i > depth \/ (mode = "destroy" /\ i < clearing.scope) \/ mode = "closed"
      => scopes[i].table = EmptyTable

\* The scope being cleared is the current one, or any one when all are.
ClearingAScope ==
  /\ mode = "pop" => clearing.scope = depth /\ depth > 1
  /\ mode = "destroy" => clearing.scope \in 1 .. Len(scopes)
  /\ ~InClear => clearing = NotClearing

IInv ==
  /\ TypeOK
  /\ NoDanglingSymbols
  /\ NoSharedSymbols
  /\ ReusedScopesAreEmpty
  /\ ClearingAScope

\* Clearing a scope comes to its end wherever it is done: env_pop_scope returns,
\* and env_destroy does with every symbol given back to the allocator.
ClearingEnds ==
  /\ mode = "pop" ~> mode = "open"
  /\ mode = "destroy" ~> (mode = "closed" /\ allocated = {})

-----------------------------------------------------------------------------
\* The open scopes and what they declare: a scope is gone as soon as
\* env_pop_scope begins to clear it.
OpenScopes ==
  IF mode \in {"destroy", "closed"} THEN <<>>
  ELSE [i \in 1 .. (IF mode = "pop" THEN depth - 1 ELSE depth) |->
          [kind |-> scopes[i].kind, decls |-> [n \in Names |-> Chain(First(i, n))]]]

\* The scopes and lists implement a stack of declarations.
Abstract == INSTANCE ScopeSpec WITH FileKind <- "file", stack <- OpenScopes

ImplementsScopeSpec == Abstract!Spec
=============================================================================
