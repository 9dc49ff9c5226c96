# Verification of nosl

nosl is a compiler front end for the Open Shading Language (OSL), written in C: a
preprocessor and lexer, a parser, a type checker and a printer of the checked syntax
tree. This directory holds TLA+ models of its stateful parts, the TLC runs that check
them on small instances, and TLAPS proofs of what holds for every instance.

Paths such as `preprocessor.c:433` are relative to `src/src/` unless they begin with
`src/`.

## The system

Everything runs in one thread. The driver (`main.c`) reads each file given on the
command line, preprocesses and parses it to a syntax tree, checks the tree and prints it.
Calls go one way: driver → parser → preprocessor → lexer, and driver → checker →
environment and type table. The parser pulls tokens one at a time from
`preprocessor_advance`; nothing is concurrent. What is hard is *order*: the preprocessor
is a machine with an explicit stack that many handlers push, pop and peek, and the
checker is a recursive walk whose environment, node types and early returns interleave.

| Component | State it keeps | Operations | What makes it correct |
|---|---|---|---|
| Conditional directives (`preprocessor.c:854-967`) | `is_active`, `cond_stack` per file | `#if` … `#endif`, opening and end of a file | text is emitted exactly in the selected branches of all open groups |
| Macro expander (`preprocessor.c:186-572`, `1016-1081`, `1250-1267`) | macro table, `is_disabled` flags, context stack, calls in progress | read, peek, expand, parse arguments, substitute, paste, stringify, `#define`, `#undef`, `#include` | every token once and in order; a macro is not expanded in its own expansion; expansion ends if no call takes the end of its argument; no pointer to a freed macro |
| Condition evaluator (`preprocessor.c:702-852`) | none but the token stream | `parse_cond` and its levels | the value that C gives (with `==` on the level of `<`), and errors only where C computes them |
| Include files and cache (`file_cache.c`, `preprocessor.c:212-221`, `1083-1320`) | cache of file contents, `#pragma once` marks, line numbers | open, every directive, end of file | each header once if it is guarded; the includer goes on where it stopped; messages name the right line |
| Lexer (`lexer.c`, `token.c`) | position in the text, flags of the line | `lexer_advance` | each character in one token, the longest that begins there; progress |
| Parser (`parse.c`) | window of look-ahead tokens, the recursion, the nodes allocated | one function per construct, error recovery | accepts the grammar; operators bind by their precedence; locations nest; every parse ends |
| Environment (`env.c`) | list of scopes, tables and chains of symbols, free list | push, pop, insert, find, destroy | a stack of scopes; no symbol shared or lost |
| Type checker (`check.c`) | the recursion itself, node types, environment | one function per node | names, calls, returns and breaks bound as the text nests; every expression has a type and every conversion is a cast, but for operands of overloaded operators |
| Types and type table (`type.c`, `type_table.c`) | hash set of types | one constructor per type, declaration of structures, coercion ranks | equal types are equal pointers; ranks order the conversions |
| Syntax tree (`ast.c`), driver (`main.c`), built-in declarations (`builtins.osl`) | data, files, options | printing, command line | output only |
| Overture library (git submodule, empty here) | vectors, maps, sets, pools, logs | used by all | external: modelled as the sequences, functions and sets its callers see |

Hard behaviours, each listed with its line under `hazards` in `PROJECT.json`: contexts
are popped lazily, so that an exhausted token buffer is still the top of the stack when
a directive's handler resumes; an end of file inside a directive leaves the handler in
another file; the nesting of skipped groups is kept in a counter and that of active ones
in a stack; conditions are evaluated while they are parsed; freed symbols and popped
scopes are used again; a structure is in a hash set before it has fields; the checker
rewrites the tree that it walks, returns early with a scope pushed, declares functions
after and structures before their bodies; lookups cross function boundaries.

## Modules

| Module | Models | Extends or uses |
|---|---|---|
| `CondSpec` | promise: a stack of `#if` groups and whether text is emitted | |
| `Conditionals` | the conditional directives of one file | instance of `CondSpec` |
| `ConditionalsProofs` | theorems | `Conditionals`, `SeqLemmas` |
| `CondValue` | the evaluator of conditions, over tokens | used by `MCConditionals` |
| `MacroExpansion` | the macro expander | |
| `MacroExpansionProofs` | theorems | `MacroExpansion`, `SeqLemmas` |
| `Includes` | the chain of open files, each with its groups, and every directive | |
| `IncludesProofs` | theorems | `Includes`, `SeqLemmas` |
| `Lexer` | the lexer, over characters | |
| `Parser` | the parse functions as code for a machine with a call stack (`parse.c`, precedences of `ast.h`) | |
| `ScopeSpec` | promise: a stack of scopes with overloadable names | |
| `Env` | scopes, symbols and free list of `env.c` | instance of `ScopeSpec` |
| `EnvProofs` | theorems | `Env`, `SeqLemmas` |
| `Checker` | the checker's walk over declarations and statements | composed with `ScopeSpec` |
| `CheckerProofs` | theorems | `Checker`, `SeqLemmas` |
| `Coercion` | types and the ranks of implicit conversions (`type.c`) | |
| `Candidates` | what makes an overload viable, and better than another (`check.c:659-723`) | ranks are a constant |
| `Overloads` | the two loops that choose a function among its overloads (`check.c:659-775`) | `Candidates` |
| `FrontEndProofs` | theorems | `Overloads`, instance of `Parser`, `SeqLemmas` |
| `Expressions` | the types and conversions of every kind of expression (`check.c:193-1372`) | `Coercion`, `Candidates` |
| `TypedTrees` | what a typed tree means, whoever typed it | `Expressions` |
| `Interning` | promise: one pointer for each description of a type | |
| `TypeTable` | the hash set of types and the declaration of structures | instance of `Interning` |
| `TypeTableProofs` | theorems | `TypeTable`, `SeqLemmas` |
| `SeqLemmas` | lemmas: a sequence without its last element, the largest and smallest of a set of numbers, sets closed under a step, iterated functions, joined sequences | |
| `MC…` | one per run: instances for TLC, and the references that properties compare with | |

`Env` is shown to implement `ScopeSpec`, and `Checker` uses the operations of `ScopeSpec`:
what is checked of the checker holds with the lists of `env.c` below it. `Conditionals`
takes the value of a condition as an input; `MCConditionals` computes the inputs from lines
of tokens with `CondValue`. `Expressions` resolves a call to the candidate that dominates
all others: that the loops of the code find that one is `DominatingIsChosen`, a theorem
about `Overloads`, over the same `Candidates`.

### Conditionals and CondValue

One action is one line of a file. `isActive`, `conds` and `inactiveDepth` are
`context.is_active`, `cond_stack.conds` and `cond_stack.inactive_cond_depth`. `EnterIf` is
`enter_if`, `EnterElif` is `enter_elif` and `UpdateLastCond` its assignments, `BranchLine`
adds `error_on_empty_cond_stack`; `Endif` is `parse_endif`; `EndOfFile` is what
`pop_context` reports. A condition is its value with macros expanded (`value`), its value
when they are not, as in skipped text (`raw`), and whether its last token came out of a
macro (`endsInMacro`). In that last case the exhausted buffer is on top of the file's
context, and the handler writes to the buffer.

`CondValue` has one function for each function from `parse_primary_cond` to `parse_cond`:
it takes the tokens left on the line and returns the value, the tokens left and the errors.
Operands that need no value are parsed with `shouldEval` false, as in the code.

### MacroExpansion

One action is one iteration of a loop of `preprocessor_advance`, `parse_macro_args`,
`expand_macro_with_args` or `expand_macro_arg`; the C calls in progress are `frames`.
`contexts` is the context stack with the tokens still unread, `disabled` the
`is_disabled` flags. `Source` and `AfterRead` are `update_or_peek_context`: a read pops
exhausted contexts and enables their macros, a peek looks past them. Macro names are
numbers, the `#` and the name of a directive are one token, the body that `#define`
gives is a constant, newlines are left out. Skipped text is the business of
`Conditionals` and `Includes`.

### Includes

One action reads one token. `chain` are the source-file contexts, innermost last, each
with its window `ahead`, its `displayed_line`, its flag `isActive`, its groups `conds` and
its counter `skipped`; `Source` and `AfterRead` are `update_or_peek_context` and
`read_token`, as in `MacroExpansion`. `mode` is the place in `preprocessor_advance` or in a
directive's handler at which the next token is read, `pending` what the directive does once
`eat_extra_tokens` returns. Handlers write to the file that is innermost when they do, and
that need not be the one their directive began in. `once` are the entries of the cache with
`has_pragma_once`: a file is known by its canonical name, and `FileAt` may give one file
under several names. `defined` are the names of macros, for `#ifdef`; the text does not use
them. `#elifdef` as the last token of an included file reads a name of the includer's text
and then the record of a freed file (`preprocessor.c:888`): `ElifName` takes either value for
it.

### Lexer

One action is one turn of the loop of `lexer_advance`: a space, a joined line, a comment
skipped, or a token returned. `pos`, `row`, `col`, `onNewLine` and `hasSpaceBefore` are the
lexer's fields. Operators are read one character at a time through `Extensions`, numbers with
the tests of the code in their order. The value of a literal is left out.

### Parser

Each parse function is a definition of its name: a sequence of items, in the order of the C
statements (`Eat` is `eat_token`, `Expect` `expect_token`, `Accept` an `if (accept_token)`,
`Switch` a switch on `ahead[0]`, `ahead[1]` or `ahead[2]`, `Many` a `parse_many`, `Node` and
`NodeFrom` an `alloc_ast` that begins at the call or at the first operand). `stack` is the C
stack: each call has the items left and the nodes it holds. One action runs one kind of item,
so the functions are data and their interpreter is as small as the helpers of `parse.c:35-135`;
a loop that goes on with what it has built (`parse_suffix_expr`) calls itself again. A token
is the class the parser distinguishes, and a location is the indices of its tokens: how
`alloc_ast` joins locations of different files is left out.

### Env and ScopeSpec

`symbols`, `allocated` and `freeSymbols` are the heap, its cells in use and the
`free_symbols` list; `scopes` are all scopes ever pushed and `depth` the current one:
`PopScope` clears a scope and keeps it. `clear_scope` and `env_destroy` are loops, one
action per symbol. A cell taken from the free list keeps its link (`AllocLink`).

### Checker

`calls` is the recursion: one record per `check_*` call that has a scope, with the phase
it is in. `ast` are the nodes met so far, with the parent they are nested in and the type
they have been given. The program is chosen step by step: since an `if` statement has no
scope of its own, any sequence of statements may be the body of any construct. `failed`
says that an error about names, scopes or jumps has been logged: most promises end
there. `bound` is what the last name, type, call, return or break was bound to.

### Expressions and TypedTrees

One action checks one piece of a program: a statement that is an expression, a condition, a
`return`, a variable with its size and initialiser, a parameter. `CheckExpr` is `check_expr`,
with one operator for each `check_*_expr`: it takes a tree and the type expected and returns
the tree as the checker leaves it (`insert_cast` puts a cast in the place of a node), the type
that the C function returns, and whether an error is logged. A piece is checked twice: the
trees of the built-in declarations are, once for every file (`check.c:1306`, `main.c`).
Names are bound by a table. `TypedTrees` states the rules of the language on typed trees,
with equal types where the source may have convertible ones.

### Overloads, Candidates and Coercion

One action is one iteration of a loop: `Filter` that of `remove_non_viable_candidates`,
which moves viable candidates to the front of the array it reads, `Scan` that of the first
pass of `find_best_candidate` and `Confirm` that of the second. `CoercionRank` is a
constant in `Candidates`, so that what is proved needs no more of it than the order of
ranks; `Coercion` has the ranks of `type.c`, `MCOverloads` and `Expressions` put them in.

### TypeTable and Interning

One action is one call of the checker: a `Make...` action for each constructor of a type, and
`CreateStructType`, `SetField` and `FinishStructType` for the declaration of a structure. `types` are the types in the memory pool, and
a pointer is an index; `table` is the hash set with the hash each type was put in with.
A request may point to an array of its caller, which `insert_type` copies. The hash function is
a constant. `Interning` keeps the pairs of descriptions and pointers and nothing else.

## What TLC checks

| Run | Instance | Shows |
|---|---|---|
| `conditionals` | lines without macros, 5 groups deep; 8-bit conditions: every operator on small operands and names, within each other, with `?:` | `ImplementsCondSpec`; `OuterBranchesSelected`: `#endif` may set `is_active` to true because all outer groups are in their selected branch; `SkippedGroupsAreOpaque`; `ConditionsHaveTheirValue`: the evaluator gives the value in C and the division by zero of the expression's tree, unless `==` or `!=` has an unparenthesised comparison on its right |
| `conditionals_macros` | lines that end in a macro, 2 deep | **violation** of `BranchesFollowConditions` (finding 1) |
| `macro_expansion` | 8 tables of two macros (function-like, variadic, with `#` and `##`, mutually recursive, callbacks, undefined, with an open parenthesis), all files of up to 5 names and punctuation tokens and of up to 4 names, parentheses and directives | `NoSelfExpansion`, `ArgumentsMatch`, `DisabledOnStack`, `EditsOnlyUnusedMacros`, `MatchedArgumentsEnd`: while the parentheses of the macros match, no call takes the marker that ends the argument it stands in; `Termination`: expansion ends wherever none does; with all tables of three object-like macros with bodies of up to two names also `ExpandsAsDefined`: the output so far and the expansion to come are always the recursively defined expansion of the file |
| `includes` | two units over a main file and two headers: every mix of up to two includes, guards, cycles and an alias; main files with all forms of directives; groups in groups around and inside a header; headers that end within a directive | `GuardedOpenOnce`; `IncludersAreActive`: no file is opened from skipped text, and none of its includers is skipped while it is open; `ReadsTheText`: the tokens returned are the text of the selected branches with each header in the place of its `#include`, whatever unit came before; `EveryUnitEnds` |
| `includes_lines` | the same | **violation** of `ShownOnTheirLine` (finding 2) |
| `lexer` | every text of up to 3 to 6 characters out of each of eight small alphabets (numbers, comments, strings, operators, words) | `LongestLexeme`: against a lexical grammar; `EveryCharacterOnce`: with lines, columns and the flags that the preprocessor decides on |
| `parser` | all initialisers of up to 4 tokens out of 7, chains of up to 3 operators, six programs with every construct and those with one token missing, doubled or replaced | `AcceptsTheLanguage`: no error in exactly the sentences of a grammar that says nothing of precedence; `BindsTight`: the trees follow the table of `ast.h`; `NodesNest`; `EatenTokensMatch`; `EveryParseEnds` |
| `environment` | 2 scopes, 2 names, 2 declarations, 3 symbols | `ImplementsScopeSpec`, `NoSharedSymbols`; `ClearingEnds`, for scopes that are popped and when all are destroyed |
| `checker` | 4 nodes, an ordinary name and an operator's, two function types and one of shaders | `LexicalScope`, `VisibleOverloadsDiffer`, `JumpsBind`, `ScopesMatchCalls`, `EveryCallHasItsScope` |
| `expressions` | every operator on every pair of 18 operands, calls, constructors, casts, accesses, lists and `?:` within each other, in every place that expects a type, checked twice | `AcceptedIsTyped`: what is accepted is a tree by the rules of `TypedTrees`, with a cast at every conversion but those of operands of overloaded operators; `RejectedIsWrong`: what is rejected is none; `RecheckIsStable` |
| `overloads` | every choice, in every order, among up to three of eleven functions, for one or two arguments | `FilteredInPlace`; `ChoosesDominating`: the candidate that dominates all others, or none; `ExactMatchWins` |
| `types` | 4 types, one parameter, element or field each, and a hash that collides | `RegisteredAreFound`, also after the fields of a structure are set; `AnswersHold`; `EqualTypesAreOne` at every depth; `ImplementsInterning` |

### Bounds, and why they are enough

- *Conditionals*: the handlers look at the innermost condition, the flag and whether the
  counter is zero. Five groups allow selected, finished and skipped groups inside each
  other with two counted ones on top. Conditions have up to four operators: an operand that
  is not evaluated inside one that is, and the reverse. `IntBits` is 8, and no value reaches it but
  by shifts.
- *Macros*: two macros suffice for direct and mutual recursion and for arguments whose
  expansion calls the other macro; a call with one argument needs four tokens, so five
  allow a call followed or preceded by a name, two arguments, and calls left open. The eighth
  table has a macro `f (`, with which `f(g)` never ends; its files are too short for a macro to
  be expanded in itself, as it may be with such macros (see below).
  The tables of object-like macros have three because a chain through a third is the first in
  which a disabled macro is not the caller's own.
- *Includes*: two headers make every shape of cycle up to one through both, and three open
  files. Two units are enough for marks and macros of the first to meet the second. Cycles without a
  guard are left out (`IncludesEnd`): nothing in the code bounds them. Groups nest two deep in
  the main file with a header that guards itself with a macro, or leaves groups open and ends
  some that it did not begin.
- *Lexer*: the longest operator has three characters and the longest prefix of a number that can
  still fail has four; texts are longer by the characters that decide where a token ends.
- *Parser*: four tokens make every pair of prefix, suffix, brackets and operator; three operators
  have one that is between two others, tighter or looser than either. Each program is legal
  and has two or three constructs inside each other, so an edit meets each expectation of the
  parser once, at the start, in the middle and at the end of a list.
- *Environment*: an insertion looks at the first symbol of one chain and the head of
  the free list. Three symbols make a chain of three, or two chains and a freed one.
  Two scopes make shadowing and the reuse of a popped scope possible.
- *Checker*: four nodes allow a function in a loop in a function with a variable, an
  operator nested in a function, a structure used by a variable, and two overloads in
  different scopes. Types are symmetric (`TypeSymmetry`): no formula of the run names one.
- *Expressions*: the operands have one type of each class that the code distinguishes (scalars,
  triples, matrix, closure, structure, arrays of both kinds). A tree of two levels meets each function as caller and as
  callee, with an expected type and without.
- *Overloads*: the filter and both passes compare two candidates at a time; three candidates
  leave one that neither of the others beats, and a rival on either side of the winner. The eleven functions have up to two parameters, output parameters
  and an ellipsis.
- *Types*: four types are a structure, a type of it, and two types of that, so that a pointer
  which changed its meaning would be seen one level up; half of the hashes collide.

Bounds in guards are `MaxNesting` (Conditionals), `MaxScopes` and `Cells` (Env),
`MaxNodes` (Checker), `MaxTypes` and `MaxParts` (TypeTable); expansion needs none, as its
files and bodies are finite. Deadlock is checked everywhere but where the system really
stops: `environment` after `env_destroy`, `overloads` when the call is resolved, `includes`
after the last unit, `parser` when `parse` returns, `expressions` after the second check.
After the end of a file `MacroExpansion` and `Lexer` go on returning the end.

### Fairness

The program is sequential: as long as it runs, its next step is taken. `MacroExpansion`,
`Includes` and `Parser` have `WF_vars(Next)` and nothing else. In `Env` what the checker calls next is not the
environment's to promise, so there is fairness only for the steps inside
`clear_scope`, `env_pop_scope` and `env_destroy`, which are loops that run to their end.
`Conditionals`, `Checker`, `Overloads`, `Expressions`, `Lexer` and `TypeTable` state no
liveness: each step is one line, node, candidate, piece, lexeme or request of a finite input.

### Mutants

Each property is broken by a plausible slip in the code, written in the modules as an
operator that begins with `Slip:` in its comment: a flag that is not cleared, a
counter that is forgotten, a guard dropped, a link read after it is overwritten.

## What is proved

All theorems hold for every value of the constants that satisfies the named assumptions.

- `ConditionalsProofs`. `IInv` (types, `SkippingHasACause`, `CountedOnlyWhileSkipping`,
  `OuterBranchesSelected`) is inductive: that the flag is true needs to know why it
  was false, and that again which of the two records a group is in. `OuterBranches` and
  `SkippedOpaque` follow for all conditions, macros included. `Refinement`, that the
  handlers implement `CondSpec`, assumes `MacroFree`; without it the run
  `conditionals_macros` shows the step that has no counterpart.
- `MacroExpansionProofs`. `IInv` adds to the properties `CallsOK`, what each call in
  progress knows of its macro and position. A flag may be set and cleared by different
  calls in any order, so the invariant ties flags to the stack only (`DisabledOnStack`): a
  read enables exactly the macros of the contexts that it pops, and each macro has at
  most one. `EditsAreSafe` follows since a directive is only met with no call in
  progress and all buffers popped (`FilesBelowBuffers`).
  `NoMacroInItself` is about a flag that protects one expansion being cleared by the end of
  another. It assumes `[]ArgumentsEnd` and is false without: with `f(x)` defined as
  `x x ## other` and `g` as `f (`, the file `f(g) g)` expands `f` inside itself.
  `NestingInv` says where everything is while arguments are expanded inside arguments: every call
  but the innermost is expanding an argument (`CallsNest`), whose buffer is on the stack
  and the only text with a marker (`MarkersAreBases`), and the macro of a call has no expansion
  on the stack but inside its own argument (`CallsAreFresh`). So whenever a macro is pushed, none
  of its expansions is below. `MarkerAssumption`, that no macro and no file holds an end marker,
  is what `preprocessor.c:349` shows: no other line makes one.
  `BalancedArgumentsEnd` gives a condition on the macros under which `ArgumentsEnd` holds whatever
  the files hold, and `BalancedMacrosStayOutOfThemselves` what follows from it: in each macro's body
  the parentheses match and `#` is followed by a parameter (`BalancedMacros`; the second half is
  what `verify_macro` checks, `preprocessor.c:988-1013`), and `##` is never applied to a parenthesis
  (`PastesFit`: `concatenate_tokens` reports an error for one and drops it, after which `f(x)`
  defined as `x ( x ## )` leaves a call of `g` open in `h(f(g))`). Files need not be balanced. The
  invariant, `Balance`, gives each text on the stack a depth of parentheses: a text that is not an
  argument ends at the depth of the text below it, an argument at depth 0 (`Levels`); the arguments
  read so far, the expansion being built and the rest of the body are such paths too
  (`CallMatches`). A call that is open inside an argument is one parenthesis deeper than where it
  began, so the marker, which stands at depth 0, is not the next token.
- `IncludesProofs`. `GuardedFilesOpenOnce` needs more than "open guarded files are marked",
  as the innermost one is open before its guard has been read. `IInv` adds that while it is
  not marked, the next step is `Hash` and then `Pragma` (`InGuard`), for which it also has to
  say that the windows hold what the lexer read (`WindowOK`). `IncludersStayActive` is about
  handlers that end in another file than they began in, and write its flag: `Includers` says
  that every file but the innermost is active, `OpeningOK` that while an `#include` is
  read and until it takes effect its own file is, `BranchOK` that a file whose `#elifdef`
  is being read has the group for it, and `Idle` that no directive is waiting at any
  other place. Of the innermost file it says nothing: a directive at the end of the file before it
  may have turned it off. Nothing is assumed of names, directories and contents but their types.
- `TypeTableProofs`. `IInv` says that the table holds what was registered, in order and
  under the hash it has now (`TableInOrder`): a structure is hashed by its name, so that
  setting its fields moves nothing. Then a request finds any equal type
  (`TypesAreFound`), no description is registered twice (`NoneTwice`), earlier answers stand
  (`AnswersStand`), and the table implements `Interning` (`Refinement`). The hash function is
  any function at all. `EqualTypesHaveOnePointer` compares whole types, where `is_type_equal`
  compares one level: a type is older than those made of it (`ComponentsAreOlder`, also while
  the fields of a structure are set), so spelling a type out is a recursion that ends, and the
  oldest type with a twin would have a component with an older one.
- `EnvProofs`. `IInv` says that table entries, links, the free list's head and the
  cursor of `clear_scope` are distinct pointers to allocated symbols; `NoSharedSymbols`
  is part of it. `ListsEnd` adds that each table entry is the head of a list without repetition
  (`Lists`), whose symbols all allow overloads or none does, which is why `env_insert_symbol` may
  look at the first one only. `EnvironmentImplementsScopes` then maps the chains to the
  declarations of `ScopeSpec`: insertion, in front or behind the first symbol, search and popping
  are steps of it, and the loops of `clear_scope` and `env_destroy` stutter. `EnvAssumption`
  has `Cells` finite, as memory is, so that following links is bounded by their number.
- `CheckerProofs`. `IInv` relates the stack of scopes to that of calls; outer calls are
  in their body and have a type. `ScopesSuffice` (the assertion of `env_pop_scope`)
  holds with and without errors, `ScopesAreThoseOfCalls` and `JumpsAreBound` until an
  error is reported. `DeclInv` relates the scopes to the program text: calls nest as the nodes
  do (`Nesting`), and a scope declares the named nodes whose parent is the node of its call
  (`Declared`, `NamesMatch`; the file's are in the first scope, `FileScope`). A lookup that goes
  from the innermost scope outwards then finds what the nesting of the text says
  (`NamesAreLexical`). `OverloadsDiffer` holds after errors too: a function is declared only if no
  visible function of its name has its type, and popping scopes shows no two that were not
  visible together. `CheckerAssumption` says that the name given to what has none is no name.
- `FrontEndProofs`, on two components that share nothing but the module.
  *Parser*: `LookAheadSuffices` is `EatenTokensMatch` for every sequence of tokens, right or
  wrong. A function that begins with `eat_token` takes a token for granted (`Opening` lists them);
  `Safe` says of an item of code that with a given token ahead it takes none but that for granted.
  The code of the parse functions is data, but no induction over it is needed, as no function has
  a branch more than two branches deep: `Runs0`, `Runs1` and `Runs2` are code of that depth whose
  first item is safe with the token ahead and whose others are with any. `BodyRuns` shows this of
  each of the functions, called with a token on which it may be. The invariant, `ParserInv`, has the
  rest of the innermost call's code safe with `ahead[0]` and that of the others with anything.
  *Overload resolution*: that one function is better than another is asymmetric whatever the
  ranks are, so at most one dominates all others; the first pass then ends with it if there
  is one, and the second confirms exactly that (`DominatingIsChosen`). The ranks need not be
  transitive. `ExactMatchIsChosen` follows if an exact match ranks above every conversion and above
  the ellipsis (`ExactAssumption`): `COERCION_EXACT` is the last of `enum coercion_rank`
  (`type.h:90-123`), and `type_coercion_rank` returns it for different types only if the value
  is an initializer in braces, whose type no parameter has (`type.c:147-190`). `FiltersInPlace` says of the filter's loop that the front of the array holds
  the viable candidates read so far and the rest is untouched.

Only model-checked:

- liveness (`Termination`, `ClearingEnds`, `EveryUnitEnds`,
  `EveryParseEnds`), which is out of the prover's reach;
- what is compared with a reference defined by recursion over data, for which induction
  would be needed: `ExpandsAsDefined`, `ReadsTheText`, `ConditionsHaveTheirValue`,
  `AcceptedIsTyped`, `RejectedIsWrong`, `RecheckIsStable`, `AcceptsTheLanguage`, `LongestLexeme`
  and `EveryCharacterOnce`;
- `ArgumentsEnd` for macros whose parentheses do not match, and where `##` drops a parenthesis:
  it then depends on the macros and files;
- `NodesNest` and `BindsTight` of `Parser`: they are about trees in the arena, whose tokens are
  counted and compared over spans of any length.

## Findings

1. `#if MACRO` with `MACRO` defined as 0 emits its branch: `enter_if` writes to the
   exhausted buffer of the macro (`preprocessor.c:868`).
2. The first token of each line is shown with the number of the line before: it enters the
   window of two tokens before the newline in front of it is counted (`preprocessor.c:203`).

Noticed while modelling, and not the subject of a run:

- *Lexer*: `1e5` is an integer followed by nothing (`lexer.c:132`); `.5` is the integer 5
  (`189-191`); `]]` is one token (`207`), so `a[b[0]]` is a syntax error although the
  printer writes it; a string that ends in an escaped backslash is unterminated; `strtoumax` on `0x`
  reads the text that follows.
- *Macros*: a function-like macro without parameters can never be called
  (`preprocessor.c:435-467`); `#define F (x)` is read as function-like (`1023`); an argument
  whose expansion leaves a call open is not expanded from its own context, as the comment at `344` says:
  the call takes the end marker of the argument's buffer and reads on behind the outer call
  (`433`), and the loop at `353` waits for that marker: with `f(x)` defined as `x` and `g` as
  `f (`, the expansion of `f(g)` appends the end of the file until memory ends; `#` applied to an absent `__VA_ARGS__` reads past the arguments;
  `/ ## /` gives an end-of-file token; `#define` without a name defines the newline; a `)`
  missing from a parameter list is reported and the macro defined.
- *Conditions*: a macro whose body begins with a prefix operator is rejected in `#if` (`734`);
  `1 == 2 < 2` is 1 and not 0 as in C, since `==` and `!=` are on the level of `<` (`ast.h:46`); literals
  are truncated to `int` (`706`); the quotient of the least integer and -1 traps (`805`); an
  `#if` without a complete condition reads on into the next line.
- *Directives*: `#elifdef` at the end of an included file without a newline uses a freed record
  (`888`), `#line` there writes to a freed context (`1134`), an `#ifdef` without
  a name there opens its group in the includer and turns off the text after the `#include` (`871`),
  and any directive there eats a line of the includer (`585`); an `#elif` or `#else` without an `#if`
  leaves the rest of its line in the text (`917-925`); an `#include` without a name (`1250`) and a lone `#` in
  skipped text (`1286`) eat the next line; a file that cannot be read stays in the cache as a
  null pointer (`file_cache.c:123`).
- *Parser*: a function with metadata is rejected with syntax errors, as
  `parse_var_or_func_decl` takes a name for a function's only in front of a parenthesis
  (`parse.c:841`), so the warning at `581` is never given; `!!x` is an error, as a prefix
  takes no other (`385`).
- *Checker*: `struct S { S x; };` fails the assertion at `check.c:275`; a `return` after a
  nested operator with a wrong signature fails the one at `498`; a `break` in a function
  nested in a loop is bound to the outer loop (`env.c:110`); a shader may share its name with
  overloaded functions (`check.c:406`); a call looks only at its first candidate's kind
  (`755`); `true * color` and `true + 1.5` are of type `bool`, `1.5 + true` is not (`886`);
  `1(2)` has the error type and nothing is reported (`864`); `i += 1.5` puts a cast in the
  place of its target (`885-908`), and fails when the tree is checked again; a comma whose
  last operand has no type is dereferenced (`849`); all operands of a comma are converted, not only
  the last, unless it is a statement with another after it, when none is (`1088`); the operands of
  an overloaded operator are not cast to the types of its parameters (`983-990`), as the
  arguments of a call are.
- *Built-ins and driver*: the tree of the built-in declarations is checked again for each
  file, with casts allocated in the pool of the file before: nothing dangles only because a
  second check adds no cast to it (`RecheckIsStable`); the macro `NOSL_VERSION_MAJOR` is
  given the minor version (`main.c`).

## Limits of the models

- `MacroExpansion` leaves out `##` with an empty left operand and `#` applied to an absent
  `__VA_ARGS__` (`preprocessor.c:507-515`), where the code works on a missing token, and
  the parsing of a `#define` line. `NoSelfExpansion` is proved where arguments leave
  no call open (`ArgumentsEnd`), which is proved for macros whose parentheses match; `ArgumentsMatch`
  is proved for all tables and files. The ends of the file that an endless loop collects are kept
  as one (`Collected`).
- `Conditionals` reads a `#elif` condition as the code does: evaluated even if an earlier
  branch was selected, and without expansion in skipped text.
- `CondValue` has integers of `IntBits` bits that wrap, where C leaves overflow undefined, and
  object-like macros only. Its reference takes the arithmetic of single operators from it:
  what is compared is which operands are evaluated and combined.
- `Lexer` has texts that end in a null character and counts a tab as a space.
- `Includes` has active text without macros, conditions on names only, files that can be
  read, and one word for the name in an `#include`; displayed file names are left out. The
  files of the run end in a newline where `ReadsTheText` is compared, and have no `#include`
  without a name and no lone `#` in skipped text: there the text is not the one expected
  (see `hazards`).
- `Expressions` has one structure, names bound by a table, and one or two operators of each class for
  which the code has one case. Calls of a value, commas whose last operand has no type, and
  writes through casts are outside the rules of `TypedTrees`, which says so at each.
- `Overloads` takes functions only, and `Coercion` the types of its runs.
- `Checker` leaves out expressions but for the names and calls in them, initializers,
  constants and metadata. Errors about types do not change scopes, so `failed` is about
  names, scopes and jumps only. After a failed assertion the model goes on as a build
  without assertions does.

Not modelled: the printer of the syntax tree (`ast.c`) and of types, which only format; the
driver (`main.c`), whose one decision that matters, to check the built-in tree once per file, is in
`Expressions`; the text of `builtins.osl`, which is input; the Overture library, a submodule
that is not in the repository, of which the models take what its callers see.

## Plan

Done, in this order: `Conditionals`, `MacroExpansion`, `Env`, `Checker`, `Overloads` with
`Coercion`, `Includes`, `Parser`; then `CondValue`, `Lexer`, `TypeTable` with `Interning`,
`Expressions` with `TypedTrees` and `Candidates`, and the conditionals of each file in
`Includes`. What is left:

1. The parameters and body of a `#define` line, in place of the constant bodies of `MacroExpansion`.
2. `CondValue` in `Includes`, for `#if` besides `#ifdef`, and so finding 1 across files.
3. The names of `Expressions` bound by `ScopeSpec`, as in `Checker`.
4. The printer, against the parser: what is printed reads back as the same tree.
5. Proofs: in `Parser`, that nodes are built of earlier nodes; a condition for `ArgumentsEnd`
   that also admits `##` applied to a parenthesis.
