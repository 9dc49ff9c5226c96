--------------------------- MODULE MacroExpansion ---------------------------
(***************************************************************************)
(* The macro expander of preprocessor.c: the stack of contexts that tokens *)
(* are read from, the is_disabled flags that stop recursive expansion, and *)
(* the nested calls of expand_token, parse_macro_args and                  *)
(* expand_macro_with_args, kept here as an explicit stack of frames.       *)
(* Every step is one iteration of one of their loops.                      *)
(*                                                                         *)
(* Contexts are popped lazily: an exhausted one stays on the stack, and    *)
(* keeps its macro disabled, until the next read goes past it; a peek goes *)
(* past it without popping.  The text is active throughout (Conditionals   *)
(* models skipped text) and newlines, which no step looks at, are left     *)
(* out.  The # and the name of a directive are one token, the body that    *)
(* a #define gives is Redefinition's, and a macro name is a number.        *)
(***************************************************************************)
EXTENDS Integers, Sequences

CONSTANTS
  MacroNames,      \* the names that may be defined, numbers above 0
  Programs,        \* macro tables to start with, each with contents of the main file
  IncludedFile,    \* contents of the file that #include reads
  Redefinition     \* what a #define in a file defines its macro as

Undefined == [isDefined |-> FALSE]

Tag(t)   == [tag |-> t, val |-> 0]
Ident(n) == [tag |-> "ident", val |-> n]
Param(i) == [tag |-> "param", val |-> i]
EOF      == Tag("eof")
STOP     == Tag("stop")              \* TOKEN_STOP_EXPAND

Tags  == {"ident", "param", "concat", "hash", "lparen", "rparen", "comma", "other",
          "string", "define", "undef", "include", "eof", "stop"}
Token == [tag : Tags, val : Nat]

Macro ==
  [isDefined : {TRUE}, hasParams : BOOLEAN, isVariadic : BOOLEAN, isCallback : BOOLEAN,
   paramCount : Nat, tokens : Seq(Token)]

NoMacro == 0

ASSUME NamesAssumption == MacroNames \subseteq Nat \ {NoMacro}
ASSUME ProgramsAssumption ==
  /\ Programs \subseteq [MacroNames -> Macro \cup {Undefined}] \X Seq(Token)
  /\ IncludedFile \in Seq(Token)

\* Every #define and #undef of a file names a macro.
ASSUME DirectivesAssumption ==
  \A f \in {p[2] : p \in Programs} \cup {IncludedFile} : \A i \in DOMAIN f :
    f[i].tag \in {"define", "undef"} =>
      i < Len(f) /\ f[i + 1].tag = "ident" /\ f[i + 1].val \in MacroNames
ASSUME RedefinitionAssumption == Redefinition \in [MacroNames -> Macro]

\* No text holds the end marker of expand_macro_arg: the lexer makes none.
Clean(toks) == \A i \in DOMAIN toks : toks[i] # STOP
ASSUME MarkerAssumption ==
  /\ \A p \in Programs :
       Clean(p[2]) /\ \A m \in MacroNames : p[1][m].isDefined => Clean(p[1][m].tokens)
  /\ Clean(IncludedFile)
  /\ \A m \in MacroNames : Clean(Redefinition[m].tokens)

VARIABLES
  macros,      \* the macro table
  disabled,    \* the macros whose is_disabled flag is set
  contexts,    \* the context stack, top last; toks are the tokens still unread
  frames,      \* the macro calls being expanded, innermost last
  output,      \* the tokens returned by preprocessor_advance
  finished     \* has preprocessor_advance returned the end of the file?

vars == <<macros, disabled, contexts, frames, output, finished>>

Context ==
  [tag : {"file"}, macro : {NoMacro}, toks : Seq(Token)]
    \cup [tag : {"buffer"}, macro : MacroNames \cup {NoMacro}, toks : Seq(Token)]

Frame ==
  [macro      : MacroNames,
   phase      : {"args", "subst", "argexp"},
   args       : Seq(Seq(Token)),      \* macro_arg.unexpanded_tokens
   newArg     : BOOLEAN,              \* parse_macro_args: last_arg is NULL
   depth      : Nat,                  \* parse_macro_args: paren_depth
   expanded   : Seq(Seq(Token)),      \* macro_arg.expanded_tokens
   isExpanded : SUBSET Nat,           \* macro_arg.is_expanded
   pos        : Nat \ {0},            \* expand_macro_with_args: i, from 1
   concat     : BOOLEAN,              \* should_concat_left
   result     : Seq(Token),           \* the tokens of the context being built
   base       : Nat]                  \* stack index of the argument's buffer

TypeOK ==
  /\ macros \in [MacroNames -> Macro \cup {Undefined}]
  /\ disabled \subseteq MacroNames
  /\ contexts \in Seq(Context) /\ contexts # <<>>
  /\ frames \in Seq(Frame)
  /\ output \in Seq(Token)
  /\ finished \in BOOLEAN

-----------------------------------------------------------------------------
(* Reading: read_or_peek_token and update_or_peek_context. *)

HasUnread(cs, i) == i = 1 \/ cs[i].toks # <<>>

\* The context that the next token comes from: the topmost with tokens left.
Source(cs) ==
  CHOOSE i \in DOMAIN cs :
    /\ HasUnread(cs, i)
    /\ \A j \in DOMAIN cs : j > i => ~HasUnread(cs, j)

Peek(cs) == LET c == cs[Source(cs)] IN IF c.toks = <<>> THEN EOF ELSE Head(c.toks)

\* The stack after a read: exhausted contexts popped, one token consumed.
AfterRead(cs) ==
  LET k == Source(cs)
  IN [i \in 1 .. k |->
        IF i = k /\ cs[k].toks # <<>> THEN [cs[k] EXCEPT !.toks = Tail(@)] ELSE cs[i]]

\* Slip: a read pops exhausted contexts without enabling their macros again.
EnabledNever(dis, cs) == dis

\* pop_context enables the macro of every context that the read pops.
EnabledByRead(dis, cs) == dis \ {cs[i].macro : i \in Source(cs) + 1 .. Len(cs)}

Buffer(m, toks) == [tag |-> "buffer", macro |-> m, toks |-> toks]

File(toks)      == [tag |-> "file", macro |-> NoMacro, toks |-> toks]

MacrosOf(cs) == {cs[i].macro : i \in DOMAIN cs} \ {NoMacro}
OnStack      == MacrosOf(contexts)

-----------------------------------------------------------------------------
(* expand_token, in the loop of preprocessor_advance or of expand_macro_arg. *)

Top == frames[Len(frames)]

WithTop(f) == [frames EXCEPT ![Len(frames)] = f]
PopFrame   == SubSeq(frames, 1, Len(frames) - 1)

NewFrame(m, phase) ==
  [macro |-> m, phase |-> phase, args |-> <<>>, newArg |-> TRUE, depth |-> 0,
   expanded |-> <<>>, isExpanded |-> {}, pos |-> 1, concat |-> FALSE,
   result |-> <<>>, base |-> 0]

ExpandingTokens == frames # <<>> => Top.phase = "argexp"

\* Slip: disabled macros are expanded too.
ExpandableAlways(t, cs, dis) ==
  /\ t.tag = "ident"
  /\ t.val \in MacroNames
  /\ macros[t.val].isDefined
  /\ macros[t.val].hasParams => Peek(cs).tag = "lparen"

\* Slip: the name of a macro with parameters is a call without a parenthesis.
ExpandableUncalled(t, cs, dis) ==
  /\ t.tag = "ident"
  /\ t.val \in MacroNames
  /\ macros[t.val].isDefined
  /\ t.val \notin dis

\* Is t, just read, replaced?  cs and dis are the state after the read.
Expandable(t, cs, dis) ==
  /\ t.tag = "ident"
  /\ t.val \in MacroNames
  /\ macros[t.val].isDefined
  /\ t.val \notin dis
  /\ macros[t.val].hasParams => Peek(cs).tag = "lparen"

\* A predefined macro such as __LINE__ pushes its one token; it is never
\* disabled.
ExpandCallback ==
  LET t == Peek(contexts)
      cs == AfterRead(contexts)
      dis == EnabledByRead(disabled, contexts)
  IN /\ ExpandingTokens
     /\ Expandable(t, cs, dis)
     /\ macros[t.val].isCallback
     /\ contexts' = Append(cs, Buffer(NoMacro, macros[t.val].tokens))
     /\ disabled' = dis
     /\ UNCHANGED <<macros, frames, output, finished>>

\* A macro without parameters: its body is substituted next.
ExpandObjectLike ==
  LET t == Peek(contexts)
      cs == AfterRead(contexts)
      dis == EnabledByRead(disabled, contexts)
  IN /\ ExpandingTokens
     /\ Expandable(t, cs, dis)
     /\ ~macros[t.val].isCallback
     /\ ~macros[t.val].hasParams
     /\ contexts' = cs
     /\ disabled' = dis
     /\ frames' = Append(frames, NewFrame(t.val, "subst"))
     /\ UNCHANGED <<macros, output, finished>>

\* A macro with parameters: the parenthesis that was peeked is eaten.
ExpandFunctionLike ==
  LET t == Peek(contexts)
      cs == AfterRead(contexts)
      dis == EnabledByRead(disabled, contexts)
  IN /\ ExpandingTokens
     /\ Expandable(t, cs, dis)
     /\ ~macros[t.val].isCallback
     /\ macros[t.val].hasParams
     /\ contexts' = AfterRead(cs)
     /\ disabled' = EnabledByRead(dis, cs)
     /\ frames' = Append(frames, NewFrame(t.val, "args"))
     /\ UNCHANGED <<macros, output, finished>>

\* The token is returned unexpanded.
ReturnsToken(t) ==
  LET cs == AfterRead(contexts)
      dis == EnabledByRead(disabled, contexts)
  IN /\ t = Peek(contexts)
     /\ ~Expandable(t, cs, dis)
     /\ contexts' = cs
     /\ disabled' = dis

\* The tokens of an argument's expansion and the next one.  At the end of the file
\* every read gives the end again: an expand_macro_arg whose marker is gone collects
\* ends forever, which are kept as one.
Collected(toks, t) ==
  IF t = EOF /\ toks # <<>> /\ toks[Len(toks)] = EOF THEN toks ELSE Append(toks, t)

\* expand_macro_arg receives a token of the argument, or the end marker.
ArgumentToken ==
  LET t == Peek(contexts)
  IN /\ frames # <<>>
     /\ Top.phase = "argexp"
     /\ ReturnsToken(t)
     /\ LET p == macros[Top.macro].tokens[Top.pos].val
        IN frames' = WithTop(
             IF t = STOP
             THEN [Top EXCEPT !.phase = "subst", !.isExpanded = @ \cup {p}]
             ELSE [Top EXCEPT !.expanded[p] = Collected(@, t)])
     /\ UNCHANGED <<macros, output, finished>>

IsDirective(t) == t.tag \in {"define", "undef", "include"}

\* preprocessor_advance returns a token, or the end of the main file.
ReturnToken ==
  LET t == Peek(contexts)
  IN /\ frames = <<>>
     /\ ~(IsDirective(t) /\ contexts[Source(contexts)].tag = "file")
     /\ ReturnsToken(t)
     /\ output' = IF t = EOF THEN output ELSE Append(output, t)
     /\ finished' = (t = EOF)
     /\ UNCHANGED <<macros, frames>>

-----------------------------------------------------------------------------
(* Directives: tokens that preprocessor_advance reads from a file. *)

\* Slip: a directive is recognised wherever its token comes from.
DirectiveAnywhere(tag) ==
  /\ frames = <<>>
  /\ Peek(contexts).tag = tag

Directive(tag) ==
  /\ frames = <<>>
  /\ Peek(contexts).tag = tag
  /\ contexts[Source(contexts)].tag = "file"

\* The name after #define or #undef.  Both tokens are read.
Named(m) == m = Peek(AfterRead(contexts)).val

\* #define, with insert_macro: the new definition is written over an existing
\* one, flag included.
Define ==
  /\ Directive("define")
  /\ \E m \in MacroNames :
       /\ Named(m)
       /\ macros' = [macros EXCEPT ![m] = Redefinition[m]]
       /\ disabled' = EnabledByRead(disabled, contexts) \ {m}
  /\ contexts' = AfterRead(AfterRead(contexts))
  /\ UNCHANGED <<frames, output, finished>>

\* #undef frees the macro.
Undef ==
  /\ Directive("undef")
  /\ \E m \in MacroNames :
       /\ Named(m)
       /\ macros' = [macros EXCEPT ![m] = Undefined]
       /\ disabled' = EnabledByRead(disabled, contexts) \ {m}
  /\ contexts' = AfterRead(AfterRead(contexts))
  /\ UNCHANGED <<frames, output, finished>>

Include ==
  /\ Directive("include")
  /\ contexts' = Append(AfterRead(contexts), File(IncludedFile))
  /\ disabled' = EnabledByRead(disabled, contexts)
  /\ UNCHANGED <<macros, frames, output, finished>>

-----------------------------------------------------------------------------
(* parse_macro_args: one token of the argument list. *)

ReadingArgs == frames # <<>> /\ Top.phase = "args"

\* The arguments once the token just read has made sure there is one.
Opened == IF Top.newArg THEN Append(Top.args, <<>>) ELSE Top.args

Def == macros[Top.macro]

\* Slip: too many arguments go unnoticed.
EnoughArgs(n) == n >= Def.paramCount

RightArgCount(n) == IF Def.isVariadic THEN n >= Def.paramCount ELSE n = Def.paramCount

Separates(t) == t.tag = "comma" /\ Top.depth = 0 /\ Len(Opened) <= Def.paramCount

ReadArg(t) ==
  /\ ReadingArgs
  /\ t = Peek(contexts)
  /\ contexts' = AfterRead(contexts)
  /\ disabled' = EnabledByRead(disabled, contexts)
  /\ UNCHANGED <<macros, output, finished>>

\* Slip: the end of the input does not end the list.
EndOfArgsRetried ==
  \E t \in {Peek(contexts)} :
    /\ ReadArg(t)
    /\ t = EOF \/ (t.tag = "rparen" /\ Top.depth = 0)
    /\ frames' =
         IF t = EOF THEN frames
         ELSE IF RightArgCount(Len(Opened))
         THEN WithTop([Top EXCEPT !.phase = "subst", !.args = Opened, !.newArg = FALSE,
                                  !.expanded = [i \in 1 .. Len(Opened) |-> <<>>]])
         ELSE PopFrame

\* The list ends, or the input does.  An error abandons the call.
EndOfArgs ==
  \E t \in {Peek(contexts)} :
    /\ ReadArg(t)
    /\ t = EOF \/ (t.tag = "rparen" /\ Top.depth = 0)
    /\ frames' =
         IF t # EOF /\ RightArgCount(Len(Opened))
         THEN WithTop([Top EXCEPT !.phase = "subst", !.args = Opened, !.newArg = FALSE,
                                  !.expanded = [i \in 1 .. Len(Opened) |-> <<>>]])
         ELSE PopFrame

NextArg ==
  \E t \in {Peek(contexts)} :
    /\ ReadArg(t)
    /\ Separates(t)
    /\ frames' = WithTop([Top EXCEPT !.args = Opened, !.newArg = TRUE])

ArgToken ==
  \E t \in {Peek(contexts)} :
    /\ ReadArg(t)
    /\ t # EOF
    /\ ~(t.tag = "rparen" /\ Top.depth = 0)
    /\ ~Separates(t)
    /\ frames' = WithTop(
         [Top EXCEPT !.args   = [Opened EXCEPT ![Len(Opened)] = Append(@, t)],
                     !.newArg = FALSE,
                     !.depth  = CASE t.tag = "lparen" -> @ + 1
                                  [] t.tag = "rparen" -> @ - 1
                                  [] OTHER            -> @])

-----------------------------------------------------------------------------
(* expand_macro_with_args: one token of the macro's body. *)

Substituting == frames # <<>> /\ Top.phase = "subst"

BodyAt(i) == Def.tokens[i]
IsTag(i, tag) == i \in 1 .. Len(Def.tokens) /\ BodyAt(i).tag = tag

\* Pasting two names gives the name that their digits make together.  Of tokens
\* that do not make one token together, the lexer finds the left one first: it
\* stays, the right one is lost and an error is logged.
Paste(l, r) ==
  IF l.tag = "ident" /\ r.tag = "ident" THEN Ident(10 * l.val + r.val) ELSE l

\* The context under construction once toks are added to it.
Added(toks) ==
  IF Top.concat /\ toks # <<>> /\ Top.result # <<>>
  THEN SubSeq(Top.result, 1, Len(Top.result) - 1)
         \o <<Paste(Top.result[Len(Top.result)], Head(toks))>> \o Tail(toks)
  ELSE Top.result \o toks

Add(toks, consumed) ==
  /\ frames' = WithTop([Top EXCEPT !.result = Added(toks), !.concat = FALSE,
                                   !.pos = @ + consumed])
  /\ UNCHANGED <<macros, disabled, contexts, output, finished>>

\* A parameter next to ## is substituted as it was written.
IsPasted(i) == Top.concat \/ IsTag(i + 1, "concat")

SubstMissing ==           \* __VA_ARGS__ without an argument
  /\ Substituting
  /\ IsTag(Top.pos, "param")
  /\ BodyAt(Top.pos).val > Len(Top.args)
  /\ frames' = WithTop([Top EXCEPT !.pos = @ + 1])
  /\ UNCHANGED <<macros, disabled, contexts, output, finished>>

SubstParam ==
  /\ Substituting
  /\ IsTag(Top.pos, "param")
  /\ LET p == BodyAt(Top.pos).val
     IN /\ p \in 1 .. Len(Top.args)
        /\ \/ IsPasted(Top.pos) /\ Add(Top.args[p], 1)
           \/ ~IsPasted(Top.pos) /\ p \in Top.isExpanded /\ Add(Top.expanded[p], 1)

\* The buffer that expand_macro_arg pushes: the argument and an end marker.
Pushed(p) == Buffer(NoMacro, Append(Top.args[p], STOP))

ExpandArg ==
  /\ Substituting
  /\ IsTag(Top.pos, "param")
  /\ ~IsPasted(Top.pos)
  /\ LET p == BodyAt(Top.pos).val
     IN /\ p \in 1 .. Len(Top.args)
        /\ p \notin Top.isExpanded
        /\ contexts' = Append(contexts, Pushed(p))
        /\ frames' = WithTop([Top EXCEPT !.phase = "argexp", !.base = Len(contexts) + 1])
  /\ UNCHANGED <<macros, disabled, output, finished>>

SubstConcat ==
  /\ Substituting
  /\ IsTag(Top.pos, "concat")
  /\ frames' = WithTop([Top EXCEPT !.concat = TRUE, !.pos = @ + 1])
  /\ UNCHANGED <<macros, disabled, contexts, output, finished>>

SubstStringify ==         \* the parameter after # becomes one token
  /\ Substituting
  /\ IsTag(Top.pos, "hash")
  /\ Add(<<Tag("string")>>, 2)

SubstPlain ==
  /\ Substituting
  /\ Top.pos <= Len(Def.tokens)
  /\ BodyAt(Top.pos).tag \notin {"param", "concat", "hash"}
  /\ Add(<<BodyAt(Top.pos)>>, 1)

\* Slip: the expansion is pushed without disabling its macro.
PushExpansionEnabled ==
  /\ Substituting
  /\ Top.pos > Len(Def.tokens)
  /\ contexts' = Append(contexts, Buffer(Top.macro, Top.result))
  /\ frames' = PopFrame
  /\ UNCHANGED <<macros, disabled, output, finished>>

\* push_context: the expansion goes on the stack and its macro is disabled.
PushExpansion ==
  /\ Substituting
  /\ Top.pos > Len(Def.tokens)
  /\ contexts' = Append(contexts, Buffer(Top.macro, Top.result))
  /\ disabled' = disabled \cup {Top.macro}
  /\ frames' = PopFrame
  /\ UNCHANGED <<macros, output, finished>>

-----------------------------------------------------------------------------
Init ==
  /\ \E p \in Programs : macros = p[1] /\ contexts = <<File(p[2])>>
  /\ disabled = {}
  /\ frames = <<>>
  /\ output = <<>>
  /\ finished = FALSE

Next ==
  \/ ExpandCallback
  \/ ExpandObjectLike
  \/ ExpandFunctionLike
  \/ ArgumentToken
  \/ ReturnToken
  \/ Define
  \/ Undef
  \/ Include
  \/ EndOfArgs
  \/ NextArg
  \/ ArgToken
  \/ SubstMissing
  \/ SubstParam
  \/ ExpandArg
  \/ SubstConcat
  \/ SubstStringify
  \/ SubstPlain
  \/ PushExpansion

Spec == Init /\ [][Next]_vars

\* The expander is one thread that never waits: it takes its next step.
FairSpec == Spec /\ WF_vars(Next)

-----------------------------------------------------------------------------
\* No macro stays disabled after its expansion has been read (pop_context): a
\* disabled macro has an expansion on the context stack.
DisabledOnStack == disabled \subseteq OnStack

\* No macro is expanded inside its own expansion (expand_token, line 557): the
\* macro of every expansion on the stack is disabled, and has no other one there.
NoSelfExpansion ==
  \A i \in DOMAIN contexts :
    contexts[i].macro # NoMacro =>
      /\ contexts[i].macro \in disabled
      /\ \A j \in DOMAIN contexts : contexts[j].macro = contexts[i].macro => j = i

\* Source files are only ever below token buffers, so a directive, which must
\* come from a file, is read when no expansion is left on the stack.
FilesBelowBuffers ==
  \A i, j \in DOMAIN contexts :
    contexts[i].tag = "buffer" /\ contexts[j].tag = "file" => j < i

\* The assertion of expand_macro_with_args (line 478), and that the arguments
\* of ... are gathered into one.
ArgumentsMatch ==
  \A k \in DOMAIN frames :
    frames[k].phase # "args" =>
      LET d == macros[frames[k].macro]
          n == Len(frames[k].args)
      IN d.hasParams =>
           \/ n = d.paramCount
           \/ d.isVariadic /\ n = d.paramCount + 1

\* The calls in progress: each macro is still defined, the arguments read so far
\* are no more than it can take, and the one being expanded is one of them.
CallsOK ==
  \A k \in DOMAIN frames :
    LET f == frames[k]
        d == macros[f.macro]
    IN /\ d \in Macro
       /\ f.phase = "args" =>
            Len(f.args) <= d.paramCount + (IF f.newArg THEN 0 ELSE 1)
       /\ f.phase # "args" => Len(f.expanded) = Len(f.args)
       /\ f.phase = "argexp" =>
            /\ f.pos \in DOMAIN d.tokens
            /\ d.tokens[f.pos].val \in 1 .. Len(f.args)

\* Inductive: the invariants that hold whatever the macros and the files are.
IInv ==
  /\ TypeOK
  /\ CallsOK
  /\ ArgumentsMatch
  /\ DisabledOnStack
  /\ FilesBelowBuffers

\* No call of a macro takes the marker that ends the argument in which it stands
\* (parse_macro_args, line 433): its closing parenthesis is found before it.
ArgumentsEnd ==
  \A k \in DOMAIN frames : \A a \in DOMAIN frames[k].args : Clean(frames[k].args[a])

IsExpanding(f) == f.phase = "argexp"

\* The text of an argument that is being expanded still ends in its marker.
Marked(toks) ==
  /\ toks # <<>> /\ toks[Len(toks)] = STOP
  /\ \A i \in 1 .. Len(toks) - 1 : toks[i] # STOP

\* Every call but the innermost is expanding an argument, whose buffer is on the
\* stack, the inner ones above the outer ones.
CallsNest(cs, fs) ==
  /\ \A k \in DOMAIN fs : k < Len(fs) => IsExpanding(fs[k])
  /\ \A k \in DOMAIN fs : IsExpanding(fs[k]) =>
       fs[k].base \in 2 .. Len(cs) /\ Marked(cs[fs[k].base].toks)
  /\ \A k, l \in DOMAIN fs :
       k < l /\ IsExpanding(fs[k]) /\ IsExpanding(fs[l]) => fs[k].base < fs[l].base

\* No other text has a marker.
MarkersAreBases(cs, fs) ==
  \A i \in DOMAIN cs : Clean(cs[i].toks) \/ \E k \in DOMAIN fs : IsExpanding(fs[k]) /\ fs[k].base = i

\* The macro of a call has no expansion on the stack but in the argument that is
\* being expanded for it.
CallsAreFresh(cs, fs) ==
  \A k \in DOMAIN fs, i \in DOMAIN cs :
    cs[i].macro = fs[k].macro => IsExpanding(fs[k]) /\ fs[k].base < i

ResultsAreClean(fs) ==
  \A k \in DOMAIN fs :
    Clean(fs[k].result) /\ \A a \in DOMAIN fs[k].expanded : Clean(fs[k].expanded[a])

\* A call that is reading an argument has one.
ArgumentsAreOpen(fs) ==
  \A k \in DOMAIN fs : fs[k].phase = "args" /\ ~fs[k].newArg => fs[k].args # <<>>

MacrosAreClean == \A m \in MacroNames : macros[m].isDefined => Clean(macros[m].tokens)

\* Inductive with IInv, as long as arguments end where they should.
NestingInv ==
  /\ CallsNest(contexts, frames) /\ MarkersAreBases(contexts, frames)
  /\ CallsAreFresh(contexts, frames)
  /\ ResultsAreClean(frames) /\ ArgumentsAreOpen(frames) /\ MacrosAreClean
  /\ NoSelfExpansion

\* How far the parentheses of s have been opened after each of its tokens.
Weight(t) == IF t.tag = "lparen" THEN 1 ELSE IF t.tag = "rparen" THEN -1 ELSE 0

Climbs(s, h) == \A i \in 1 .. Len(s) : s[i] # EOF /\ h[i] = h[i - 1] + Weight(s[i])

\* The text s, met at depth a, ends at depth z and closes no more than was open.
Path(s, a, z) ==
  \E h \in [0 .. Len(s) -> Nat] : h[0] = a /\ h[Len(s)] = z /\ Climbs(s, h)

\* A body whose parentheses match, and that verify_macro accepts.
Balanced(body) ==
  /\ Path(body, 0, 0)
  /\ \A i \in DOMAIN body : body[i].tag = "hash" => i < Len(body) /\ body[i + 1].tag = "param"

BalancedMacros ==
  \A m \in MacroNames :
    /\ \A p \in Programs : p[1][m].isDefined => Balanced(p[1][m].tokens)
    /\ Balanced(Redefinition[m].tokens)

\* What is added to the expansion next.
Operand ==
  IF IsTag(Top.pos, "param")
  THEN IF BodyAt(Top.pos).val \in 1 .. Len(Top.args) THEN Top.args[BodyAt(Top.pos).val] ELSE <<>>
  ELSE IF Top.pos <= Len(Def.tokens) THEN <<BodyAt(Top.pos)>> ELSE <<>>

\* No parenthesis is pasted to the token before it: concatenate_tokens reports an
\* error if one is, and drops it.
PastesFit ==
  Substituting /\ Top.concat /\ Top.result # <<>> /\ Operand # <<>> => Weight(Head(Operand)) = 0

\* A definition is only freed or written over (insert_macro, parse_undef) while
\* no expansion of the macro is on the stack and no call of any macro is being
\* read or substituted: contexts and calls hold pointers to it.
EditsOnlyUnusedMacros ==
  [][\A m \in MacroNames :
       macros'[m] # macros[m] => m \notin OnStack' /\ frames = <<>>]_vars

\* Expansion ends, for every file in which no call takes the marker that ends the
\* argument it stands in.  After one that does, expand_macro_arg may wait forever for
\* the marker that has been taken (line 353): with f(x) defined as x and g as f (, the
\* expansion of f(g) never ends.
Termination == []ArgumentsEnd => <>finished
=============================================================================
