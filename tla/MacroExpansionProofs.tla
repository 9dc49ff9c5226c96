------------------------ MODULE MacroExpansionProofs ------------------------
(***************************************************************************)
(* The macro expander, whatever the macros and the files are: no macro is  *)
(* disabled for good or changed while it is in use, every call has the     *)
(* arguments it needs, and as long as the calls that arguments contain end *)
(* in them, no macro is expanded inside its own expansion; which they do   *)
(* if the parentheses of the macros match.                                 *)
(***************************************************************************)
EXTENDS MacroExpansion, SeqLemmas, TLAPS

\* There is a context to read from, and the ones above it are exhausted.
LEMMA SourceProperties ==
  ASSUME NEW cs \in Seq(Context), cs # <<>>
  PROVE  /\ Source(cs) \in 1 .. Len(cs)
         /\ HasUnread(cs, Source(cs))
         /\ \A j \in 1 .. Len(cs) : j > Source(cs) => ~HasUnread(cs, j)
<1> DEFINE S == {i \in 1 .. Len(cs) : HasUnread(cs, i)}
<1>1. Len(cs) \in Nat \ {0} /\ DOMAIN cs = 1 .. Len(cs)
  BY EmptySeq, LenProperties
<1>2. 1 \in S
  BY <1>1 DEF HasUnread
<1>3. PICK x \in S : \A y \in S : y <= x
  <2> HIDE DEF S
  <2>1. S \in SUBSET (1 .. Len(cs))
    BY DEF S
  <2> QED
    BY <1>1, <1>2, <2>1, LargestElement
<1>4. /\ x \in DOMAIN cs
      /\ HasUnread(cs, x)
      /\ \A j \in DOMAIN cs : j > x => ~HasUnread(cs, j)
  BY <1>1, <1>3
<1> QED
  BY <1>1, <1>4 DEF Source

\* A read keeps the contexts up to the source, all but the source's text.
LEMMA ReadProperties ==
  ASSUME NEW cs \in Seq(Context), cs # <<>>
  PROVE  /\ AfterRead(cs) \in Seq(Context)
         /\ AfterRead(cs) # <<>>
         /\ Len(AfterRead(cs)) = Source(cs)
         /\ \A i \in 1 .. Source(cs) : /\ AfterRead(cs)[i].tag = cs[i].tag
                                       /\ AfterRead(cs)[i].macro = cs[i].macro
         /\ Peek(cs) \in Token
<1> DEFINE k == Source(cs)
           c == IF cs[k].toks # <<>> THEN [cs[k] EXCEPT !.toks = Tail(@)] ELSE cs[k]
<1>1. k \in 1 .. Len(cs) /\ Len(cs) \in Nat
  BY SourceProperties, LenProperties
<1>2. \A i \in 1 .. Len(cs) : cs[i] \in Context
  BY ElementOfSeq
<1>3. /\ cs[k].toks \in Seq(Token)
      /\ cs[k].toks # <<>> => /\ Head(cs[k].toks) \in Token
                              /\ Tail(cs[k].toks) \in Seq(Token)
  <2>1. cs[k].toks \in Seq(Token)
    BY <1>1, <1>2 DEF Context
  <2> QED
    BY <2>1, HeadTailProperties
<1>4. c \in Context /\ c.tag = cs[k].tag /\ c.macro = cs[k].macro
  <2>1. cs[k] \in Context
    BY <1>1, <1>2
  <2> QED
    BY <1>3, <2>1 DEF Context
<1> HIDE DEF k
<1>5. AfterRead(cs) = [i \in 1 .. k |-> IF i = k THEN c ELSE cs[i]]
  BY <1>1 DEF AfterRead, k
<1> HIDE DEF c
<1>6. AfterRead(cs) \in [1 .. k -> Context]
  BY <1>1, <1>2, <1>4, <1>5
<1>7. AfterRead(cs) \in Seq(Context) /\ Len(AfterRead(cs)) = k
  <2>1. k \in Nat
    BY <1>1
  <2>2. AfterRead(cs) \in Seq(Context)
    BY <1>6, <2>1, SeqDef
  <2> QED
    BY <1>6, <2>1, <2>2, LenProperties
<1>8. AfterRead(cs) # <<>>
  BY <1>1, <1>7, EmptySeq
<1>9. \A i \in 1 .. k : /\ AfterRead(cs)[i].tag = cs[i].tag
                        /\ AfterRead(cs)[i].macro = cs[i].macro
  BY <1>1, <1>4, <1>5
<1>10. Peek(cs) \in Token
  <2>1. EOF \in Token
    BY DEF EOF, Tag, Token, Tags
  <2> QED
    BY <1>3, <2>1 DEF Peek, k
<1> QED
  BY <1>7, <1>8, <1>9, <1>10 DEF k

-----------------------------------------------------------------------------
(* The context stack and the disabled macros. *)

FilesBelow(cs) ==
  \A i, j \in DOMAIN cs : cs[i].tag = "buffer" /\ cs[j].tag = "file" => j < i

StackOK(cs, dis) ==
  /\ cs \in Seq(Context)
  /\ cs # <<>>
  /\ dis \subseteq MacrosOf(cs)
  /\ FilesBelow(cs)

LEMMA StackDisablesNames ==
  ASSUME NEW cs, NEW dis, StackOK(cs, dis)
  PROVE  dis \subseteq MacroNames
<1>1. DOMAIN cs = 1 .. Len(cs)
  BY LenProperties DEF StackOK
<1>2. \A i \in DOMAIN cs : cs[i] \in Context
  BY <1>1, ElementOfSeq DEF StackOK
<1>3. \A i \in DOMAIN cs : cs[i].macro \in MacroNames \cup {NoMacro}
  BY <1>2 DEF Context
<1> QED
  BY <1>3 DEF StackOK, MacrosOf

\* A read enables the macros of the contexts it pops and of no other.
LEMMA StackRead ==
  ASSUME NEW cs, NEW dis, StackOK(cs, dis)
  PROVE  /\ StackOK(AfterRead(cs), EnabledByRead(dis, cs))
         /\ Peek(cs) \in Token
<1> DEFINE k == Source(cs)
           rs == AfterRead(cs)
<1>1. /\ rs \in Seq(Context) /\ rs # <<>> /\ Len(rs) = k
      /\ \A i \in 1 .. k : rs[i].tag = cs[i].tag /\ rs[i].macro = cs[i].macro
      /\ Peek(cs) \in Token
  BY ReadProperties DEF StackOK
<1>2. k \in 1 .. Len(cs) /\ Len(cs) \in Nat
  BY SourceProperties, LenProperties DEF StackOK
<1>3. DOMAIN cs = 1 .. Len(cs) /\ DOMAIN rs = 1 .. k
  BY <1>1, LenProperties DEF StackOK
<1> HIDE DEF k, rs
<1>4. EnabledByRead(dis, cs) \subseteq MacrosOf(rs)
  <2> SUFFICES ASSUME NEW m \in EnabledByRead(dis, cs) PROVE m \in MacrosOf(rs)
    OBVIOUS
  <2>1. m \in dis /\ m \notin {cs[i].macro : i \in k + 1 .. Len(cs)}
    BY DEF EnabledByRead, k
  <2>2. PICK i \in DOMAIN cs : m = cs[i].macro /\ m # NoMacro
    BY <2>1 DEF StackOK, MacrosOf
  <2>3. i \in 1 .. k
    BY <1>2, <1>3, <2>1, <2>2
  <2> QED
    BY <1>1, <1>3, <2>2, <2>3 DEF MacrosOf
<1>5. FilesBelow(rs)
  <2> SUFFICES ASSUME NEW i \in 1 .. k, NEW j \in 1 .. k,
                      rs[i].tag = "buffer", rs[j].tag = "file"
               PROVE  j < i
    BY <1>3 DEF FilesBelow
  <2>1. i \in DOMAIN cs /\ j \in DOMAIN cs
    BY <1>2, <1>3
  <2> QED
    BY <1>1, <2>1 DEF StackOK, FilesBelow
<1> QED
  BY <1>1, <1>4, <1>5 DEF StackOK, k, rs

\* Pushing a buffer, with or without a macro that it disables.
LEMMA StackPush ==
  ASSUME NEW cs, NEW dis, StackOK(cs, dis),
         NEW m \in MacroNames \cup {NoMacro}, NEW toks \in Seq(Token),
         NEW more \in SUBSET ({m} \ {NoMacro})
  PROVE  StackOK(Append(cs, Buffer(m, toks)), dis \cup more)
<1> DEFINE b == Buffer(m, toks)
           ps == Append(cs, b)
<1>1. b \in Context /\ b.tag = "buffer" /\ b.macro = m
  BY DEF Buffer, Context
<1> HIDE DEF b
<1>2. /\ ps \in Seq(Context) /\ ps # <<>> /\ Len(ps) = Len(cs) + 1
      /\ \A i \in 1 .. Len(cs) : ps[i] = cs[i]
      /\ ps[Len(cs) + 1] = b
  BY <1>1, AppendProperties DEF StackOK
<1> HIDE DEF ps
<1>3. DOMAIN cs = 1 .. Len(cs) /\ DOMAIN ps = 1 .. Len(cs) + 1 /\ Len(cs) \in Nat
  BY <1>2, LenProperties DEF StackOK
<1>4. dis \cup more \subseteq MacrosOf(ps)
  <2>1. MacrosOf(cs) \subseteq MacrosOf(ps)
    BY <1>2, <1>3 DEF MacrosOf
  <2>2. {m} \ {NoMacro} \subseteq MacrosOf(ps)
    BY <1>1, <1>2, <1>3 DEF MacrosOf
  <2> QED
    BY <2>1, <2>2 DEF StackOK
<1>5. FilesBelow(ps)
  <2> SUFFICES ASSUME NEW i \in 1 .. Len(cs) + 1, NEW j \in 1 .. Len(cs) + 1,
                      ps[i].tag = "buffer", ps[j].tag = "file"
               PROVE  j < i
    BY <1>3 DEF FilesBelow
  <2>1. j \in 1 .. Len(cs)
    BY <1>1, <1>2, <1>3
  <2>2. CASE i = Len(cs) + 1
    BY <1>3, <2>1, <2>2
  <2>3. CASE i \in 1 .. Len(cs)
    BY <1>2, <1>3, <2>1, <2>3 DEF StackOK, FilesBelow
  <2> QED
    BY <1>3, <2>2, <2>3
<1> QED
  BY <1>2, <1>4, <1>5 DEF StackOK, ps, b

\* When the next token is a file's, the contexts left by reading it are files,
\* which have no macros.
LEMMA ReadFromFile ==
  ASSUME NEW cs, NEW dis, StackOK(cs, dis), cs[Source(cs)].tag = "file"
  PROVE  /\ \A i \in DOMAIN AfterRead(cs) : AfterRead(cs)[i].tag = "file"
         /\ MacrosOf(AfterRead(cs)) = {}
<1> DEFINE k == Source(cs)
           rs == AfterRead(cs)
<1>1. /\ rs \in Seq(Context) /\ Len(rs) = k
      /\ \A i \in 1 .. k : rs[i].tag = cs[i].tag
  BY ReadProperties DEF StackOK
<1>2. k \in 1 .. Len(cs) /\ Len(cs) \in Nat /\ DOMAIN cs = 1 .. Len(cs)
  BY SourceProperties, LenProperties DEF StackOK
<1>3. DOMAIN rs = 1 .. k
  BY <1>1, LenProperties
<1>4. \A i \in DOMAIN rs : rs[i] \in Context
  BY <1>1, <1>3, ElementOfSeq
<1> HIDE DEF k, rs
<1>5. \A i \in 1 .. k : rs[i].tag = "file"
  <2> SUFFICES ASSUME NEW i \in 1 .. k, rs[i].tag # "file" PROVE FALSE
    OBVIOUS
  <2>1. rs[i].tag = "buffer"
    BY <1>3, <1>4 DEF Context
  <2>2. i \in DOMAIN cs /\ k \in DOMAIN cs /\ cs[i].tag = "buffer" /\ cs[k].tag = "file"
    BY <1>1, <1>2, <2>1 DEF k
  <2>3. k < i
    BY <2>2 DEF StackOK, FilesBelow
  <2> QED
    BY <1>2, <2>3
<1>6. \A i \in DOMAIN rs : rs[i].macro = NoMacro
  BY <1>3, <1>4, <1>5 DEF Context
<1> QED
  BY <1>3, <1>5, <1>6 DEF MacrosOf, k, rs

LEMMA StackInclude ==
  ASSUME NEW cs, NEW dis, StackOK(cs, dis), NEW toks \in Seq(Token),
         \A i \in DOMAIN cs : cs[i].tag = "file"
  PROVE  StackOK(Append(cs, File(toks)), dis)
<1> DEFINE b == File(toks)
           ps == Append(cs, b)
<1>1. b \in Context /\ b.tag = "file"
  BY DEF File, Context
<1> HIDE DEF b
<1>2. /\ ps \in Seq(Context) /\ ps # <<>> /\ Len(ps) = Len(cs) + 1
      /\ \A i \in 1 .. Len(cs) : ps[i] = cs[i]
      /\ ps[Len(cs) + 1] = b
  BY <1>1, AppendProperties DEF StackOK
<1> HIDE DEF ps
<1>3. DOMAIN cs = 1 .. Len(cs) /\ DOMAIN ps = 1 .. Len(cs) + 1 /\ Len(cs) \in Nat
  BY <1>2, LenProperties DEF StackOK
<1>4. dis \subseteq MacrosOf(ps)
  BY <1>2, <1>3 DEF StackOK, MacrosOf
<1>5. \A i \in DOMAIN ps : ps[i].tag = "file"
  BY <1>1, <1>2, <1>3
<1> QED
  BY <1>2, <1>4, <1>5 DEF StackOK, FilesBelow, ps, b

-----------------------------------------------------------------------------
(* The calls in progress. *)

CallOK(f, ms) ==
  LET d == ms[f.macro]
      n == Len(f.args)
  IN /\ d \in Macro
     /\ f.phase = "args" => n <= d.paramCount + (IF f.newArg THEN 0 ELSE 1)
     /\ f.phase # "args" =>
          /\ Len(f.expanded) = n
          /\ d.hasParams => n = d.paramCount \/ (d.isVariadic /\ n = d.paramCount + 1)
     /\ f.phase = "argexp" =>
          /\ f.pos \in DOMAIN d.tokens
          /\ d.tokens[f.pos].val \in 1 .. n

FramesOK(fs, ms) == fs \in Seq(Frame) /\ \A k \in DOMAIN fs : CallOK(fs[k], ms)

LEMMA FramesPush ==
  ASSUME NEW fs, NEW ms, FramesOK(fs, ms), NEW f \in Frame, CallOK(f, ms)
  PROVE  FramesOK(Append(fs, f), ms)
<1>1. /\ Append(fs, f) \in Seq(Frame) /\ Len(Append(fs, f)) = Len(fs) + 1
      /\ \A i \in 1 .. Len(fs) : Append(fs, f)[i] = fs[i]
      /\ Append(fs, f)[Len(fs) + 1] = f
  BY AppendProperties DEF FramesOK
<1>2. DOMAIN fs = 1 .. Len(fs) /\ DOMAIN Append(fs, f) = 1 .. Len(fs) + 1 /\ Len(fs) \in Nat
  BY <1>1, LenProperties DEF FramesOK
<1>3. \A k \in 1 .. Len(fs) + 1 : CallOK(Append(fs, f)[k], ms)
  BY <1>1, <1>2 DEF FramesOK
<1> QED
  BY <1>1, <1>2, <1>3 DEF FramesOK

LEMMA FramesWithTop ==
  ASSUME NEW fs, NEW ms, FramesOK(fs, ms), fs # <<>>, NEW f \in Frame, CallOK(f, ms)
  PROVE  FramesOK([fs EXCEPT ![Len(fs)] = f], ms)
<1>1. Len(fs) \in 1 .. Len(fs) /\ DOMAIN fs = 1 .. Len(fs)
  BY EmptySeq, LenProperties DEF FramesOK
<1>2. /\ [fs EXCEPT ![Len(fs)] = f] \in Seq(Frame)
      /\ Len([fs EXCEPT ![Len(fs)] = f]) = Len(fs)
      /\ \A j \in 1 .. Len(fs) :
           [fs EXCEPT ![Len(fs)] = f][j] = IF j = Len(fs) THEN f ELSE fs[j]
  BY <1>1, ExceptSeq DEF FramesOK
<1>3. DOMAIN [fs EXCEPT ![Len(fs)] = f] = 1 .. Len(fs)
  BY <1>1
<1>4. \A k \in 1 .. Len(fs) : CallOK([fs EXCEPT ![Len(fs)] = f][k], ms)
  BY <1>1, <1>2 DEF FramesOK
<1> QED
  BY <1>2, <1>3, <1>4 DEF FramesOK

LEMMA FramesPop ==
  ASSUME NEW fs, NEW ms, FramesOK(fs, ms), fs # <<>>
  PROVE  FramesOK(SubSeq(fs, 1, Len(fs) - 1), ms)
<1> DEFINE n == Len(fs) - 1
           ps == SubSeq(fs, 1, n)
<1>1. n \in Nat /\ Len(fs) = n + 1 /\ DOMAIN fs = 1 .. Len(fs)
  BY EmptySeq, LenProperties DEF FramesOK
<1>2. \A i \in 1 .. n : fs[i] \in Frame /\ i \in DOMAIN fs
  BY <1>1, ElementOfSeq DEF FramesOK
<1> HIDE DEF n
<1>3. ps \in Seq(Frame) /\ Len(ps) = n /\ \A i \in 1 .. n : ps[i] = fs[i]
  <2>1. /\ ps \in Seq(Frame)
        /\ Len(ps) = IF 1 <= n THEN n - 1 + 1 ELSE 0
        /\ \A i \in 1 .. n - 1 + 1 : ps[i] = fs[1 + i - 1]
    BY <1>1, <1>2, SubSeqProperties
  <2> QED
    BY <1>1, <2>1
<1> HIDE DEF ps
<1>4. DOMAIN ps = 1 .. n
  BY <1>3, LenProperties
<1> QED
  BY <1>2, <1>3, <1>4 DEF FramesOK, n, ps

LEMMA TopProperties ==
  ASSUME FramesOK(frames, macros), frames # <<>>
  PROVE  Top \in Frame /\ CallOK(Top, macros)
<1>1. Len(frames) \in 1 .. Len(frames) /\ DOMAIN frames = 1 .. Len(frames)
  BY EmptySeq, LenProperties DEF FramesOK
<1> QED
  BY <1>1, ElementOfSeq DEF FramesOK, Top

-----------------------------------------------------------------------------
(* The inductive invariant, as a fact about each group of variables. *)

Parts ==
  /\ macros \in [MacroNames -> Macro \cup {Undefined}]
  /\ StackOK(contexts, disabled)
  /\ FramesOK(frames, macros)
  /\ output \in Seq(Token)
  /\ finished \in BOOLEAN

LEMMA PartsAreIInv == Parts <=> IInv
<1>1. Parts => TypeOK
  <2> SUFFICES ASSUME Parts PROVE TypeOK
    OBVIOUS
  <2>1. disabled \subseteq MacroNames
    BY StackDisablesNames DEF Parts
  <2> QED
    BY <2>1 DEF Parts, TypeOK, StackOK, FramesOK
<1>2. Parts => DisabledOnStack /\ FilesBelowBuffers
  BY DEF Parts, StackOK, FilesBelow, DisabledOnStack, FilesBelowBuffers, OnStack
<1>3. Parts => CallsOK /\ ArgumentsMatch
  BY DEF Parts, FramesOK, CallOK, CallsOK, ArgumentsMatch
<1>4. IInv => StackOK(contexts, disabled)
  BY DEF IInv, TypeOK, StackOK, FilesBelow, DisabledOnStack, FilesBelowBuffers, OnStack
<1>5. IInv => FramesOK(frames, macros)
  BY DEF IInv, TypeOK, FramesOK, CallOK, CallsOK, ArgumentsMatch
<1>6. IInv => Parts
  BY <1>4, <1>5 DEF IInv, TypeOK, Parts
<1> QED
  BY <1>1, <1>2, <1>3, <1>6 DEF IInv

LEMMA NewFrameOK ==
  ASSUME NEW m \in MacroNames, macros[m] \in Macro, NEW phase \in {"args", "subst"},
         macros[m].hasParams <=> phase = "args"
  PROVE  NewFrame(m, phase) \in Frame /\ CallOK(NewFrame(m, phase), macros)
<1> DEFINE f == NewFrame(m, phase)
<1>1. /\ <<>> \in Seq(Seq(Token)) /\ <<>> \in Seq(Token) /\ Len(<<>>) = 0
  BY EmptySeq
<1>2. f \in Frame
  BY <1>1 DEF NewFrame, Frame
<1>3. /\ f.macro = m /\ f.phase = phase /\ f.args = <<>> /\ f.newArg = TRUE
      /\ f.expanded = <<>>
  BY DEF NewFrame
<1> HIDE DEF f
<1>4. macros[m].paramCount \in Nat
  BY DEF Macro
<1>5. CallOK(f, macros)
  BY <1>1, <1>3, <1>4 DEF CallOK
<1> QED
  BY <1>2, <1>5 DEF f

\* What a read that expands a name, or returns it, does to the stack.
LEMMA ReadStep ==
  ASSUME Parts
  PROVE  /\ StackOK(AfterRead(contexts), EnabledByRead(disabled, contexts))
         /\ Peek(contexts) \in Token
  BY StackRead DEF Parts

LEMMA ExpandableIsMacro ==
  ASSUME Parts, NEW t, NEW cs, NEW dis, Expandable(t, cs, dis)
  PROVE  t.val \in MacroNames /\ macros[t.val] \in Macro
<1>1. t.val \in MacroNames /\ macros[t.val].isDefined
  BY DEF Expandable
<1>2. Undefined.isDefined = FALSE
  BY DEF Undefined
<1> QED
  BY <1>1, <1>2 DEF Parts

LEMMA InitParts == Init => Parts
<1> SUFFICES ASSUME Init PROVE Parts
  OBVIOUS
<1>1. PICK p \in Programs : macros = p[1] /\ contexts = <<File(p[2])>>
  BY DEF Init
<1>2. /\ macros \in [MacroNames -> Macro \cup {Undefined}]
      /\ p[2] \in Seq(Token)
  BY <1>1, ProgramsAssumption
<1>3. File(p[2]) \in Context /\ File(p[2]).tag = "file"
  BY <1>2 DEF File, Context
<1>4. /\ contexts \in Seq(Context) /\ contexts # <<>> /\ DOMAIN contexts = {1}
      /\ contexts[1] = File(p[2])
  BY <1>1, <1>3
<1>5. FilesBelow(contexts)
  BY <1>3, <1>4 DEF FilesBelow
<1>6. disabled = {} /\ frames = <<>> /\ output = <<>> /\ finished = FALSE
  BY DEF Init
<1>7. FramesOK(frames, macros)
  BY <1>6, EmptySeq DEF FramesOK
<1> QED
  BY <1>2, <1>4, <1>5, <1>6, <1>7, EmptySeq DEF Parts, StackOK

-----------------------------------------------------------------------------
(* Each action keeps Parts. *)

LEMMA ExpandCallbackKeeps == Parts /\ ExpandCallback => Parts'
<1> DEFINE t   == Peek(contexts)
           cs  == AfterRead(contexts)
           dis == EnabledByRead(disabled, contexts)
<1> SUFFICES ASSUME Parts, ExpandCallback PROVE Parts'
  OBVIOUS
<1>1. /\ Expandable(t, cs, dis)
      /\ contexts' = Append(cs, Buffer(NoMacro, macros[t.val].tokens))
      /\ disabled' = dis
      /\ UNCHANGED <<macros, frames, output, finished>>
  BY DEF ExpandCallback
<1>2. StackOK(cs, dis)
  BY ReadStep
<1>3. macros[t.val].tokens \in Seq(Token)
  BY <1>1, ExpandableIsMacro DEF Macro
<1> HIDE DEF t, cs, dis
<1>4. StackOK(contexts', disabled')
  <2>1. StackOK(Append(cs, Buffer(NoMacro, macros[t.val].tokens)), dis \cup {})
    BY <1>2, <1>3, StackPush
  <2>2. dis \cup {} = dis
    OBVIOUS
  <2> QED
    BY <1>1, <2>1, <2>2
<1> QED
  BY <1>1, <1>4 DEF Parts

LEMMA ExpandObjectLikeKeeps == Parts /\ ExpandObjectLike => Parts'
<1> DEFINE t   == Peek(contexts)
           cs  == AfterRead(contexts)
           dis == EnabledByRead(disabled, contexts)
<1> SUFFICES ASSUME Parts, ExpandObjectLike PROVE Parts'
  OBVIOUS
<1>1. /\ Expandable(t, cs, dis)
      /\ ~macros[t.val].hasParams
      /\ contexts' = cs
      /\ disabled' = dis
      /\ frames' = Append(frames, NewFrame(t.val, "subst"))
      /\ UNCHANGED <<macros, output, finished>>
  BY DEF ExpandObjectLike
<1>2. StackOK(contexts', disabled')
  BY <1>1, ReadStep
<1>3. t.val \in MacroNames /\ macros[t.val] \in Macro
  BY <1>1, ExpandableIsMacro
<1> HIDE DEF t, cs, dis
<1>4. NewFrame(t.val, "subst") \in Frame /\ CallOK(NewFrame(t.val, "subst"), macros)
  BY <1>1, <1>3, NewFrameOK
<1>5. FramesOK(frames', macros')
  BY <1>1, <1>4, FramesPush DEF Parts
<1> QED
  BY <1>1, <1>2, <1>5 DEF Parts

LEMMA ExpandFunctionLikeKeeps == Parts /\ ExpandFunctionLike => Parts'
<1> DEFINE t   == Peek(contexts)
           cs  == AfterRead(contexts)
           dis == EnabledByRead(disabled, contexts)
<1> SUFFICES ASSUME Parts, ExpandFunctionLike PROVE Parts'
  OBVIOUS
<1>1. /\ Expandable(t, cs, dis)
      /\ macros[t.val].hasParams
      /\ contexts' = AfterRead(cs)
      /\ disabled' = EnabledByRead(dis, cs)
      /\ frames' = Append(frames, NewFrame(t.val, "args"))
      /\ UNCHANGED <<macros, output, finished>>
  BY DEF ExpandFunctionLike
<1>2. StackOK(cs, dis)
  BY ReadStep
<1>3. t.val \in MacroNames /\ macros[t.val] \in Macro
  BY <1>1, ExpandableIsMacro
<1> HIDE DEF t, cs, dis
<1>4. StackOK(contexts', disabled')
  BY <1>1, <1>2, StackRead
<1>5. NewFrame(t.val, "args") \in Frame /\ CallOK(NewFrame(t.val, "args"), macros)
  BY <1>1, <1>3, NewFrameOK
<1>6. FramesOK(frames', macros')
  BY <1>1, <1>5, FramesPush DEF Parts
<1> QED
  BY <1>1, <1>4, <1>6 DEF Parts

LEMMA ReturnTokenKeeps == Parts /\ ReturnToken => Parts'
<1> SUFFICES ASSUME Parts, ReturnToken PROVE Parts'
  OBVIOUS
<1>1. /\ contexts' = AfterRead(contexts)
      /\ disabled' = EnabledByRead(disabled, contexts)
      /\ output' = IF Peek(contexts) = EOF THEN output ELSE Append(output, Peek(contexts))
      /\ finished' = (Peek(contexts) = EOF)
      /\ UNCHANGED <<macros, frames>>
  BY DEF ReturnToken, ReturnsToken
<1>2. StackOK(contexts', disabled') /\ Peek(contexts) \in Token
  BY <1>1, ReadStep
<1>3. output' \in Seq(Token)
  BY <1>1, <1>2, AppendProperties DEF Parts
<1> QED
  BY <1>1, <1>2, <1>3 DEF Parts

LEMMA ArgumentTokenKeeps == Parts /\ ArgumentToken => Parts'
<1> DEFINE t == Peek(contexts)
           p == macros[Top.macro].tokens[Top.pos].val
           f == IF t = STOP
                THEN [Top EXCEPT !.phase = "subst", !.isExpanded = @ \cup {p}]
                ELSE [Top EXCEPT !.expanded[p] = Collected(@, t)]
<1> SUFFICES ASSUME Parts, ArgumentToken PROVE Parts'
  OBVIOUS
<1>1. /\ frames # <<>>
      /\ Top.phase = "argexp"
      /\ contexts' = AfterRead(contexts)
      /\ disabled' = EnabledByRead(disabled, contexts)
      /\ frames' = [frames EXCEPT ![Len(frames)] = f]
      /\ UNCHANGED <<macros, output, finished>>
  BY DEF ArgumentToken, ReturnsToken, WithTop
<1>2. StackOK(contexts', disabled') /\ t \in Token
  BY <1>1, ReadStep
<1>3. Top \in Frame /\ CallOK(Top, macros) /\ FramesOK(frames, macros)
  BY <1>1, TopProperties DEF Parts
<1>4. /\ Top.expanded \in Seq(Seq(Token)) /\ Top.args \in Seq(Seq(Token))
      /\ Len(Top.expanded) = Len(Top.args) /\ p \in 1 .. Len(Top.expanded)
  BY <1>1, <1>3 DEF CallOK, Frame
<1> HIDE DEF t, p
<1>5. /\ f \in Frame
      /\ f.macro = Top.macro /\ f.args = Top.args /\ f.pos = Top.pos
      /\ f.phase \in {"subst", "argexp"}
      /\ Len(f.expanded) = Len(Top.expanded)
  <2>1. CASE t = STOP
    <3>1. p \in Nat
      BY <1>4, LenProperties
    <3> QED
      BY <1>3, <2>1, <3>1 DEF Frame
  <2>2. CASE t # STOP
    <3> DEFINE e == [Top.expanded EXCEPT ![p] = Collected(@, t)]
    <3>1. Collected(Top.expanded[p], t) \in Seq(Token)
      BY <1>2, <1>4, ElementOfSeq, AppendProperties DEF Collected
    <3>2. e \in Seq(Seq(Token)) /\ Len(e) = Len(Top.expanded)
      BY <1>4, <3>1, ExceptSeq
    <3>3. f = [Top EXCEPT !.expanded = e]
      BY <1>3, <2>2 DEF Frame
    <3> HIDE DEF e
    <3> QED
      BY <1>1, <1>3, <3>2, <3>3 DEF Frame
  <2> QED
    BY <2>1, <2>2
<1> HIDE DEF f
<1>6. CallOK(f, macros)
  BY <1>1, <1>3, <1>5 DEF CallOK
<1>7. FramesOK(frames', macros')
  BY <1>1, <1>3, <1>5, <1>6, FramesWithTop
<1> QED
  BY <1>1, <1>2, <1>7 DEF Parts

\* A directive leaves no expansion on the stack, so it can only disable less.
LEMMA DirectiveRead ==
  ASSUME Parts, NEW tag, Directive(tag)
  PROVE  /\ StackOK(AfterRead(contexts), EnabledByRead(disabled, contexts))
         /\ EnabledByRead(disabled, contexts) = {}
         /\ \A i \in DOMAIN AfterRead(contexts) : AfterRead(contexts)[i].tag = "file"
         /\ StackOK(AfterRead(AfterRead(contexts)), {})
         /\ MacrosOf(AfterRead(AfterRead(contexts))) = {}
         /\ frames = <<>>
<1> DEFINE cs  == AfterRead(contexts)
           dis == EnabledByRead(disabled, contexts)
<1>1. StackOK(cs, dis)
  BY ReadStep
<1>2. contexts[Source(contexts)].tag = "file" /\ frames = <<>>
  BY DEF Directive
<1>3. (\A i \in DOMAIN cs : cs[i].tag = "file") /\ MacrosOf(cs) = {}
  BY <1>2, ReadFromFile DEF Parts
<1> HIDE DEF cs, dis
<1>4. dis = {}
  BY <1>1, <1>3 DEF StackOK
<1>5. StackOK(AfterRead(cs), EnabledByRead({}, cs))
  BY <1>1, <1>4, StackRead
<1>6. EnabledByRead({}, cs) = {}
  BY DEF EnabledByRead
<1>7. cs[Source(cs)].tag = "file"
  BY <1>1, <1>3, SourceProperties, LenProperties DEF StackOK
<1>8. MacrosOf(AfterRead(cs)) = {}
  BY <1>1, <1>7, ReadFromFile
<1> QED
  BY <1>1, <1>2, <1>3, <1>4, <1>5, <1>6, <1>8 DEF cs, dis

LEMMA NoCalls == ASSUME NEW ms, NEW fs, fs = <<>> PROVE FramesOK(fs, ms)
  BY EmptySeq DEF FramesOK

LEMMA DefineKeeps == Parts /\ Define => Parts'
<1> SUFFICES ASSUME Parts, Define PROVE Parts'
  OBVIOUS
<1>1. PICK m \in MacroNames :
        /\ macros' = [macros EXCEPT ![m] = Redefinition[m]]
        /\ disabled' = EnabledByRead(disabled, contexts) \ {m}
  BY DEF Define
<1>2. /\ Directive("define")
      /\ contexts' = AfterRead(AfterRead(contexts))
      /\ UNCHANGED <<frames, output, finished>>
  BY DEF Define
<1>3. /\ StackOK(contexts', {})
      /\ disabled' = {}
      /\ frames' = <<>>
  BY <1>1, <1>2, DirectiveRead
<1>4. macros' \in [MacroNames -> Macro \cup {Undefined}]
  BY <1>1, RedefinitionAssumption DEF Parts
<1> QED
  BY <1>2, <1>3, <1>4, NoCalls DEF Parts

LEMMA UndefKeeps == Parts /\ Undef => Parts'
<1> SUFFICES ASSUME Parts, Undef PROVE Parts'
  OBVIOUS
<1>1. PICK m \in MacroNames :
        /\ macros' = [macros EXCEPT ![m] = Undefined]
        /\ disabled' = EnabledByRead(disabled, contexts) \ {m}
  BY DEF Undef
<1>2. /\ Directive("undef")
      /\ contexts' = AfterRead(AfterRead(contexts))
      /\ UNCHANGED <<frames, output, finished>>
  BY DEF Undef
<1>3. /\ StackOK(contexts', {})
      /\ disabled' = {}
      /\ frames' = <<>>
  BY <1>1, <1>2, DirectiveRead
<1>4. macros' \in [MacroNames -> Macro \cup {Undefined}]
  BY <1>1 DEF Parts
<1> QED
  BY <1>2, <1>3, <1>4, NoCalls DEF Parts

LEMMA IncludeKeeps == Parts /\ Include => Parts'
<1> SUFFICES ASSUME Parts, Include PROVE Parts'
  OBVIOUS
<1>1. /\ Directive("include")
      /\ contexts' = Append(AfterRead(contexts), File(IncludedFile))
      /\ disabled' = EnabledByRead(disabled, contexts)
      /\ UNCHANGED <<macros, frames, output, finished>>
  BY DEF Include
<1>2. StackOK(contexts', disabled')
  BY <1>1, DirectiveRead, StackInclude, ProgramsAssumption
<1> QED
  BY <1>1, <1>2 DEF Parts

\* The arguments once there is one to add the token to.
LEMMA OpenedProperties ==
  ASSUME Top \in Frame, CallOK(Top, macros), Top.phase = "args"
  PROVE  /\ Opened \in Seq(Seq(Token))
         /\ Len(Opened) <= macros[Top.macro].paramCount + 1
<1>1. Top.args \in Seq(Seq(Token)) /\ macros[Top.macro] \in Macro
  BY DEF Frame, CallOK
<1>2. macros[Top.macro].paramCount \in Nat /\ Len(Top.args) \in Nat
  BY <1>1, LenProperties DEF Macro
<1>3. CASE Top.newArg = TRUE
  <2>1. Len(Top.args) <= macros[Top.macro].paramCount
    BY <1>2, <1>3 DEF CallOK
  <2>2. <<>> \in Seq(Token)
    BY EmptySeq
  <2>3. /\ Append(Top.args, <<>>) \in Seq(Seq(Token))
        /\ Len(Append(Top.args, <<>>)) = Len(Top.args) + 1
    BY <1>1, <2>2, AppendProperties
  <2>4. Opened = Append(Top.args, <<>>)
    BY <1>3 DEF Opened
  <2> QED
    BY <1>2, <2>1, <2>3, <2>4
<1>4. CASE Top.newArg = FALSE
  <2>1. Len(Top.args) <= macros[Top.macro].paramCount + 1
    BY <1>2, <1>4 DEF CallOK
  <2>2. Opened = Top.args
    BY <1>4 DEF Opened
  <2> QED
    BY <1>1, <2>1, <2>2
<1> QED
  BY <1>3, <1>4 DEF Frame

\* What the three actions of parse_macro_args share.
LEMMA ReadArgStep ==
  ASSUME Parts, NEW t, ReadArg(t)
  PROVE  /\ StackOK(contexts', disabled')
         /\ UNCHANGED <<macros, output, finished>>
         /\ t \in Token
         /\ frames # <<>> /\ FramesOK(frames, macros)
         /\ Top \in Frame /\ CallOK(Top, macros) /\ Top.phase = "args"
<1>1. /\ frames # <<>> /\ Top.phase = "args"
      /\ t = Peek(contexts)
      /\ contexts' = AfterRead(contexts)
      /\ disabled' = EnabledByRead(disabled, contexts)
      /\ UNCHANGED <<macros, output, finished>>
  BY DEF ReadArg, ReadingArgs
<1>2. StackOK(contexts', disabled') /\ t \in Token
  BY <1>1, ReadStep
<1>3. FramesOK(frames, macros)
  BY DEF Parts
<1> QED
  BY <1>1, <1>2, <1>3, TopProperties

LEMMA EndOfArgsKeeps == Parts /\ EndOfArgs => Parts'
<1> SUFFICES ASSUME Parts, EndOfArgs PROVE Parts'
  OBVIOUS
<1> DEFINE t == Peek(contexts)
           e == [i \in 1 .. Len(Opened) |-> <<>>]
           f == [Top EXCEPT !.phase = "subst", !.args = Opened, !.newArg = FALSE,
                            !.expanded = e]
<1>1. /\ ReadArg(t)
      /\ frames' = IF t # EOF /\ RightArgCount(Len(Opened)) THEN WithTop(f) ELSE PopFrame
  BY DEF EndOfArgs
<1> HIDE DEF t
<1>2. /\ StackOK(contexts', disabled')
      /\ UNCHANGED <<macros, output, finished>>
      /\ frames # <<>> /\ FramesOK(frames, macros)
      /\ Top \in Frame /\ CallOK(Top, macros) /\ Top.phase = "args"
  BY <1>1, ReadArgStep
<1>3. Opened \in Seq(Seq(Token)) /\ Len(Opened) <= macros[Top.macro].paramCount + 1
  BY <1>2, OpenedProperties
<1>4. CASE RightArgCount(Len(Opened)) /\ frames' = WithTop(f)
  <2>1. Len(Opened) \in Nat
    BY <1>3, LenProperties
  <2>2. e \in [1 .. Len(Opened) -> Seq(Token)]
    BY EmptySeq
  <2>3. e \in Seq(Seq(Token))
    BY <2>1, <2>2, SeqDef
  <2>4. Len(e) = Len(Opened)
    BY <2>1, <2>2, <2>3, LenProperties
  <2> HIDE DEF e
  <2>5. /\ f \in Frame
        /\ f.macro = Top.macro /\ f.phase = "subst" /\ f.args = Opened /\ f.expanded = e
    BY <1>2, <1>3, <2>3 DEF Frame
  <2> HIDE DEF f
  <2>6. macros[Top.macro] \in Macro
    BY <1>2 DEF CallOK
  <2>7. macros[Top.macro].hasParams =>
          \/ Len(Opened) = macros[Top.macro].paramCount
          \/ macros[Top.macro].isVariadic /\ Len(Opened) = macros[Top.macro].paramCount + 1
    <3> DEFINE d == macros[Top.macro]
    <3>1. d.paramCount \in Nat /\ d.isVariadic \in BOOLEAN
      BY <2>6 DEF Macro
    <3>2. CASE d.isVariadic = TRUE
      <4>1. Len(Opened) >= d.paramCount
        BY <1>4, <3>2 DEF RightArgCount, Def
      <4> HIDE DEF d
      <4>2. Len(Opened) = d.paramCount \/ Len(Opened) = d.paramCount + 1
        BY <1>3, <2>1, <3>1, <4>1 DEF d
      <4> QED
        BY <3>2, <4>2 DEF d
    <3>3. CASE d.isVariadic = FALSE
      BY <1>4, <3>3 DEF RightArgCount, Def
    <3> QED
      BY <3>1, <3>2, <3>3
  <2>8. CallOK(f, macros)
    BY <2>4, <2>5, <2>6, <2>7 DEF CallOK
  <2>9. FramesOK(frames', macros')
    BY <1>2, <1>4, <2>5, <2>8, FramesWithTop DEF WithTop
  <2> QED
    BY <1>2, <2>9 DEF Parts
<1>5. CASE frames' = PopFrame
  BY <1>2, <1>5, FramesPop DEF PopFrame, Parts
<1> QED
  BY <1>1, <1>4, <1>5

LEMMA NextArgKeeps == Parts /\ NextArg => Parts'
<1> SUFFICES ASSUME Parts, NextArg PROVE Parts'
  OBVIOUS
<1> DEFINE t == Peek(contexts)
           f == [Top EXCEPT !.args = Opened, !.newArg = TRUE]
<1>1. ReadArg(t) /\ Separates(t) /\ frames' = WithTop(f)
  BY DEF NextArg
<1> HIDE DEF t
<1>2. /\ StackOK(contexts', disabled')
      /\ UNCHANGED <<macros, output, finished>>
      /\ frames # <<>> /\ FramesOK(frames, macros)
      /\ Top \in Frame /\ CallOK(Top, macros) /\ Top.phase = "args"
  BY <1>1, ReadArgStep
<1>3. Opened \in Seq(Seq(Token)) /\ Len(Opened) <= macros[Top.macro].paramCount
  BY <1>1, <1>2, OpenedProperties DEF Separates, Def
<1>4. /\ f \in Frame
      /\ f.macro = Top.macro /\ f.phase = "args" /\ f.args = Opened /\ f.newArg = TRUE
  BY <1>2, <1>3 DEF Frame
<1> HIDE DEF f
<1>5. macros[Top.macro] \in Macro /\ macros[Top.macro].paramCount \in Nat
  BY <1>2 DEF CallOK, Macro
<1>6. CallOK(f, macros)
  BY <1>3, <1>4, <1>5 DEF CallOK
<1>7. FramesOK(frames', macros')
  BY <1>1, <1>2, <1>4, <1>6, FramesWithTop DEF WithTop
<1> QED
  BY <1>2, <1>7 DEF Parts

LEMMA ArgTokenKeeps == Parts /\ ArgToken => Parts'
<1> SUFFICES ASSUME Parts, ArgToken PROVE Parts'
  OBVIOUS
<1> DEFINE t  == Peek(contexts)
           as == [Opened EXCEPT ![Len(Opened)] = Append(@, t)]
           dp == CASE t.tag = "lparen" -> Top.depth + 1
                   [] t.tag = "rparen" -> Top.depth - 1
                   [] OTHER            -> Top.depth
           f  == [Top EXCEPT !.args = as, !.newArg = FALSE, !.depth = dp]
<1>1. /\ ReadArg(t)
      /\ ~(t.tag = "rparen" /\ Top.depth = 0)
      /\ frames' = WithTop(f)
  BY DEF ArgToken
<1> HIDE DEF t
<1>2. /\ StackOK(contexts', disabled')
      /\ UNCHANGED <<macros, output, finished>>
      /\ frames # <<>> /\ FramesOK(frames, macros)
      /\ Top \in Frame /\ CallOK(Top, macros) /\ Top.phase = "args"
      /\ t \in Token
  BY <1>1, ReadArgStep
<1>3. /\ Opened \in Seq(Seq(Token)) /\ Len(Opened) <= macros[Top.macro].paramCount + 1
      /\ Len(Opened) \in Nat
  BY <1>2, OpenedProperties, LenProperties
<1>4. as \in Seq(Seq(Token)) /\ Len(as) = Len(Opened)
  <2>1. CASE Len(Opened) = 0
    <3>1. Opened = <<>>
      BY <1>3, <2>1, EmptySeq
    <3>2. DOMAIN Opened = {}
      BY <1>3, <2>1, LenProperties
    <3>3. as = Opened
      BY <2>1, <3>2, <1>3, LenProperties
    <3> QED
      BY <1>3, <3>3
  <2>2. CASE Len(Opened) \in 1 .. Len(Opened)
    <3>1. Append(Opened[Len(Opened)], t) \in Seq(Token)
      BY <1>2, <1>3, <2>2, ElementOfSeq, AppendProperties
    <3> QED
      BY <1>3, <2>2, <3>1, ExceptSeq
  <2> QED
    BY <1>3, <2>1, <2>2
<1>5. dp \in Nat
  BY <1>1, <1>2 DEF Frame
<1> HIDE DEF as, dp
<1>6. /\ f \in Frame
      /\ f.macro = Top.macro /\ f.phase = "args" /\ f.args = as /\ f.newArg = FALSE
  BY <1>2, <1>4, <1>5 DEF Frame
<1> HIDE DEF f
<1>7. macros[Top.macro] \in Macro /\ macros[Top.macro].paramCount \in Nat
  BY <1>2 DEF CallOK, Macro
<1>8. CallOK(f, macros)
  BY <1>3, <1>4, <1>6, <1>7 DEF CallOK
<1>9. FramesOK(frames', macros')
  BY <1>1, <1>2, <1>6, <1>8, FramesWithTop DEF WithTop
<1> QED
  BY <1>2, <1>9 DEF Parts

LEMMA SubstitutedTop ==
  ASSUME Parts, Substituting
  PROVE  /\ frames # <<>> /\ FramesOK(frames, macros)
         /\ Top \in Frame /\ CallOK(Top, macros) /\ Top.phase = "subst"
         /\ Def \in Macro
<1>1. frames # <<>> /\ Top.phase = "subst" /\ FramesOK(frames, macros)
  BY DEF Substituting, Parts
<1> QED
  BY <1>1, TopProperties DEF CallOK, Def

LEMMA PasteIsToken ==
  ASSUME NEW l \in Token, NEW r \in Token
  PROVE  Paste(l, r) \in Token
<1>1. 10 * l.val + r.val \in Nat
  BY DEF Token
<1>2. Ident(10 * l.val + r.val) \in Token
  BY <1>1 DEF Ident, Token, Tags
<1> QED
  BY <1>2 DEF Paste

LEMMA AddedIsText ==
  ASSUME Top \in Frame, NEW toks \in Seq(Token)
  PROVE  Added(toks) \in Seq(Token)
<1> DEFINE r == Top.result
<1>1. r \in Seq(Token)
  BY DEF Frame
<1> HIDE DEF r
<1>2. r \o toks \in Seq(Token)
  BY <1>1, ConcatProperties
<1>3. ASSUME toks # <<>>, r # <<>>
      PROVE  SubSeq(r, 1, Len(r) - 1) \o <<Paste(r[Len(r)], Head(toks))>> \o Tail(toks)
               \in Seq(Token)
  <2>1. Len(r) \in Nat \ {0}
    BY <1>1, <1>3, EmptySeq
  <2>2. \A i \in 1 .. Len(r) : r[i] \in Token
    BY <1>1, ElementOfSeq
  <2>3. \A i \in 1 .. Len(r) - 1 : r[i] \in Token
    BY <2>1, <2>2
  <2>4. SubSeq(r, 1, Len(r) - 1) \in Seq(Token)
    BY <2>1, <2>3, SubSeqProperties
  <2>5. Head(toks) \in Token /\ Tail(toks) \in Seq(Token)
    BY <1>3, HeadTailProperties
  <2>6. Paste(r[Len(r)], Head(toks)) \in Token
    BY <2>1, <2>2, <2>5, PasteIsToken
  <2>7. <<Paste(r[Len(r)], Head(toks))>> \in Seq(Token)
    BY <2>6
  <2> HIDE DEF Paste
  <2> QED
    BY <2>4, <2>5, <2>7, ConcatProperties
<1> QED
  BY <1>2, <1>3 DEF Added, r

LEMMA AddKeeps ==
  ASSUME Parts, Substituting, NEW toks \in Seq(Token), NEW n \in Nat, Add(toks, n)
  PROVE  Parts'
<1> DEFINE r == Added(toks)
           q == Top.pos + n
           f == [Top EXCEPT !.result = r, !.concat = FALSE, !.pos = q]
<1>1. frames' = WithTop(f) /\ UNCHANGED <<macros, disabled, contexts, output, finished>>
  BY DEF Add
<1>2. /\ frames # <<>> /\ FramesOK(frames, macros)
      /\ Top \in Frame /\ CallOK(Top, macros) /\ Top.phase = "subst"
  BY SubstitutedTop
<1>3. r \in Seq(Token)
  BY <1>2, AddedIsText
<1>3a. q \in Nat \ {0}
  BY <1>2 DEF Frame
<1> HIDE DEF r, q
<1>4. /\ f \in Frame
      /\ f.macro = Top.macro /\ f.phase = "subst" /\ f.args = Top.args
      /\ f.expanded = Top.expanded
  BY <1>2, <1>3, <1>3a DEF Frame
<1> HIDE DEF f
<1>5. CallOK(f, macros)
  BY <1>2, <1>4 DEF CallOK
<1>6. FramesOK(frames', macros')
  BY <1>1, <1>2, <1>4, <1>5, FramesWithTop DEF WithTop
<1> QED
  BY <1>1, <1>6 DEF Parts, StackOK

\* The token of the body that a step of the substitution looks at.
LEMMA BodyToken ==
  ASSUME Parts, Substituting, NEW i \in 1 .. Len(Def.tokens)
  PROVE  BodyAt(i) \in Token /\ i \in DOMAIN Def.tokens
<1>1. Def.tokens \in Seq(Token)
  BY SubstitutedTop DEF Macro
<1> QED
  BY <1>1, ElementOfSeq, LenProperties DEF BodyAt

LEMMA SubstParamKeeps == Parts /\ SubstParam => Parts'
<1> SUFFICES ASSUME Parts, SubstParam PROVE Parts'
  OBVIOUS
<1> DEFINE p == BodyAt(Top.pos).val
<1>1. /\ Substituting
      /\ p \in 1 .. Len(Top.args)
      /\ Add(Top.args[p], 1) \/ Add(Top.expanded[p], 1)
  BY DEF SubstParam
<1>2. Top \in Frame /\ CallOK(Top, macros) /\ Top.phase = "subst"
  BY <1>1, SubstitutedTop
<1> HIDE DEF p
<1>3. /\ Top.args \in Seq(Seq(Token)) /\ Top.expanded \in Seq(Seq(Token))
      /\ Len(Top.expanded) = Len(Top.args)
  BY <1>2 DEF Frame, CallOK
<1>4. Top.args[p] \in Seq(Token) /\ Top.expanded[p] \in Seq(Token)
  BY <1>1, <1>3, ElementOfSeq
<1> QED
  BY <1>1, <1>4, AddKeeps

LEMMA SubstStringifyKeeps == Parts /\ SubstStringify => Parts'
<1> SUFFICES ASSUME Parts, SubstStringify PROVE Parts'
  OBVIOUS
<1>1. Substituting /\ Add(<<Tag("string")>>, 2)
  BY DEF SubstStringify
<1>2. Tag("string") \in Token
  BY DEF Tag, Token, Tags
<1>3. <<Tag("string")>> \in Seq(Token)
  BY <1>2
<1> QED
  BY <1>1, <1>3, AddKeeps

LEMMA SubstPlainKeeps == Parts /\ SubstPlain => Parts'
<1> SUFFICES ASSUME Parts, SubstPlain PROVE Parts'
  OBVIOUS
<1>1. Substituting /\ Top.pos <= Len(Def.tokens) /\ Add(<<BodyAt(Top.pos)>>, 1)
  BY DEF SubstPlain
<1>2. Top.pos \in Nat \ {0} /\ Len(Def.tokens) \in Nat
  BY <1>1, SubstitutedTop, LenProperties DEF Frame, Macro
<1>3. BodyAt(Top.pos) \in Token
  BY <1>1, <1>2, BodyToken
<1>4. <<BodyAt(Top.pos)>> \in Seq(Token)
  BY <1>3
<1> QED
  BY <1>1, <1>4, AddKeeps

LEMMA SubstMissingKeeps == Parts /\ SubstMissing => Parts'
<1> SUFFICES ASSUME Parts, SubstMissing PROVE Parts'
  OBVIOUS
<1> DEFINE q == Top.pos + 1
           f == [Top EXCEPT !.pos = q]
<1>1. /\ Substituting
      /\ frames' = WithTop(f)
      /\ UNCHANGED <<macros, disabled, contexts, output, finished>>
  BY DEF SubstMissing
<1>2. /\ frames # <<>> /\ FramesOK(frames, macros)
      /\ Top \in Frame /\ CallOK(Top, macros) /\ Top.phase = "subst"
  BY <1>1, SubstitutedTop
<1>3. q \in Nat \ {0}
  BY <1>2 DEF Frame
<1> HIDE DEF q
<1>4. /\ f \in Frame
      /\ f.macro = Top.macro /\ f.phase = "subst" /\ f.args = Top.args
      /\ f.expanded = Top.expanded
  BY <1>2, <1>3 DEF Frame
<1> HIDE DEF f
<1>5. CallOK(f, macros)
  BY <1>2, <1>4 DEF CallOK
<1>6. FramesOK(frames', macros')
  BY <1>1, <1>2, <1>4, <1>5, FramesWithTop DEF WithTop
<1> QED
  BY <1>1, <1>6 DEF Parts, StackOK

LEMMA SubstConcatKeeps == Parts /\ SubstConcat => Parts'
<1> SUFFICES ASSUME Parts, SubstConcat PROVE Parts'
  OBVIOUS
<1> DEFINE q == Top.pos + 1
           f == [Top EXCEPT !.concat = TRUE, !.pos = q]
<1>1. /\ Substituting
      /\ frames' = WithTop(f)
      /\ UNCHANGED <<macros, disabled, contexts, output, finished>>
  BY DEF SubstConcat
<1>2. /\ frames # <<>> /\ FramesOK(frames, macros)
      /\ Top \in Frame /\ CallOK(Top, macros) /\ Top.phase = "subst"
  BY <1>1, SubstitutedTop
<1>3. q \in Nat \ {0}
  BY <1>2 DEF Frame
<1> HIDE DEF q
<1>4. /\ f \in Frame
      /\ f.macro = Top.macro /\ f.phase = "subst" /\ f.args = Top.args
      /\ f.expanded = Top.expanded
  BY <1>2, <1>3 DEF Frame
<1> HIDE DEF f
<1>5. CallOK(f, macros)
  BY <1>2, <1>4 DEF CallOK
<1>6. FramesOK(frames', macros')
  BY <1>1, <1>2, <1>4, <1>5, FramesWithTop DEF WithTop
<1> QED
  BY <1>1, <1>6 DEF Parts, StackOK

LEMMA ExpandArgKeeps == Parts /\ ExpandArg => Parts'
<1> SUFFICES ASSUME Parts, ExpandArg PROVE Parts'
  OBVIOUS
<1> DEFINE p == BodyAt(Top.pos).val
           b == Len(contexts) + 1
           f == [Top EXCEPT !.phase = "argexp", !.base = b]
<1>1. /\ Substituting
      /\ IsTag(Top.pos, "param")
      /\ p \in 1 .. Len(Top.args)
      /\ contexts' = Append(contexts, Buffer(NoMacro, Append(Top.args[p], STOP)))
      /\ frames' = WithTop(f)
      /\ UNCHANGED <<macros, disabled, output, finished>>
  BY DEF ExpandArg, Pushed
<1>2. /\ frames # <<>> /\ FramesOK(frames, macros)
      /\ Top \in Frame /\ CallOK(Top, macros) /\ Top.phase = "subst" /\ Def \in Macro
  BY <1>1, SubstitutedTop
<1>3. Append(Top.args[p], STOP) \in Seq(Token)
  <2>1. Top.args \in Seq(Seq(Token))
    BY <1>2 DEF Frame
  <2>2. STOP \in Token
    BY DEF STOP, Tag, Token, Tags
  <2>3. Top.args[p] \in Seq(Token)
    BY <1>1, <2>1, ElementOfSeq
  <2> HIDE DEF p
  <2> QED
    BY <2>2, <2>3, AppendProperties
<1>4. StackOK(contexts', disabled')
  <2> DEFINE ts == Append(Top.args[p], STOP)
  <2> HIDE DEF ts
  <2>1. StackOK(Append(contexts, Buffer(NoMacro, ts)), disabled \cup {})
    BY <1>3, StackPush DEF Parts, ts
  <2>2. disabled \cup {} = disabled
    OBVIOUS
  <2> QED
    BY <1>1, <2>1, <2>2 DEF ts
<1>5. p \in 1 .. Len(Top.args) /\ Top.pos \in DOMAIN Def.tokens
  <2>1. Def.tokens \in Seq(Token)
    BY <1>2 DEF Macro
  <2>2. Top.pos \in 1 .. Len(Def.tokens)
    BY <1>1 DEF IsTag
  <2> QED
    BY <1>1, <2>1, <2>2, LenProperties
<1>6. b \in Nat
  BY LenProperties DEF Parts, StackOK
<1> HIDE DEF b
<1>7. /\ f \in Frame
      /\ f.macro = Top.macro /\ f.phase = "argexp" /\ f.args = Top.args
      /\ f.expanded = Top.expanded /\ f.pos = Top.pos
  BY <1>2, <1>6 DEF Frame
<1> HIDE DEF f
<1>8. CallOK(f, macros)
  BY <1>2, <1>5, <1>7 DEF CallOK, BodyAt, Def
<1>9. FramesOK(frames', macros')
  BY <1>1, <1>2, <1>7, <1>8, FramesWithTop DEF WithTop
<1> QED
  BY <1>1, <1>4, <1>9 DEF Parts

LEMMA PushExpansionKeeps == Parts /\ PushExpansion => Parts'
<1> SUFFICES ASSUME Parts, PushExpansion PROVE Parts'
  OBVIOUS
<1>1. /\ Substituting
      /\ contexts' = Append(contexts, Buffer(Top.macro, Top.result))
      /\ disabled' = disabled \cup {Top.macro}
      /\ frames' = PopFrame
      /\ UNCHANGED <<macros, output, finished>>
  BY DEF PushExpansion
<1>2. frames # <<>> /\ FramesOK(frames, macros) /\ Top \in Frame
  BY <1>1, SubstitutedTop
<1>3. Top.macro \in MacroNames /\ Top.macro # NoMacro /\ Top.result \in Seq(Token)
  BY <1>2, NamesAssumption DEF Frame, NoMacro
<1>4. StackOK(contexts', disabled')
  BY <1>1, <1>3, StackPush DEF Parts
<1>5. FramesOK(frames', macros')
  BY <1>1, <1>2, FramesPop DEF PopFrame
<1> QED
  BY <1>1, <1>4, <1>5 DEF Parts

-----------------------------------------------------------------------------
LEMMA StepKeepsParts == Parts /\ [Next]_vars => Parts'
<1> SUFFICES ASSUME Parts, [Next]_vars PROVE Parts'
  OBVIOUS
<1>1. CASE UNCHANGED vars
  BY <1>1 DEF vars, Parts, StackOK
<1>2. CASE Next
  BY <1>2, ExpandCallbackKeeps, ExpandObjectLikeKeeps, ExpandFunctionLikeKeeps,
     ArgumentTokenKeeps, ReturnTokenKeeps, DefineKeeps, UndefKeeps, IncludeKeeps,
     EndOfArgsKeeps, NextArgKeeps, ArgTokenKeeps, SubstMissingKeeps, SubstParamKeeps,
     ExpandArgKeeps, SubstConcatKeeps, SubstStringifyKeeps, SubstPlainKeeps,
     PushExpansionKeeps, Zenon DEF Next
<1> QED
  BY <1>1, <1>2

\* Whatever macros and files: the types hold, every call in progress has as many
\* arguments as expand_macro_with_args asserts, disabled macros are on the stack
\* and source files below the token buffers.
THEOREM Invariance == Spec => []IInv
<1>1. Init => Parts
  BY InitParts
<1>2. Parts /\ [Next]_vars => Parts'
  BY StepKeepsParts
<1>3. Parts <=> IInv
  BY PartsAreIInv
<1> QED
  BY <1>1, <1>2, <1>3, PTL DEF Spec

\* A macro that is disabled has an expansion on the context stack, so it is
\* enabled again when the stack is back to source files.
THEOREM NoMacroLeftDisabled == Spec => []DisabledOnStack
<1>1. IInv => DisabledOnStack
  BY DEF IInv
<1> QED
  BY <1>1, Invariance, PTL

\* The assertion on the number of arguments in expand_macro_with_args holds.
THEOREM ArgumentCount == Spec => []ArgumentsMatch
<1>1. IInv => ArgumentsMatch
  BY DEF IInv
<1> QED
  BY <1>1, Invariance, PTL

\* No definition is freed or written over while an expansion of the macro is on
\* the stack or a call is in progress.
THEOREM EditsAreSafe == Spec => EditsOnlyUnusedMacros
<1> DEFINE Safe == \A m \in MacroNames :
                     macros'[m] # macros[m] => m \notin OnStack' /\ frames = <<>>
<1>1. ASSUME Parts, NEW tag, Directive(tag), contexts' = AfterRead(AfterRead(contexts))
      PROVE  Safe
  BY <1>1, DirectiveRead DEF OnStack
<1>2. ASSUME Parts, [Next]_vars PROVE Safe
  <2>1. CASE Define
    BY <1>1, <1>2, <2>1 DEF Define
  <2>2. CASE Undef
    BY <1>1, <1>2, <2>2 DEF Undef
  <2>3. CASE UNCHANGED macros
    BY <2>3
  <2>4. Define \/ Undef \/ UNCHANGED macros
    BY <1>2 DEF Next, vars, ExpandCallback, ExpandObjectLike, ExpandFunctionLike,
                ArgumentToken, ReturnToken, Include, EndOfArgs, NextArg, ArgToken, ReadArg,
                SubstMissing, SubstParam, ExpandArg, SubstConcat, SubstStringify,
                SubstPlain, PushExpansion, Add
  <2> QED
    BY <2>1, <2>2, <2>3, <2>4
<1>3. Parts /\ [Next]_vars => [Safe]_vars
  BY <1>2
<1>4. IInv <=> Parts
  BY PartsAreIInv
<1> QED
  BY <1>3, <1>4, Invariance, PTL DEF Spec, EditsOnlyUnusedMacros

-----------------------------------------------------------------------------
(* Markers at the ends of arguments. *)

LEMMA CleanSequences ==
  ASSUME NEW s \in Seq(Token), Clean(s)
  PROVE  /\ s # <<>> => Head(s) # STOP /\ Clean(Tail(s)) /\ Clean(SubSeq(s, 1, Len(s) - 1))
         /\ s # <<>> => s[Len(s)] # STOP
         /\ \A t \in Token : t # STOP => Clean(Append(s, t))
         /\ Marked(Append(s, STOP))
         /\ \A r \in Seq(Token) : Clean(r) => Clean(s \o r)
<1>1. DOMAIN s = 1 .. Len(s) /\ Len(s) \in Nat /\ \A i \in 1 .. Len(s) : s[i] # STOP
  BY LenProperties DEF Clean
<1>2. ASSUME s # <<>>
      PROVE  /\ Head(s) # STOP /\ Clean(Tail(s)) /\ Clean(SubSeq(s, 1, Len(s) - 1))
             /\ s[Len(s)] # STOP
  <2>1. Len(s) \in 1 .. Len(s) /\ 1 \in 1 .. Len(s)
    BY <1>1, <1>2, EmptySeq
  <2>2. Head(s) = s[1] /\ Tail(s) \in Seq(Token) /\ Len(Tail(s)) = Len(s) - 1
        /\ \A i \in 1 .. Len(Tail(s)) : Tail(s)[i] = s[i + 1]
    BY <1>2, HeadTailProperties
  <2>3. PICK r : r = Tail(s)
    OBVIOUS
  <2>4. Clean(r)
    <3>1. DOMAIN r = 1 .. Len(s) - 1 /\ \A i \in 1 .. Len(s) - 1 : r[i] = s[i + 1]
      BY <2>2, <2>3, LenProperties
    <3>2. \A i \in 1 .. Len(s) - 1 : i + 1 \in 1 .. Len(s)
      BY <1>1
    <3> QED
      BY <1>1, <3>1, <3>2 DEF Clean
  <2>5. PICK q : q = SubSeq(s, 1, Len(s) - 1)
    OBVIOUS
  <2>6. Clean(q)
    <3>1. q \in Seq(Token) /\ Len(q) = Len(s) - 1 /\ \A i \in 1 .. Len(s) - 1 : q[i] = s[i]
      BY <1>2, <2>5, FrontOfSeq
    <3>2. DOMAIN q = 1 .. Len(s) - 1
      BY <3>1, LenProperties
    <3> QED
      BY <1>1, <3>1, <3>2 DEF Clean
  <2> QED
    BY <1>1, <2>1, <2>2, <2>3, <2>4, <2>5, <2>6
<1>3. STOP \in Token
  BY DEF STOP, Tag, Token, Tags
<1>4. ASSUME NEW t \in Token, NEW r, r = Append(s, t)
      PROVE  /\ r \in Seq(Token) /\ DOMAIN r = 1 .. Len(s) + 1 /\ Len(r) = Len(s) + 1
             /\ r[Len(s) + 1] = t /\ \A i \in 1 .. Len(s) : r[i] # STOP
  BY <1>1, <1>4, AppendProperties, LenProperties
<1>5. ASSUME NEW t \in Token, t # STOP PROVE Clean(Append(s, t))
  <2>1. PICK r : r = Append(s, t)
    OBVIOUS
  <2>2. /\ DOMAIN r = 1 .. Len(s) + 1 /\ r[Len(s) + 1] = t /\ \A i \in 1 .. Len(s) : r[i] # STOP
    BY <1>4, <2>1
  <2>3. \A i \in 1 .. Len(s) + 1 : r[i] # STOP
    BY <1>1, <1>5, <2>2
  <2> QED
    BY <2>1, <2>2, <2>3 DEF Clean
<1>6. Marked(Append(s, STOP))
  <2>1. PICK r : r = Append(s, STOP)
    OBVIOUS
  <2>2. /\ r \in Seq(Token) /\ Len(r) = Len(s) + 1 /\ r[Len(s) + 1] = STOP
        /\ \A i \in 1 .. Len(s) : r[i] # STOP
    BY <1>3, <1>4, <2>1
  <2>3. r # <<>> /\ Len(r) - 1 = Len(s)
    BY <1>1, <2>2, EmptySeq
  <2> QED
    BY <2>1, <2>2, <2>3 DEF Marked
<1>7. ASSUME NEW r \in Seq(Token), Clean(r) PROVE Clean(s \o r)
  <2>1. PICK q : q = s \o r
    OBVIOUS
  <2>2. /\ q \in Seq(Token) /\ Len(q) = Len(s) + Len(r)
        /\ \A i \in 1 .. Len(s) + Len(r) : q[i] = IF i <= Len(s) THEN s[i] ELSE r[i - Len(s)]
    BY <2>1, ConcatProperties
  <2>3. DOMAIN r = 1 .. Len(r) /\ Len(r) \in Nat /\ \A i \in 1 .. Len(r) : r[i] # STOP
    BY <1>7, LenProperties DEF Clean
  <2>4. DOMAIN q = 1 .. Len(s) + Len(r)
    BY <2>2, LenProperties
  <2>5. ASSUME NEW i \in 1 .. Len(s) + Len(r) PROVE q[i] # STOP
    <3>1. CASE i <= Len(s)
      BY <1>1, <2>2, <3>1
    <3>2. CASE ~(i <= Len(s))
      <4>1. i - Len(s) \in 1 .. Len(r)
        BY <1>1, <2>3, <3>2
      <4> QED
        BY <2>2, <2>3, <3>2, <4>1
    <3> QED
      BY <3>1, <3>2
  <2> QED
    BY <2>1, <2>4, <2>5 DEF Clean
<1> QED
  BY <1>2, <1>5, <1>6, <1>7

\* Reading from the text of an argument leaves its marker, or nothing.
LEMMA MarkedSequences ==
  ASSUME NEW s \in Seq(Token), Marked(s)
  PROVE  /\ ~Clean(s)
         /\ Head(s) # STOP => Marked(Tail(s))
         /\ Head(s) = STOP => Clean(Tail(s))
<1>1. /\ DOMAIN s = 1 .. Len(s) /\ Len(s) \in Nat /\ Len(s) \in 1 .. Len(s)
      /\ s # <<>> /\ s[Len(s)] = STOP /\ \A i \in 1 .. Len(s) - 1 : s[i] # STOP
  BY LenProperties, EmptySeq DEF Marked
<1>2. PICK r : r = Tail(s)
  OBVIOUS
<1>3. /\ Head(s) = s[1] /\ r \in Seq(Token) /\ Len(r) = Len(s) - 1
      /\ \A i \in 1 .. Len(s) - 1 : r[i] = s[i + 1]
  BY <1>1, <1>2, HeadTailProperties
<1>4. DOMAIN r = 1 .. Len(s) - 1
  BY <1>3, LenProperties
<1>5. ~Clean(s)
  BY <1>1 DEF Clean
<1>6. ASSUME Head(s) # STOP PROVE Marked(r)
  <2>1. Len(s) # 1
    BY <1>1, <1>3, <1>6
  <2>2. Len(s) - 1 \in 1 .. Len(s) - 1 /\ (Len(s) - 1) + 1 = Len(s)
    BY <1>1, <2>1
  <2>3. r[Len(s) - 1] = STOP
    BY <1>1, <1>3, <2>2
  <2>4. r # <<>>
    BY <1>3, <2>2, EmptySeq
  <2>5. ASSUME NEW i \in 1 .. (Len(s) - 1) - 1 PROVE r[i] # STOP
    <3>1. i \in 1 .. Len(s) - 1 /\ i + 1 \in 1 .. Len(s) - 1
      BY <1>1
    <3> QED
      BY <1>1, <1>3, <3>1
  <2> QED
    BY <1>3, <2>3, <2>4, <2>5 DEF Marked
<1>7. ASSUME Head(s) = STOP PROVE Clean(r)
  <2>1. Len(s) = 1
    <3> SUFFICES ASSUME Len(s) # 1 PROVE FALSE
      OBVIOUS
    <3>1. 1 \in 1 .. Len(s) - 1
      BY <1>1
    <3> QED
      BY <1>1, <1>3, <1>7, <3>1
  <2> QED
    BY <1>4, <2>1 DEF Clean
<1> QED
  BY <1>2, <1>5, <1>6, <1>7

\* What a read makes of the contexts cs, whose source is k, is rs.
ReadGives(cs, k, rs) ==
  /\ k \in 1 .. Len(cs) /\ Len(cs) \in Nat
  /\ rs \in Seq(Context) /\ rs # <<>> /\ Len(rs) = k
  /\ DOMAIN cs = 1 .. Len(cs) /\ DOMAIN rs = 1 .. k
  /\ \A i \in 1 .. k : rs[i].macro = cs[i].macro /\ (i # k => rs[i].toks = cs[i].toks)
  /\ \A i \in 1 .. Len(cs) : cs[i].toks \in Seq(Token) /\ (i > k => cs[i].toks = <<>>)
  /\ \/ cs[k].toks = <<>> /\ Peek(cs) = EOF /\ rs[k].toks = <<>>
     \/ cs[k].toks # <<>> /\ Peek(cs) = Head(cs[k].toks) /\ rs[k].toks = Tail(cs[k].toks)

\* What a read takes, and what it leaves of each text.
LEMMA ReadTexts ==
  ASSUME NEW cs \in Seq(Context), cs # <<>>, NEW k, k = Source(cs), NEW rs, rs = AfterRead(cs)
  PROVE  ReadGives(cs, k, rs)
<1>1. /\ k \in 1 .. Len(cs) /\ Len(cs) \in Nat /\ DOMAIN cs = 1 .. Len(cs)
      /\ \A j \in 1 .. Len(cs) : j > k => ~HasUnread(cs, j)
  BY SourceProperties, LenProperties
<1>2. /\ rs \in Seq(Context) /\ rs # <<>> /\ Len(rs) = k
      /\ \A i \in 1 .. k : rs[i].macro = cs[i].macro
  BY ReadProperties
<1>3. DOMAIN rs = 1 .. k
  BY <1>2, LenProperties
<1>4. \A i \in 1 .. Len(cs) : cs[i] \in Context
  BY ElementOfSeq
<1>5. \A i \in 1 .. Len(cs) : cs[i].toks \in Seq(Token) /\ (i > k => cs[i].toks = <<>>)
  BY <1>1, <1>4 DEF Context, HasUnread
<1>6. \A i \in 1 .. k : rs[i] = IF i = k /\ cs[k].toks # <<>> THEN [cs[k] EXCEPT !.toks = Tail(@)] ELSE cs[i]
  BY DEF AfterRead
<1>7. \A i \in 1 .. k : i # k => rs[i].toks = cs[i].toks
  BY <1>6
<1>8. CASE cs[k].toks = <<>>
  <2>1. Peek(cs) = EOF /\ rs[k].toks = <<>>
    BY <1>1, <1>6, <1>8 DEF Peek
  <2> QED
    BY <1>1, <1>2, <1>3, <1>5, <1>7, <1>8, <2>1 DEF ReadGives
<1>9. CASE cs[k].toks # <<>>
  <2>1. rs[k] = [cs[k] EXCEPT !.toks = Tail(@)] /\ k \in 1 .. Len(cs)
    BY <1>1, <1>6, <1>9
  <2>2. cs[k] \in Context
    BY <1>1, <1>4
  <2>3. rs[k].toks = Tail(cs[k].toks)
    BY <2>1, <2>2 DEF Context
  <2>4. Peek(cs) = Head(cs[k].toks)
    BY <1>9 DEF Peek
  <2> QED
    BY <1>1, <1>2, <1>3, <1>5, <1>7, <1>9, <2>3, <2>4 DEF ReadGives
<1> QED
  BY <1>8, <1>9

-----------------------------------------------------------------------------
(* Calls and the contexts of their arguments. *)

Nested(cs, fs) == CallsNest(cs, fs) /\ MarkersAreBases(cs, fs) /\ CallsAreFresh(cs, fs)

AllExpand(fs) == \A k \in DOMAIN fs : IsExpanding(fs[k])

LEMMA NestRead ==
  ASSUME NEW cs \in Seq(Context), cs # <<>>, NEW fs, Nested(cs, fs), Peek(cs) # STOP
  PROVE  Nested(AfterRead(cs), fs)
<1>0. PICK k, rs : k = Source(cs) /\ rs = AfterRead(cs)
  OBVIOUS
<1>a. ReadGives(cs, k, rs)
  BY <1>0, ReadTexts
<1>1. /\ k \in 1 .. Len(cs) /\ Len(cs) \in Nat /\ Len(rs) = k
      /\ DOMAIN cs = 1 .. Len(cs) /\ DOMAIN rs = 1 .. k
      /\ \A i \in 1 .. k : rs[i].macro = cs[i].macro /\ (i # k => rs[i].toks = cs[i].toks)
      /\ \A i \in 1 .. Len(cs) : cs[i].toks \in Seq(Token) /\ (i > k => cs[i].toks = <<>>)
      /\ \/ cs[k].toks = <<>> /\ rs[k].toks = <<>>
         \/ cs[k].toks # <<>> /\ Peek(cs) = Head(cs[k].toks) /\ rs[k].toks = Tail(cs[k].toks)
  BY <1>a DEF ReadGives
<1>2. ASSUME NEW j \in DOMAIN fs, IsExpanding(fs[j])
      PROVE  fs[j].base \in 2 .. k /\ Marked(rs[fs[j].base].toks)
  <2>1. PICK b : b = fs[j].base
    OBVIOUS
  <2>2. b \in 2 .. Len(cs) /\ Marked(cs[b].toks) /\ cs[b].toks # <<>>
    BY <1>2, <2>1 DEF Nested, CallsNest, Marked
  <2>3. b \in 2 .. k
    BY <1>1, <2>2
  <2>4. CASE b = k
    BY <1>1, <2>1, <2>2, <2>3, <2>4, MarkedSequences
  <2>5. CASE b # k
    <3>1. rs[b].toks = cs[b].toks
      BY <1>1, <2>3, <2>5
    <3> QED
      BY <2>1, <2>2, <2>3, <3>1
  <2> QED
    BY <2>4, <2>5
<1>3. CallsNest(rs, fs)
  BY <1>1, <1>2 DEF Nested, CallsNest
<1>4. MarkersAreBases(rs, fs)
  <2> SUFFICES ASSUME NEW i \in 1 .. k, ~\E j \in DOMAIN fs : IsExpanding(fs[j]) /\ fs[j].base = i
               PROVE  Clean(rs[i].toks)
    BY <1>1 DEF MarkersAreBases
  <2>1. i \in 1 .. Len(cs) /\ Clean(cs[i].toks)
    BY <1>1 DEF Nested, MarkersAreBases
  <2>2. CASE i # k
    BY <1>1, <2>1, <2>2
  <2>3. CASE i = k
    BY <1>1, <2>1, <2>3, CleanSequences
  <2> QED
    BY <2>2, <2>3
<1>5. CallsAreFresh(rs, fs)
  <2>1. \A i \in 1 .. k : i \in 1 .. Len(cs)
    BY <1>1
  <2> QED
    BY <1>1, <2>1 DEF Nested, CallsAreFresh
<1> QED
  BY <1>0, <1>3, <1>4, <1>5 DEF Nested

\* Replacing the innermost call.
LEMMA TopReplaced ==
  ASSUME NEW fs \in Seq(Frame), fs # <<>>, NEW n, n = Len(fs), NEW f,
         NEW gs \in Seq(Frame), gs = [fs EXCEPT ![n] = f]
  PROVE  /\ DOMAIN fs = 1 .. n /\ DOMAIN gs = 1 .. n /\ Len(gs) = n
         /\ n \in 1 .. n /\ n \in Nat
         /\ gs[n] = f /\ \A k \in 1 .. n : k < n => gs[k] = fs[k]
<1>1. n \in Nat /\ n \in 1 .. n /\ DOMAIN fs = 1 .. n
  BY EmptySeq, LenProperties
<1>2. DOMAIN gs = 1 .. n
  BY <1>1
<1>3. gs[n] = f /\ \A k \in 1 .. n : k < n => gs[k] = fs[k]
  BY <1>1
<1>4. Len(gs) = n
  BY <1>1, <1>2, LenProperties
<1> QED
  BY <1>1, <1>2, <1>3, <1>4

\* The marker is read once what is above its buffer has been: it ends the argument
\* of the innermost call.
LEMMA NestStop ==
  ASSUME NEW cs \in Seq(Context), cs # <<>>, NEW fs \in Seq(Frame), fs # <<>>, Nested(cs, fs),
         Peek(cs) = STOP, IsExpanding(fs[Len(fs)]),
         NEW f, ~IsExpanding(f), f.macro = fs[Len(fs)].macro,
         NEW gs \in Seq(Frame), gs = [fs EXCEPT ![Len(fs)] = f]
  PROVE  Nested(AfterRead(cs), gs)
<1>0. PICK k, rs, n : k = Source(cs) /\ rs = AfterRead(cs) /\ n = Len(fs)
  OBVIOUS
<1>a. ReadGives(cs, k, rs)
  BY <1>0, ReadTexts
<1>1. /\ k \in 1 .. Len(cs) /\ Len(cs) \in Nat /\ Len(rs) = k
      /\ DOMAIN cs = 1 .. Len(cs) /\ DOMAIN rs = 1 .. k
      /\ \A i \in 1 .. k : rs[i].macro = cs[i].macro /\ (i # k => rs[i].toks = cs[i].toks)
      /\ \A i \in 1 .. Len(cs) : cs[i].toks \in Seq(Token) /\ (i > k => cs[i].toks = <<>>)
      /\ \/ cs[k].toks = <<>> /\ Peek(cs) = EOF /\ rs[k].toks = <<>>
         \/ cs[k].toks # <<>> /\ Peek(cs) = Head(cs[k].toks) /\ rs[k].toks = Tail(cs[k].toks)
  BY <1>a DEF ReadGives
<1>2. /\ DOMAIN fs = 1 .. n /\ DOMAIN gs = 1 .. n /\ Len(gs) = n /\ n \in 1 .. n /\ n \in Nat
      /\ gs[n] = f /\ \A j \in 1 .. n : j < n => gs[j] = fs[j]
  BY <1>0, TopReplaced
<1>3. cs[k].toks # <<>> /\ STOP = Head(cs[k].toks) /\ rs[k].toks = Tail(cs[k].toks)
  BY <1>1 DEF STOP, EOF, Tag
<1>4. PICK b : b = fs[n].base
  OBVIOUS
<1>5. b \in 2 .. Len(cs) /\ Marked(cs[b].toks) /\ cs[b].toks # <<>>
  BY <1>0, <1>2, <1>4 DEF Nested, CallsNest, Marked
<1>6. b <= k
  BY <1>1, <1>5
<1>7. k = b
  <2>1. ~Clean(cs[k].toks)
    BY <1>1, <1>3, CleanSequences
  <2>2. PICK j \in 1 .. n : IsExpanding(fs[j]) /\ fs[j].base = k
    BY <1>1, <1>2, <2>1 DEF Nested, MarkersAreBases
  <2>3. CASE j < n
    <3>1. fs[j].base < fs[n].base
      BY <1>0, <1>2, <2>2, <2>3 DEF Nested, CallsNest
    <3> QED
      BY <1>1, <1>4, <1>5, <1>6, <2>2, <3>1
  <2>4. CASE j = n
    BY <1>4, <2>2, <2>4
  <2> QED
    BY <1>2, <2>3, <2>4
<1>8. Clean(rs[k].toks)
  BY <1>1, <1>3, <1>5, <1>7, MarkedSequences
<1>9. ASSUME NEW j \in 1 .. n, IsExpanding(gs[j])
      PROVE  /\ j < n /\ gs[j] = fs[j]
             /\ gs[j].base \in 2 .. k /\ gs[j].base < k /\ Marked(rs[gs[j].base].toks)
  <2>1. j < n /\ gs[j] = fs[j]
    BY <1>2, <1>9
  <2>2. PICK c : c = fs[j].base
    OBVIOUS
  <2>3. c \in 2 .. Len(cs) /\ Marked(cs[c].toks) /\ c < b
    BY <1>0, <1>2, <1>4, <1>9, <2>1, <2>2 DEF Nested, CallsNest
  <2>4. c \in 1 .. k /\ c # k /\ c \in 2 .. k /\ c < k
    BY <1>1, <1>7, <2>3
  <2> QED
    BY <1>1, <2>1, <2>2, <2>3, <2>4
<1>10. CallsNest(rs, gs)
  <2>1. \A j \in 1 .. n : j < n => IsExpanding(gs[j])
    BY <1>0, <1>2 DEF Nested, CallsNest
  <2>2. \A j, l \in 1 .. n : j < l /\ IsExpanding(gs[j]) /\ IsExpanding(gs[l]) => gs[j].base < gs[l].base
    <3> SUFFICES ASSUME NEW j \in 1 .. n, NEW l \in 1 .. n, j < l,
                        IsExpanding(gs[j]), IsExpanding(gs[l])
                 PROVE  gs[j].base < gs[l].base
      OBVIOUS
    <3>1. gs[j] = fs[j] /\ gs[l] = fs[l]
      BY <1>9
    <3>2. IsExpanding(fs[j]) /\ IsExpanding(fs[l]) /\ j \in DOMAIN fs /\ l \in DOMAIN fs
      BY <1>2, <3>1
    <3>3. fs[j].base < fs[l].base
      BY <3>2 DEF Nested, CallsNest
    <3> QED
      BY <3>1, <3>3
  <2>3. \A j \in 1 .. n : IsExpanding(gs[j]) =>
           gs[j].base \in 2 .. k /\ Marked(rs[gs[j].base].toks)
    BY <1>9
  <2> QED
    BY <1>1, <1>2, <2>1, <2>2, <2>3, SMTT(20) DEF CallsNest
<1>11. MarkersAreBases(rs, gs)
  <2> SUFFICES ASSUME NEW i \in 1 .. k, ~Clean(rs[i].toks)
               PROVE  \E j \in 1 .. n : IsExpanding(gs[j]) /\ gs[j].base = i
    BY <1>1, <1>2 DEF MarkersAreBases
  <2>1. i # k /\ i \in 1 .. Len(cs) /\ ~Clean(cs[i].toks)
    BY <1>1, <1>8, SMTT(20)
  <2>2. PICK j \in 1 .. n : IsExpanding(fs[j]) /\ fs[j].base = i
    BY <1>1, <1>2, <2>1 DEF Nested, MarkersAreBases
  <2>3. j # n
    BY <1>4, <1>7, <2>1, <2>2
  <2> QED
    BY <1>2, <2>2, <2>3
<1>12. CallsAreFresh(rs, gs)
  <2> SUFFICES ASSUME NEW j \in 1 .. n, NEW i \in 1 .. k, rs[i].macro = gs[j].macro
               PROVE  IsExpanding(gs[j]) /\ gs[j].base < i
    BY <1>1, <1>2 DEF CallsAreFresh
  <2>1. gs[j].macro = fs[j].macro /\ i \in 1 .. Len(cs) /\ rs[i].macro = cs[i].macro
    BY <1>0, <1>1, <1>2
  <2>2. IsExpanding(fs[j]) /\ fs[j].base < i
    BY <1>1, <1>2, <2>1 DEF Nested, CallsAreFresh
  <2>3. j # n
    BY <1>1, <1>4, <1>7, <2>2
  <2> QED
    BY <1>2, <2>2, <2>3
<1> QED
  BY <1>0, <1>10, <1>11, <1>12 DEF Nested

\* A call goes on, in the same argument or in none.
LEMMA NestTop ==
  ASSUME NEW cs, NEW fs \in Seq(Frame), fs # <<>>, Nested(cs, fs),
         NEW f, f.macro = fs[Len(fs)].macro, IsExpanding(f) <=> IsExpanding(fs[Len(fs)]),
         f.base = fs[Len(fs)].base,
         NEW gs \in Seq(Frame), gs = [fs EXCEPT ![Len(fs)] = f]
  PROVE  Nested(cs, gs)
<1>0. PICK n : n = Len(fs)
  OBVIOUS
<1>1. /\ DOMAIN fs = 1 .. n /\ DOMAIN gs = 1 .. n /\ Len(gs) = n /\ n \in 1 .. n /\ n \in Nat
      /\ gs[n] = f /\ \A j \in 1 .. n : j < n => gs[j] = fs[j]
  BY <1>0, TopReplaced
<1>2. ASSUME NEW j \in 1 .. n
      PROVE  /\ gs[j].macro = fs[j].macro /\ gs[j].base = fs[j].base
             /\ IsExpanding(gs[j]) <=> IsExpanding(fs[j])
  <2>1. CASE j = n
    BY <1>0, <1>1, <2>1
  <2>2. CASE j < n
    BY <1>1, <2>2
  <2> QED
    BY <1>1, <2>1, <2>2
<1>3. CallsNest(cs, gs)
  BY <1>0, <1>1, <1>2, SMTT(20) DEF Nested, CallsNest
<1>4. MarkersAreBases(cs, gs)
  BY <1>1, <1>2 DEF Nested, MarkersAreBases
<1>5. CallsAreFresh(cs, gs)
  BY <1>1, <1>2 DEF Nested, CallsAreFresh
<1> QED
  BY <1>0, <1>3, <1>4, <1>5 DEF Nested

\* A call ends.
LEMMA NestPop ==
  ASSUME NEW cs, NEW fs \in Seq(Frame), fs # <<>>, Nested(cs, fs), ~IsExpanding(fs[Len(fs)])
  PROVE  Nested(cs, SubSeq(fs, 1, Len(fs) - 1)) /\ AllExpand(SubSeq(fs, 1, Len(fs) - 1))
<1>0. PICK gs, n : gs = SubSeq(fs, 1, Len(fs) - 1) /\ n = Len(fs)
  OBVIOUS
<1>1. n \in Nat \ {0} /\ DOMAIN fs = 1 .. n
  BY <1>0, EmptySeq, LenProperties
<1>2. gs \in Seq(Frame) /\ Len(gs) = n - 1 /\ \A j \in 1 .. n - 1 : gs[j] = fs[j]
  BY <1>0, FrontOfSeq
<1>3. DOMAIN gs = 1 .. n - 1 /\ \A j \in 1 .. n - 1 : j \in 1 .. n /\ j < n
  BY <1>1, <1>2, LenProperties
<1>4. AllExpand(gs)
  BY <1>0, <1>1, <1>2, <1>3 DEF Nested, CallsNest, AllExpand
<1>5. CallsNest(cs, gs)
  <2>1. \A j \in 1 .. n - 1 : gs[j].base \in 2 .. Len(cs) /\ Marked(cs[gs[j].base].toks)
    BY <1>0, <1>1, <1>2, <1>3 DEF Nested, CallsNest
  <2>2. \A j, l \in 1 .. n - 1 : j < l => gs[j].base < gs[l].base
    BY <1>0, <1>1, <1>2, <1>3 DEF Nested, CallsNest
  <2> QED
    BY <1>3, <1>4, <2>1, <2>2 DEF CallsNest, AllExpand
<1>6. MarkersAreBases(cs, gs)
  <2> SUFFICES ASSUME NEW i \in DOMAIN cs, ~Clean(cs[i].toks)
               PROVE  \E j \in 1 .. n - 1 : IsExpanding(gs[j]) /\ gs[j].base = i
    BY <1>3 DEF MarkersAreBases
  <2>1. PICK j \in 1 .. n : IsExpanding(fs[j]) /\ fs[j].base = i
    BY <1>1 DEF Nested, MarkersAreBases
  <2>2. j # n
    BY <1>0, <2>1
  <2>3. j \in 1 .. n - 1
    BY <1>1, <2>2
  <2> QED
    BY <1>2, <2>1, <2>3
<1>7. CallsAreFresh(cs, gs)
  BY <1>1, <1>2, <1>3 DEF Nested, CallsAreFresh
<1> QED
  BY <1>0, <1>4, <1>5, <1>6, <1>7 DEF Nested

\* A call begins, of a macro without an expansion on the stack.
LEMMA NestAppend ==
  ASSUME NEW cs, NEW fs \in Seq(Frame), Nested(cs, fs), AllExpand(fs),
         NEW f \in Frame, ~IsExpanding(f), f.macro # NoMacro, f.macro \notin MacrosOf(cs)
  PROVE  Nested(cs, Append(fs, f))
<1>0. PICK gs, n : gs = Append(fs, f) /\ n = Len(fs)
  OBVIOUS
<1>1. /\ n \in Nat /\ DOMAIN fs = 1 .. n /\ Len(gs) = n + 1 /\ DOMAIN gs = 1 .. n + 1
      /\ gs[n + 1] = f /\ \A j \in 1 .. n : gs[j] = fs[j]
  BY <1>0, AppendProperties, LenProperties
<1>2. \A j \in 1 .. n + 1 : j \in 1 .. n \/ j = n + 1
  BY <1>1
<1>3. CallsNest(cs, gs)
  <2>1. \A j \in 1 .. n + 1 : j < n + 1 => IsExpanding(gs[j])
    BY <1>1, <1>2 DEF AllExpand
  <2>2. \A j \in 1 .. n + 1 : IsExpanding(gs[j]) =>
          gs[j].base \in 2 .. Len(cs) /\ Marked(cs[gs[j].base].toks)
    BY <1>1, <1>2 DEF Nested, CallsNest
  <2>3. \A j, l \in 1 .. n + 1 :
          j < l /\ IsExpanding(gs[j]) /\ IsExpanding(gs[l]) => gs[j].base < gs[l].base
    BY <1>1, <1>2 DEF Nested, CallsNest
  <2> QED
    BY <1>1, <2>1, <2>2, <2>3 DEF CallsNest
<1>4. MarkersAreBases(cs, gs)
  <2>1. \A j \in 1 .. n : j \in 1 .. n + 1
    BY <1>1
  <2> QED
    BY <1>1, <2>1 DEF Nested, MarkersAreBases
<1>5. CallsAreFresh(cs, gs)
  BY <1>1, <1>2 DEF Nested, CallsAreFresh, MacrosOf
<1> QED
  BY <1>0, <1>3, <1>4, <1>5 DEF Nested

\* A context without markers is pushed, above every argument.
LEMMA NestPush ==
  ASSUME NEW cs \in Seq(Context), NEW fs, Nested(cs, fs), AllExpand(fs),
         NEW b \in Context, Clean(b.toks)
  PROVE  Nested(Append(cs, b), fs)
<1>0. PICK ps, m : ps = Append(cs, b) /\ m = Len(cs)
  OBVIOUS
<1>1. /\ m \in Nat /\ DOMAIN cs = 1 .. m /\ Len(ps) = m + 1 /\ DOMAIN ps = 1 .. m + 1
      /\ ps[m + 1] = b /\ \A i \in 1 .. m : ps[i] = cs[i]
  BY <1>0, AppendProperties, LenProperties
<1>2. ASSUME NEW j \in DOMAIN fs PROVE fs[j].base \in 2 .. m /\ Marked(cs[fs[j].base].toks)
  BY <1>0 DEF Nested, CallsNest, AllExpand
<1>3. ASSUME NEW j \in DOMAIN fs
      PROVE  fs[j].base \in 2 .. m + 1 /\ fs[j].base < m + 1 /\ Marked(ps[fs[j].base].toks)
  <2>1. PICK c : c = fs[j].base
    OBVIOUS
  <2>2. c \in 2 .. m /\ Marked(cs[c].toks)
    BY <1>2, <2>1
  <2> QED
    BY <1>1, <2>1, <2>2
<1>4. CallsNest(ps, fs)
  BY <1>1, <1>3 DEF Nested, CallsNest
<1>5. \A i \in 1 .. m + 1 : i \in 1 .. m \/ i = m + 1
  BY <1>1
<1>6. MarkersAreBases(ps, fs)
  BY <1>1, <1>5 DEF Nested, MarkersAreBases
<1>7. CallsAreFresh(ps, fs)
  <2> SUFFICES ASSUME NEW j \in DOMAIN fs, NEW i \in 1 .. m + 1, ps[i].macro = fs[j].macro
               PROVE  IsExpanding(fs[j]) /\ fs[j].base < i
    BY <1>1 DEF CallsAreFresh
  <2>1. CASE i \in 1 .. m
    BY <1>1, <2>1 DEF Nested, CallsAreFresh
  <2>2. CASE i = m + 1
    BY <1>3, <2>2 DEF AllExpand
  <2> QED
    BY <1>5, <2>1, <2>2
<1> QED
  BY <1>0, <1>4, <1>6, <1>7 DEF Nested

\* An argument is pushed with its marker.
LEMMA NestArgument ==
  ASSUME NEW cs \in Seq(Context), cs # <<>>, NEW fs \in Seq(Frame), fs # <<>>, Nested(cs, fs),
         ~IsExpanding(fs[Len(fs)]),
         NEW b \in Context, Marked(b.toks), b.macro = NoMacro,
         NEW f, IsExpanding(f), f.base = Len(cs) + 1, f.macro = fs[Len(fs)].macro,
         \A k \in DOMAIN fs : fs[k].macro # NoMacro,
         NEW gs \in Seq(Frame), gs = [fs EXCEPT ![Len(fs)] = f]
  PROVE  Nested(Append(cs, b), gs)
<1>0. PICK ps, m, n : ps = Append(cs, b) /\ m = Len(cs) /\ n = Len(fs)
  OBVIOUS
<1>1. /\ m \in Nat \ {0} /\ DOMAIN cs = 1 .. m /\ Len(ps) = m + 1 /\ DOMAIN ps = 1 .. m + 1
      /\ ps[m + 1] = b /\ \A i \in 1 .. m : ps[i] = cs[i]
  BY <1>0, AppendProperties, LenProperties, EmptySeq
<1>2. /\ DOMAIN fs = 1 .. n /\ DOMAIN gs = 1 .. n /\ Len(gs) = n /\ n \in 1 .. n /\ n \in Nat
      /\ gs[n] = f /\ \A j \in 1 .. n : j < n => gs[j] = fs[j]
  BY <1>0, TopReplaced
<1>3. \A j \in 1 .. n : j < n \/ j = n
  BY <1>2
<1>4. \A i \in 1 .. m + 1 : i \in 1 .. m \/ i = m + 1
  BY <1>1
<1>5. ASSUME NEW j \in 1 .. n, j < n
      PROVE  /\ IsExpanding(gs[j]) /\ gs[j].base \in 2 .. m + 1 /\ gs[j].base < m + 1
             /\ Marked(ps[gs[j].base].toks)
  <2>1. PICK c : c = fs[j].base
    OBVIOUS
  <2>2. IsExpanding(fs[j]) /\ c \in 2 .. m /\ Marked(cs[c].toks)
    BY <1>0, <1>2, <1>5, <2>1 DEF Nested, CallsNest
  <2>3. c \in 1 .. m /\ c \in 2 .. m + 1 /\ c < m + 1
    BY <1>1, <2>2
  <2> QED
    BY <1>1, <1>2, <1>5, <2>1, <2>2, <2>3
<1>6. gs[n].base = m + 1 /\ m + 1 \in 2 .. m + 1
  BY <1>0, <1>1, <1>2
<1>7. CallsNest(ps, gs)
  <2>1. \A j \in 1 .. n : gs[j].base \in 2 .. m + 1 /\ Marked(ps[gs[j].base].toks)
    BY <1>1, <1>2, <1>3, <1>5, <1>6
  <2>2. ASSUME NEW j \in 1 .. n, NEW l \in 1 .. n, j < l PROVE gs[j].base < gs[l].base
    <3>1. j < n
      BY <1>2, <2>2
    <3>2. CASE l = n
      BY <1>5, <1>6, <3>1, <3>2
    <3>3. CASE l < n
      <4>1. IsExpanding(fs[j]) /\ IsExpanding(fs[l])
        BY <1>0, <1>2, <3>1, <3>3 DEF Nested, CallsNest
      <4> QED
        BY <1>2, <2>2, <3>1, <3>3, <4>1 DEF Nested, CallsNest
    <3> QED
      BY <1>3, <3>2, <3>3
  <2> QED
    BY <1>1, <1>2, <1>5, <2>1, <2>2 DEF CallsNest
<1>8. MarkersAreBases(ps, gs)
  <2> SUFFICES ASSUME NEW i \in 1 .. m + 1, ~Clean(ps[i].toks)
               PROVE  \E j \in 1 .. n : IsExpanding(gs[j]) /\ gs[j].base = i
    BY <1>1, <1>2 DEF MarkersAreBases
  <2>1. CASE i = m + 1
    BY <1>2, <1>6, <2>1
  <2>2. CASE i \in 1 .. m
    <3>1. PICK j \in 1 .. n : IsExpanding(fs[j]) /\ fs[j].base = i
      BY <1>1, <1>2, <2>2 DEF Nested, MarkersAreBases
    <3>2. j # n
      BY <1>0, <3>1
    <3> QED
      BY <1>2, <1>3, <3>1, <3>2
  <2> QED
    BY <1>4, <2>1, <2>2
<1>9. CallsAreFresh(ps, gs)
  <2> SUFFICES ASSUME NEW j \in 1 .. n, NEW i \in 1 .. m + 1, ps[i].macro = gs[j].macro
               PROVE  IsExpanding(gs[j]) /\ gs[j].base < i
    BY <1>1, <1>2 DEF CallsAreFresh
  <2>1. gs[j].macro = fs[j].macro /\ fs[j].macro # NoMacro
    BY <1>0, <1>2, <1>3
  <2>2. i \in 1 .. m /\ cs[i].macro = fs[j].macro
    BY <1>1, <1>4, <2>1
  <2>3. IsExpanding(fs[j]) /\ fs[j].base < i
    BY <1>1, <1>2, <2>2 DEF Nested, CallsAreFresh
  <2>4. j # n
    BY <1>0, <2>3
  <2> QED
    BY <1>2, <1>3, <2>3, <2>4
<1> QED
  BY <1>0, <1>7, <1>8, <1>9 DEF Nested

-----------------------------------------------------------------------------
(* Expansions on the stack, and the texts of calls. *)

\* NoSelfExpansion of a stack.
Alone(cs, dis) ==
  \A i \in DOMAIN cs : cs[i].macro # NoMacro =>
    cs[i].macro \in dis /\ \A j \in DOMAIN cs : cs[j].macro = cs[i].macro => j = i

LEMMA AloneDisabled ==
  ASSUME NEW cs, NEW dis, Alone(cs, dis), NEW m, m # NoMacro, m \notin dis
  PROVE  m \notin MacrosOf(cs)
  BY DEF Alone, MacrosOf

LEMMA AloneRead ==
  ASSUME NEW cs \in Seq(Context), cs # <<>>, NEW dis, Alone(cs, dis)
  PROVE  Alone(AfterRead(cs), EnabledByRead(dis, cs)) /\ MacrosOf(AfterRead(cs)) \subseteq MacrosOf(cs)
<1>0. PICK k, rs, en : k = Source(cs) /\ rs = AfterRead(cs) /\ en = EnabledByRead(dis, cs)
  OBVIOUS
<1>a. ReadGives(cs, k, rs)
  BY <1>0, ReadTexts
<1>1. /\ k \in 1 .. Len(cs) /\ Len(cs) \in Nat
      /\ DOMAIN cs = 1 .. Len(cs) /\ DOMAIN rs = 1 .. k
      /\ \A i \in 1 .. k : rs[i].macro = cs[i].macro
  BY <1>a DEF ReadGives
<1>2. \A i \in 1 .. k : i \in 1 .. Len(cs)
  BY <1>1
<1>3. en = dis \ {cs[j].macro : j \in k + 1 .. Len(cs)}
  BY <1>0 DEF EnabledByRead
<1>4. ASSUME NEW i \in 1 .. k, rs[i].macro # NoMacro
      PROVE  rs[i].macro \in en /\ \A j \in 1 .. k : rs[j].macro = rs[i].macro => j = i
  <2>1. PICK m : m = rs[i].macro /\ m = cs[i].macro /\ m # NoMacro
    BY <1>1, <1>4
  <2>2. m \in dis /\ \A j \in 1 .. Len(cs) : cs[j].macro = m => j = i
    BY <1>1, <1>2, <2>1 DEF Alone
  <2>3. \A j \in k + 1 .. Len(cs) : j \in 1 .. Len(cs) /\ j # i
    BY <1>1
  <2>4. m \in en
    BY <1>3, <2>2, <2>3
  <2> QED
    BY <1>1, <1>2, <2>1, <2>2, <2>4
<1>5. Alone(rs, en)
  BY <1>1, <1>4 DEF Alone
<1>6. MacrosOf(rs) \subseteq MacrosOf(cs)
  BY <1>1, <1>2 DEF MacrosOf
<1> QED
  BY <1>0, <1>5, <1>6

LEMMA AlonePush ==
  ASSUME NEW cs \in Seq(Context), NEW dis, Alone(cs, dis),
         NEW b \in Context, b.macro # NoMacro => b.macro \notin MacrosOf(cs),
         NEW more, more = IF b.macro = NoMacro THEN {} ELSE {b.macro}
  PROVE  Alone(Append(cs, b), dis \cup more)
<1>0. PICK ps, m : ps = Append(cs, b) /\ m = Len(cs)
  OBVIOUS
<1>1. /\ m \in Nat /\ DOMAIN cs = 1 .. m /\ DOMAIN ps = 1 .. m + 1
      /\ ps[m + 1] = b /\ \A i \in 1 .. m : ps[i] = cs[i]
  BY <1>0, AppendProperties, LenProperties
<1>2. \A i \in 1 .. m + 1 : i \in 1 .. m \/ i = m + 1
  BY <1>1
<1>3. \A i \in 1 .. m : cs[i].macro # NoMacro => cs[i].macro # b.macro
  BY <1>1 DEF MacrosOf
<1>4. Alone(ps, dis \cup more)
  BY <1>1, <1>2, <1>3 DEF Alone
<1> QED
  BY <1>0, <1>4

CleanCall(f) ==
  /\ Clean(f.result) /\ \A a \in DOMAIN f.expanded : Clean(f.expanded[a])
  /\ f.phase = "args" /\ ~f.newArg => f.args # <<>>

CleanCalls(fs) == \A k \in DOMAIN fs : CleanCall(fs[k])

\* The calls after each change of the stack of calls.
LEMMA CleanCallsKept ==
  ASSUME NEW fs \in Seq(Frame), CleanCalls(fs)
  PROVE  /\ fs # <<>> => CleanCall(fs[Len(fs)]) /\ CleanCalls(SubSeq(fs, 1, Len(fs) - 1))
         /\ \A f \in Frame : CleanCall(f) => CleanCalls(Append(fs, f))
         /\ \A f : \A gs \in Seq(Frame) :
              fs # <<>> /\ CleanCall(f) /\ gs = [fs EXCEPT ![Len(fs)] = f] => CleanCalls(gs)
<1>1. DOMAIN fs = 1 .. Len(fs) /\ Len(fs) \in Nat
  BY LenProperties
<1>2. ASSUME fs # <<>>
      PROVE  CleanCall(fs[Len(fs)]) /\ CleanCalls(SubSeq(fs, 1, Len(fs) - 1))
  <2>0. PICK gs, n : gs = SubSeq(fs, 1, Len(fs) - 1) /\ n = Len(fs)
    OBVIOUS
  <2>1. n \in Nat \ {0}
    BY <1>1, <1>2, <2>0, EmptySeq
  <2>2. gs \in Seq(Frame) /\ Len(gs) = n - 1 /\ \A j \in 1 .. n - 1 : gs[j] = fs[j]
    BY <1>2, <2>0, FrontOfSeq
  <2>3. DOMAIN gs = 1 .. n - 1 /\ \A j \in 1 .. n - 1 : j \in 1 .. n
    BY <2>1, <2>2, LenProperties
  <2>4. CleanCalls(gs)
    BY <1>1, <2>0, <2>2, <2>3 DEF CleanCalls
  <2>5. n \in DOMAIN fs
    BY <1>1, <2>0, <2>1
  <2> QED
    BY <2>0, <2>4, <2>5 DEF CleanCalls
<1>3. ASSUME NEW f \in Frame, CleanCall(f) PROVE CleanCalls(Append(fs, f))
  <2>0. PICK gs, n : gs = Append(fs, f) /\ n = Len(fs)
    OBVIOUS
  <2>1. DOMAIN gs = 1 .. n + 1 /\ gs[n + 1] = f /\ \A j \in 1 .. n : gs[j] = fs[j]
    BY <2>0, AppendProperties, LenProperties
  <2>2. \A j \in 1 .. n + 1 : j \in 1 .. n \/ j = n + 1
    BY <1>1, <2>0
  <2>3. CleanCalls(gs)
    BY <1>1, <1>3, <2>0, <2>1, <2>2 DEF CleanCalls
  <2> QED
    BY <2>0, <2>3
<1>4. ASSUME NEW f, NEW gs \in Seq(Frame), fs # <<>>, CleanCall(f), gs = [fs EXCEPT ![Len(fs)] = f]
      PROVE  CleanCalls(gs)
  <2>0. PICK n : n = Len(fs)
    OBVIOUS
  <2>1. /\ DOMAIN gs = 1 .. n /\ n \in 1 .. n /\ n \in Nat
        /\ gs[n] = f /\ \A j \in 1 .. n : j < n => gs[j] = fs[j]
    BY <1>4, <2>0, TopReplaced
  <2>2. \A j \in 1 .. n : j < n \/ j = n
    BY <2>1
  <2> QED
    BY <1>1, <1>4, <2>0, <2>1, <2>2 DEF CleanCalls
<1> QED
  BY <1>2, <1>3, <1>4

LEMMA AddedIsClean ==
  ASSUME Top \in Frame, Clean(Top.result), NEW toks \in Seq(Token), Clean(toks)
  PROVE  Clean(Added(toks))
<1>0. PICK r, ad : r = Top.result /\ ad = Added(toks)
  OBVIOUS
<1>1. r \in Seq(Token) /\ Clean(r)
  BY <1>0 DEF Frame
<1>2. CASE ad = r \o toks
  <2>1. Clean(r \o toks)
    BY <1>1, CleanSequences
  <2> QED
    BY <1>0, <1>2, <2>1
<1>3. CASE toks # <<>> /\ r # <<>> /\
           ad = SubSeq(r, 1, Len(r) - 1) \o <<Paste(r[Len(r)], Head(toks))>> \o Tail(toks)
  <2>1. PICK l, p, one, rest, both :
          /\ l = SubSeq(r, 1, Len(r) - 1) /\ p = Paste(r[Len(r)], Head(toks))
          /\ one = <<p>> /\ rest = Tail(toks) /\ both = l \o one
    OBVIOUS
  <2>2. Clean(l) /\ Clean(rest) /\ l \in Seq(Token) /\ rest \in Seq(Token)
    BY <1>1, <1>3, <2>1, CleanSequences, FrontOfSeq, HeadTailProperties
  <2>3. p \in Token /\ p # STOP
    <3>1. r[Len(r)] \in Token
      BY <1>1, <1>3, EmptySeq, LenProperties, ElementOfSeq
    <3>2. Head(toks) \in Token
      BY <1>3, HeadTailProperties
    <3>3. r[Len(r)] # STOP
      BY <1>1, <1>3, CleanSequences
    <3>4. Paste(r[Len(r)], Head(toks)) # STOP
      BY <3>3 DEF Paste, Ident, Tag, STOP
    <3> QED
      BY <2>1, <3>1, <3>2, <3>4, PasteIsToken
  <2>4. one \in Seq(Token) /\ Clean(one)
    BY <2>1, <2>3 DEF Clean
  <2>5. both \in Seq(Token) /\ Clean(both)
    BY <2>1, <2>2, <2>4, CleanSequences, ConcatProperties
  <2>6. Clean(both \o rest)
    BY <2>2, <2>5, CleanSequences
  <2>7. ad = both \o rest
    BY <1>3, <2>1
  <2> QED
    BY <1>0, <2>6, <2>7
<1> QED
  BY <1>0, <1>2, <1>3 DEF Added

-----------------------------------------------------------------------------
(* Each action keeps the calls nested, as long as arguments end. *)

Nesting ==
  Nested(contexts, frames) /\ CleanCalls(frames) /\ MacrosAreClean /\ Alone(contexts, disabled)

LEMMA NestingIsInv == NestingInv <=> Nesting
  BY DEF NestingInv, Nesting, Nested, CleanCalls, CleanCall, ResultsAreClean, ArgumentsAreOpen,
         Alone, NoSelfExpansion

\* What a read of a token other than the marker keeps.
LEMMA ReadNests ==
  ASSUME NEW cs, NEW dis, StackOK(cs, dis), NEW fs, Nested(cs, fs), Alone(cs, dis), Peek(cs) # STOP
  PROVE  /\ Nested(AfterRead(cs), fs) /\ Alone(AfterRead(cs), EnabledByRead(dis, cs))
         /\ MacrosOf(AfterRead(cs)) \subseteq MacrosOf(cs)
  BY NestRead, AloneRead DEF StackOK

\* Where tokens are expanded, every call is expanding an argument.
LEMMA AllExpanding ==
  ASSUME FramesOK(frames, macros), NEW cs, Nested(cs, frames), ExpandingTokens
  PROVE  AllExpand(frames)
<1>0. PICK fs, n : fs = frames /\ n = Len(frames)
  OBVIOUS
<1>1. n \in Nat /\ DOMAIN fs = 1 .. n /\ (n # 0 => fs # <<>>)
  BY <1>0, LenProperties, EmptySeq DEF FramesOK
<1>2. n # 0 => IsExpanding(fs[n])
  BY <1>0, <1>1 DEF ExpandingTokens, Top, IsExpanding
<1>3. \A k \in 1 .. n : k < n => IsExpanding(fs[k])
  BY <1>0, <1>1 DEF Nested, CallsNest
<1>4. \A k \in 1 .. n : n # 0 /\ (k < n \/ k = n)
  BY <1>1
<1> QED
  BY <1>0, <1>1, <1>2, <1>3, <1>4 DEF AllExpand

\* Outside calls there is no marker to read.
LEMMA NoMarker ==
  ASSUME NEW cs \in Seq(Context), cs # <<>>, NEW fs, fs = <<>>, Nested(cs, fs)
  PROVE  Peek(cs) # STOP
<1>0. PICK k, rs : k = Source(cs) /\ rs = AfterRead(cs)
  OBVIOUS
<1>a. ReadGives(cs, k, rs)
  BY <1>0, ReadTexts
<1>1. /\ k \in 1 .. Len(cs) /\ DOMAIN cs = 1 .. Len(cs)
      /\ \A i \in 1 .. Len(cs) : cs[i].toks \in Seq(Token) /\ (i > k => cs[i].toks = <<>>)
      /\ \/ cs[k].toks = <<>> /\ Peek(cs) = EOF /\ rs[k].toks = <<>>
         \/ cs[k].toks # <<>> /\ Peek(cs) = Head(cs[k].toks) /\ rs[k].toks = Tail(cs[k].toks)
  BY <1>a DEF ReadGives
<1>2. Clean(cs[k].toks)
  <2>1. DOMAIN fs = {}
    OBVIOUS
  <2>2. k \in DOMAIN cs
    BY <1>1
  <2> QED
    BY <2>1, <2>2 DEF Nested, MarkersAreBases
<1> QED
  BY <1>1, <1>2, CleanSequences DEF EOF, STOP, Tag

LEMMA ExpandCallbackNests ==
  ASSUME Parts, Nesting, ExpandCallback PROVE Nesting'
<1>0. PICK t, cs, dis, toks, b :
        /\ t = Peek(contexts) /\ cs = AfterRead(contexts) /\ dis = EnabledByRead(disabled, contexts)
        /\ toks = macros[t.val].tokens /\ b = Buffer(NoMacro, toks)
  OBVIOUS
<1>1. /\ ExpandingTokens /\ Expandable(t, cs, dis)
      /\ contexts' = Append(cs, b) /\ disabled' = dis
      /\ UNCHANGED <<macros, frames, output, finished>>
  BY <1>0 DEF ExpandCallback
<1>2. t # STOP /\ t.val \in MacroNames /\ macros[t.val] \in Macro
  <2>1. t.tag = "ident"
    BY <1>1 DEF Expandable
  <2>2. t # STOP
    BY <2>1 DEF STOP, Tag
  <2>3. t.val \in MacroNames /\ macros[t.val] \in Macro
    BY <1>1, ExpandableIsMacro
  <2> QED
    BY <2>2, <2>3
<1>3. Nested(cs, frames) /\ Alone(cs, dis) /\ cs \in Seq(Context)
  BY <1>0, <1>2, ReadNests, ReadStep DEF Parts, Nesting, StackOK
<1>4. toks \in Seq(Token) /\ Clean(toks)
  BY <1>0, <1>2 DEF Nesting, MacrosAreClean, Macro
<1>5. b \in Context /\ b.macro = NoMacro /\ b.toks = toks
  BY <1>0, <1>4 DEF Buffer, Context
<1>6. AllExpand(frames)
  BY <1>1, <1>3, AllExpanding DEF Parts
<1>7. Nested(contexts', frames')
  BY <1>1, <1>3, <1>4, <1>5, <1>6, NestPush
<1>8. Alone(contexts', disabled')
  <2>1. Alone(Append(cs, b), dis \cup {})
    BY <1>3, <1>5, AlonePush
  <2> QED
    BY <1>1, <2>1
<1> QED
  BY <1>1, <1>7, <1>8 DEF Nesting, MacrosAreClean

\* The call that an expanded name begins.
LEMMA NewCallNests ==
  ASSUME FramesOK(frames, macros), NEW m \in MacroNames, macros[m] \in Macro,
         NEW phase \in {"args", "subst"}, macros[m].hasParams <=> phase = "args",
         NEW cs, Nested(cs, frames), ExpandingTokens, CleanCalls(frames), m \notin MacrosOf(cs)
  PROVE  Nested(cs, Append(frames, NewFrame(m, phase))) /\ CleanCalls(Append(frames, NewFrame(m, phase)))
<1>0. PICK f : f = NewFrame(m, phase)
  OBVIOUS
<1>1. f \in Frame
  BY <1>0, NewFrameOK
<1>2. /\ f.macro = m /\ f.phase = phase /\ f.newArg = TRUE /\ f.result = <<>> /\ f.expanded = <<>>
  BY <1>0 DEF NewFrame
<1>3. ~IsExpanding(f) /\ m # NoMacro
  BY <1>2, NamesAssumption DEF IsExpanding
<1>4. CleanCall(f)
  BY <1>2 DEF CleanCall, Clean
<1>5. AllExpand(frames)
  BY AllExpanding
<1>6. Nested(cs, Append(frames, f))
  BY <1>1, <1>2, <1>3, <1>5, NestAppend DEF FramesOK
<1>7. CleanCalls(Append(frames, f))
  BY <1>1, <1>4, CleanCallsKept DEF FramesOK
<1> QED
  BY <1>0, <1>6, <1>7

LEMMA ExpandObjectLikeNests ==
  ASSUME Parts, Nesting, ExpandObjectLike PROVE Nesting'
<1>0. PICK t, m, cs, dis :
        /\ t = Peek(contexts) /\ m = t.val
        /\ cs = AfterRead(contexts) /\ dis = EnabledByRead(disabled, contexts)
  OBVIOUS
<1>1. /\ ExpandingTokens /\ Expandable(t, cs, dis) /\ ~macros[m].hasParams
      /\ contexts' = cs /\ disabled' = dis /\ frames' = Append(frames, NewFrame(m, "subst"))
      /\ UNCHANGED <<macros, output, finished>>
  BY <1>0 DEF ExpandObjectLike
<1>2. t # STOP /\ m \in MacroNames /\ macros[m] \in Macro /\ m \notin dis
  BY <1>0, <1>1, ExpandableIsMacro DEF Expandable, STOP, Tag
<1>3. Nested(cs, frames) /\ Alone(cs, dis)
  BY <1>0, <1>2, ReadNests DEF Parts, Nesting
<1>4. m \notin MacrosOf(cs)
  BY <1>2, <1>3, AloneDisabled, NamesAssumption
<1>5. Nested(contexts', frames') /\ CleanCalls(frames')
  BY <1>1, <1>2, <1>3, <1>4, NewCallNests DEF Parts, Nesting
<1> QED
  BY <1>1, <1>3, <1>5 DEF Nesting, MacrosAreClean

LEMMA ExpandFunctionLikeNests ==
  ASSUME Parts, Nesting, ExpandFunctionLike PROVE Nesting'
<1>0. PICK t, m, cs, dis, rs, en :
        /\ t = Peek(contexts) /\ m = t.val
        /\ cs = AfterRead(contexts) /\ dis = EnabledByRead(disabled, contexts)
        /\ rs = AfterRead(cs) /\ en = EnabledByRead(dis, cs)
  OBVIOUS
<1>1. /\ ExpandingTokens /\ Expandable(t, cs, dis) /\ macros[m].hasParams
      /\ contexts' = rs /\ disabled' = en /\ frames' = Append(frames, NewFrame(m, "args"))
      /\ UNCHANGED <<macros, output, finished>>
  BY <1>0 DEF ExpandFunctionLike
<1>2. /\ t # STOP /\ m \in MacroNames /\ macros[m] \in Macro /\ m \notin dis
      /\ Peek(cs) # STOP
  BY <1>0, <1>1, ExpandableIsMacro DEF Expandable, STOP, Tag
<1>3. Nested(cs, frames) /\ Alone(cs, dis) /\ StackOK(cs, dis)
  BY <1>0, <1>2, ReadNests, ReadStep DEF Parts, Nesting
<1>4. Nested(rs, frames) /\ Alone(rs, en) /\ MacrosOf(rs) \subseteq MacrosOf(cs)
  BY <1>0, <1>2, <1>3, ReadNests
<1>5. m \notin MacrosOf(rs)
  BY <1>2, <1>3, <1>4, AloneDisabled, NamesAssumption
<1>6. Nested(contexts', frames') /\ CleanCalls(frames')
  BY <1>1, <1>2, <1>4, <1>5, NewCallNests DEF Parts, Nesting
<1> QED
  BY <1>1, <1>4, <1>6 DEF Nesting, MacrosAreClean

LEMMA ReturnTokenNests ==
  ASSUME Parts, Nesting, ReturnToken PROVE Nesting'
<1>1. /\ frames = <<>> /\ contexts' = AfterRead(contexts)
      /\ disabled' = EnabledByRead(disabled, contexts) /\ UNCHANGED <<macros, frames>>
  BY DEF ReturnToken, ReturnsToken
<1>2. Peek(contexts) # STOP
  BY <1>1, NoMarker DEF Parts, StackOK, Nesting
<1>3. Nested(contexts', frames') /\ Alone(contexts', disabled')
  BY <1>1, <1>2, ReadNests DEF Parts, Nesting
<1> QED
  BY <1>1, <1>3 DEF Nesting, MacrosAreClean

LEMMA ArgumentTokenNests ==
  ASSUME Parts, Parts', Nesting, ArgumentToken PROVE Nesting'
<1>0. PICK t, p, top, f, fs, gs :
        /\ t = Peek(contexts) /\ p = macros[Top.macro].tokens[Top.pos].val
        /\ top = Top /\ fs = frames /\ gs = frames'
        /\ f = IF t = STOP THEN [top EXCEPT !.phase = "subst", !.isExpanded = @ \cup {p}]
                           ELSE [top EXCEPT !.expanded[p] = Collected(@, t)]
  OBVIOUS
<1>1. /\ frames # <<>> /\ Top.phase = "argexp" /\ contexts' = AfterRead(contexts)
      /\ disabled' = EnabledByRead(disabled, contexts)
      /\ frames' = [frames EXCEPT ![Len(frames)] = f]
      /\ UNCHANGED <<macros, output, finished>>
  BY <1>0 DEF ArgumentToken, ReturnsToken, WithTop
<1>2. /\ fs \in Seq(Frame) /\ gs \in Seq(Frame) /\ fs # <<>> /\ gs = [fs EXCEPT ![Len(fs)] = f]
      /\ top = fs[Len(fs)] /\ top \in Frame /\ top.phase = "argexp" /\ IsExpanding(top)
  BY <1>0, <1>1, TopProperties DEF Parts, FramesOK, Top, IsExpanding
<1>3. CleanCall(top)
  BY <1>0, <1>2, CleanCallsKept DEF Nesting
<1>4. t \in Token
  BY <1>0, ReadStep
<1>5. top.expanded \in Seq(Seq(Token)) /\ p \in 1 .. Len(top.expanded)
  BY <1>0, <1>1, TopProperties DEF Parts, CallOK, Frame
<1>6. Alone(contexts', disabled')
  BY <1>1, AloneRead DEF Parts, StackOK, Nesting
<1>7. Nested(contexts', gs) /\ CleanCall(f)
  <2>1. CASE t = STOP
    <3>1. /\ f.phase = "subst" /\ f.macro = top.macro
          /\ f.result = top.result /\ f.expanded = top.expanded
      BY <1>0, <1>2, <2>1 DEF Frame
    <3>2. CleanCall(f) /\ ~IsExpanding(f)
      BY <1>3, <3>1 DEF CleanCall, IsExpanding
    <3>3. Nested(AfterRead(contexts), gs)
      <4>1. /\ contexts \in Seq(Context) /\ contexts # <<>> /\ Nested(contexts, fs)
            /\ Peek(contexts) = STOP
        BY <1>0, <2>1 DEF Parts, StackOK, Nesting
      <4>2. IsExpanding(fs[Len(fs)]) /\ f.macro = fs[Len(fs)].macro
        BY <1>2, <3>1
      <4> QED
        BY <1>2, <3>2, <4>1, <4>2, NestStop
    <3> QED
      BY <1>1, <3>2, <3>3
  <2>2. CASE t # STOP
    <3>1. PICK e : e = [top.expanded EXCEPT ![p] = Collected(@, t)]
      OBVIOUS
    <3>2. f = [top EXCEPT !.expanded = e]
      <4>1. f = [top EXCEPT !.expanded[p] = Collected(@, t)]
        BY <1>0, <2>2
      <4> QED
        BY <1>2, <3>1, <4>1 DEF Frame
    <3>3. /\ f.phase = "argexp" /\ f.macro = top.macro /\ f.base = top.base
          /\ f.result = top.result /\ f.expanded = e
      BY <1>2, <3>2 DEF Frame
    <3>4. DOMAIN e = DOMAIN top.expanded /\ DOMAIN e = 1 .. Len(top.expanded)
      BY <1>5, <3>1, LenProperties
    <3>5. ASSUME NEW a \in DOMAIN e PROVE Clean(e[a])
      <4>1. Clean(top.expanded[a]) /\ top.expanded[a] \in Seq(Token)
        BY <1>3, <1>5, <3>4, <3>5, ElementOfSeq DEF CleanCall
      <4>2. CASE a = p
        <5>1. e[a] = Collected(top.expanded[a], t)
          BY <3>1, <3>4, <4>2
        <5>2. Clean(Append(top.expanded[a], t))
          BY <1>4, <2>2, <4>1, CleanSequences
        <5>3. Clean(Collected(top.expanded[a], t))
          BY <4>1, <5>2 DEF Collected
        <5> QED
          BY <5>1, <5>3
      <4>3. CASE a # p
        BY <3>1, <3>4, <4>1, <4>3
      <4> QED
        BY <4>2, <4>3
    <3>6. CleanCall(f)
      BY <1>3, <3>3, <3>5 DEF CleanCall
    <3>7. Nested(AfterRead(contexts), fs)
      BY <1>0, <2>2, ReadNests DEF Parts, Nesting
    <3>8. Nested(AfterRead(contexts), gs)
      BY <1>2, <3>3, <3>7, NestTop DEF IsExpanding
    <3> QED
      BY <1>1, <3>6, <3>8
  <2> QED
    BY <2>1, <2>2
<1>8. CleanCalls(gs)
  BY <1>0, <1>2, <1>7, CleanCallsKept DEF Nesting
<1> QED
  BY <1>0, <1>1, <1>6, <1>7, <1>8 DEF Nesting, MacrosAreClean

\* After #define or #undef there is no expansion on the stack.
LEMMA EditNests ==
  ASSUME Parts, Nesting, NEW tag, tag \in {"define", "undef"}, Directive(tag),
         contexts' = AfterRead(AfterRead(contexts)), frames' = frames
  PROVE  Nested(contexts', frames') /\ CleanCalls(frames') /\ Alone(contexts', disabled')
<1>0. PICK cs, rs : cs = AfterRead(contexts) /\ rs = AfterRead(cs)
  OBVIOUS
<1>1. StackOK(cs, {}) /\ MacrosOf(rs) = {} /\ frames = <<>>
  BY <1>0, DirectiveRead
<1>2. cs \in Seq(Context) /\ cs # <<>>
  BY <1>1 DEF StackOK
<1>3. Nested(cs, frames)
  BY <1>0, <1>1, NoMarker, NestRead DEF Parts, StackOK, Nesting
<1>4. Nested(rs, frames)
  BY <1>0, <1>1, <1>2, <1>3, NoMarker, NestRead
<1>5. Alone(rs, disabled')
  BY <1>1 DEF Alone, MacrosOf
<1> QED
  BY <1>0, <1>4, <1>5 DEF Nesting

LEMMA DefineNests ==
  ASSUME Parts, Nesting, Define PROVE Nesting'
<1>1. PICK m \in MacroNames : macros' = [macros EXCEPT ![m] = Redefinition[m]]
  BY DEF Define
<1>2. Nested(contexts', frames') /\ CleanCalls(frames') /\ Alone(contexts', disabled')
  BY EditNests DEF Define
<1>3. MacrosAreClean'
  BY <1>1, MarkerAssumption DEF Parts, Nesting, MacrosAreClean
<1> QED
  BY <1>2, <1>3 DEF Nesting

LEMMA UndefNests ==
  ASSUME Parts, Nesting, Undef PROVE Nesting'
<1>1. PICK m \in MacroNames : macros' = [macros EXCEPT ![m] = Undefined]
  BY DEF Undef
<1>2. Nested(contexts', frames') /\ CleanCalls(frames') /\ Alone(contexts', disabled')
  BY EditNests DEF Undef
<1>3. MacrosAreClean'
  BY <1>1 DEF Parts, Nesting, MacrosAreClean, Undefined
<1> QED
  BY <1>2, <1>3 DEF Nesting

LEMMA IncludeNests ==
  ASSUME Parts, Nesting, Include PROVE Nesting'
<1>0. PICK cs, dis, b :
        /\ cs = AfterRead(contexts) /\ dis = EnabledByRead(disabled, contexts)
        /\ b = File(IncludedFile)
  OBVIOUS
<1>1. /\ frames = <<>> /\ contexts' = Append(cs, b) /\ disabled' = dis
      /\ UNCHANGED <<macros, frames, output, finished>>
  BY <1>0 DEF Include, Directive
<1>2. Nested(cs, frames) /\ Alone(cs, dis) /\ cs \in Seq(Context)
  BY <1>0, <1>1, NoMarker, ReadNests, ReadStep DEF Parts, StackOK, Nesting
<1>3. b \in Context /\ b.macro = NoMacro /\ Clean(b.toks)
  BY <1>0, ProgramsAssumption, MarkerAssumption DEF File, Context
<1>4. AllExpand(frames)
  BY <1>1 DEF AllExpand
<1>5. Nested(contexts', frames')
  BY <1>1, <1>2, <1>3, <1>4, NestPush
<1>6. Alone(contexts', disabled')
  <2>1. Alone(Append(cs, b), dis \cup {})
    BY <1>2, <1>3, AlonePush
  <2> QED
    BY <1>1, <2>1
<1> QED
  BY <1>1, <1>5, <1>6 DEF Nesting, MacrosAreClean

\* A token that a call takes into its arguments.
LEMMA ReadArgNests ==
  ASSUME Parts, Nesting, NEW t, ReadArg(t), t # STOP
  PROVE  /\ Nested(contexts', frames) /\ Alone(contexts', disabled') /\ MacrosAreClean'
         /\ frames \in Seq(Frame) /\ frames # <<>> /\ Top \in Frame
         /\ Top = frames[Len(frames)] /\ Top.phase = "args"
         /\ CleanCalls(frames) /\ CleanCall(Top)
<1>1. /\ t = Peek(contexts) /\ contexts' = AfterRead(contexts)
      /\ disabled' = EnabledByRead(disabled, contexts) /\ UNCHANGED macros
  BY DEF ReadArg
<1>2. Nested(contexts', frames) /\ Alone(contexts', disabled')
  BY <1>1, ReadNests DEF Parts, Nesting
<1>3. /\ frames \in Seq(Frame) /\ frames # <<>> /\ Top \in Frame
      /\ Top = frames[Len(frames)] /\ Top.phase = "args"
  BY ReadArgStep DEF FramesOK, Top
<1>4. CleanCalls(frames) /\ CleanCall(Top)
  BY <1>3, CleanCallsKept DEF Nesting
<1> QED
  BY <1>1, <1>2, <1>3, <1>4 DEF Nesting, MacrosAreClean

\* The innermost call goes on, outside its arguments.
LEMMA WithTopNests ==
  ASSUME NEW cs, Nested(cs, frames), frames \in Seq(Frame), frames # <<>>, CleanCalls(frames),
         ~IsExpanding(Top),
         NEW f, f.macro = Top.macro, f.base = Top.base, ~IsExpanding(f), CleanCall(f),
         frames' \in Seq(Frame), frames' = WithTop(f)
  PROVE  Nested(cs, frames') /\ CleanCalls(frames')
<1>0. PICK fs, gs : fs = frames /\ gs = frames'
  OBVIOUS
<1>1. /\ fs \in Seq(Frame) /\ gs \in Seq(Frame) /\ fs # <<>> /\ gs = [fs EXCEPT ![Len(fs)] = f]
      /\ ~IsExpanding(fs[Len(fs)]) /\ f.macro = fs[Len(fs)].macro /\ f.base = fs[Len(fs)].base
      /\ Nested(cs, fs) /\ CleanCalls(fs)
  BY <1>0 DEF WithTop, Top
<1>2. Nested(cs, gs)
  BY <1>1, NestTop
<1>3. CleanCalls(gs)
  BY <1>1, CleanCallsKept
<1> QED
  BY <1>0, <1>2, <1>3

LEMMA EndOfArgsNests ==
  ASSUME Parts, Parts', Nesting, EndOfArgs PROVE Nesting'
<1>0. PICK t, e, f :
        /\ t = Peek(contexts) /\ e = [i \in 1 .. Len(Opened) |-> <<>>]
        /\ f = [Top EXCEPT !.phase = "subst", !.args = Opened, !.newArg = FALSE, !.expanded = e]
  OBVIOUS
<1>1. /\ ReadArg(t) /\ (t = EOF \/ t.tag = "rparen")
      /\ frames' = IF t # EOF /\ RightArgCount(Len(Opened)) THEN WithTop(f) ELSE PopFrame
  BY <1>0 DEF EndOfArgs
<1>2. t # STOP
  BY <1>1 DEF EOF, STOP, Tag
<1>3. /\ Nested(contexts', frames) /\ Alone(contexts', disabled') /\ MacrosAreClean'
      /\ frames \in Seq(Frame) /\ frames # <<>> /\ Top \in Frame
      /\ Top = frames[Len(frames)] /\ Top.phase = "args" /\ CleanCalls(frames) /\ CleanCall(Top)
  BY <1>1, <1>2, ReadArgNests
<1>4. ~IsExpanding(Top)
  BY <1>3 DEF IsExpanding
<1>5. CASE frames' = WithTop(f)
  <2>1. /\ f.macro = Top.macro /\ f.base = Top.base /\ f.phase = "subst"
        /\ f.result = Top.result /\ f.expanded = e
    BY <1>0, <1>3 DEF Frame
  <2>2. \A a \in DOMAIN e : Clean(e[a])
    BY <1>0 DEF Clean
  <2>3. CleanCall(f) /\ ~IsExpanding(f)
    BY <1>3, <2>1, <2>2 DEF CleanCall, IsExpanding
  <2>4. Nested(contexts', frames') /\ CleanCalls(frames')
    BY <1>3, <1>4, <1>5, <2>1, <2>3, WithTopNests DEF Parts, FramesOK
  <2> QED
    BY <1>3, <2>4 DEF Nesting
<1>6. CASE frames' = PopFrame
  <2>1. Nested(contexts', frames') /\ CleanCalls(frames')
    BY <1>3, <1>4, <1>6, NestPop, CleanCallsKept DEF PopFrame
  <2> QED
    BY <1>3, <2>1 DEF Nesting
<1> QED
  BY <1>1, <1>5, <1>6

LEMMA NextArgNests ==
  ASSUME Parts, Parts', Nesting, NextArg PROVE Nesting'
<1>0. PICK t, f : t = Peek(contexts) /\ f = [Top EXCEPT !.args = Opened, !.newArg = TRUE]
  OBVIOUS
<1>1. ReadArg(t) /\ t.tag = "comma" /\ frames' = WithTop(f)
  BY <1>0 DEF NextArg, Separates
<1>2. t # STOP
  BY <1>1 DEF STOP, Tag
<1>3. /\ Nested(contexts', frames) /\ Alone(contexts', disabled') /\ MacrosAreClean'
      /\ frames \in Seq(Frame) /\ frames # <<>> /\ Top \in Frame
      /\ Top = frames[Len(frames)] /\ Top.phase = "args" /\ CleanCalls(frames) /\ CleanCall(Top)
  BY <1>1, <1>2, ReadArgNests
<1>4. /\ f.macro = Top.macro /\ f.base = Top.base /\ f.phase = "args" /\ f.newArg = TRUE
      /\ f.result = Top.result /\ f.expanded = Top.expanded
  BY <1>0, <1>3 DEF Frame
<1>5. CleanCall(f) /\ ~IsExpanding(f) /\ ~IsExpanding(Top)
  BY <1>3, <1>4 DEF CleanCall, IsExpanding
<1>6. Nested(contexts', frames') /\ CleanCalls(frames')
  BY <1>1, <1>3, <1>4, <1>5, WithTopNests DEF Parts, FramesOK
<1> QED
  BY <1>3, <1>6 DEF Nesting

LEMMA ArgTokenNests ==
  ASSUME Parts, Parts', Nesting, ArgumentsEnd', ArgToken PROVE Nesting'
<1>0. PICK t, n, top, last, as, dp, f :
        /\ t = Peek(contexts) /\ n = Len(Opened) /\ top = Top /\ last = Append(Opened[n], t)
        /\ as = [Opened EXCEPT ![n] = last]
        /\ dp = CASE t.tag = "lparen" -> Top.depth + 1
                  [] t.tag = "rparen" -> Top.depth - 1
                  [] OTHER            -> Top.depth
        /\ f = [top EXCEPT !.args = as, !.newArg = FALSE, !.depth = dp]
  OBVIOUS
<1>1. ReadArg(t) /\ frames' = WithTop(f)
  <2>1. /\ ReadArg(t)
        /\ frames' = WithTop(
             [Top EXCEPT !.args   = [Opened EXCEPT ![Len(Opened)] = Append(@, t)],
                         !.newArg = FALSE,
                         !.depth  = CASE t.tag = "lparen" -> @ + 1
                                      [] t.tag = "rparen" -> @ - 1
                                      [] OTHER            -> @])
    BY <1>0 DEF ArgToken
  <2> QED
    BY <1>0, <2>1
<1>2. /\ frames \in Seq(Frame) /\ frames # <<>> /\ top \in Frame /\ top.phase = "args"
      /\ top = frames[Len(frames)] /\ CleanCall(top) /\ Opened \in Seq(Seq(Token)) /\ t \in Token
  <2>1. FramesOK(frames, macros) /\ frames # <<>> /\ Top \in Frame /\ CallOK(Top, macros)
        /\ Top.phase = "args" /\ t \in Token
    BY <1>1, ReadArgStep
  <2>2. frames \in Seq(Frame) /\ CleanCalls(frames)
    BY <2>1 DEF FramesOK, Nesting
  <2>3. top = frames[Len(frames)] /\ CleanCall(top)
    BY <1>0, <2>1, <2>2, CleanCallsKept DEF Top
  <2> QED
    BY <1>0, <2>1, <2>2, <2>3, OpenedProperties
<1>3. n \in Nat \ {0} /\ DOMAIN Opened = 1 .. n
  <2>1. n \in Nat /\ DOMAIN Opened = 1 .. n
    BY <1>0, <1>2, LenProperties
  <2>2. n # 0
    <3>1. CASE top.newArg
      <4>1. top.args \in Seq(Seq(Token)) /\ <<>> \in Seq(Token)
        BY <1>2, EmptySeq DEF Frame
      <4>2. Opened = Append(top.args, <<>>)
        BY <1>0, <3>1 DEF Opened
      <4> QED
        BY <1>0, <4>1, <4>2, AppendProperties, LenProperties
    <3>2. CASE ~top.newArg
      <4>1. Opened = top.args /\ top.args # <<>>
        BY <1>0, <1>2, <3>2 DEF Opened, CleanCall
      <4> QED
        BY <1>0, <1>2, <4>1, EmptySeq
    <3> QED
      BY <3>1, <3>2
  <2> QED
    BY <2>1, <2>2
<1>4. /\ f.macro = top.macro /\ f.base = top.base /\ f.phase = "args" /\ f.newArg = FALSE
      /\ f.args = as /\ f.result = top.result /\ f.expanded = top.expanded
  BY <1>0, <1>2 DEF Frame
<1>5. n \in DOMAIN as /\ as[n] = last /\ as # <<>>
  BY <1>0, <1>3
<1>6. t # STOP
  <2>1. PICK gs : gs = frames'
    OBVIOUS
  <2>2. gs \in Seq(Frame) /\ gs = [frames EXCEPT ![Len(frames)] = f]
    BY <1>1, <2>1 DEF Parts, FramesOK, WithTop
  <2>3. PICK k : k = Len(frames)
    OBVIOUS
  <2>4. k \in DOMAIN gs /\ gs[k] = f
    BY <1>2, <2>2, <2>3, TopReplaced
  <2>5. Clean(gs[k].args[n])
    BY <1>4, <1>5, <2>1, <2>4 DEF ArgumentsEnd
  <2>6. Clean(last)
    BY <1>4, <1>5, <2>4, <2>5
  <2>7. PICK s : s = Opened[n]
    OBVIOUS
  <2>8. s \in Seq(Token)
    BY <1>0, <1>2, <1>3, <2>7, ElementOfSeq
  <2>9. Len(s) \in Nat /\ Len(last) = Len(s) + 1 /\ last[Len(s) + 1] = t /\ last \in Seq(Token)
    BY <1>0, <1>2, <2>7, <2>8, AppendProperties, LenProperties
  <2>10. Len(s) + 1 \in DOMAIN last
    BY <2>9, LenProperties
  <2> QED
    BY <2>6, <2>9, <2>10 DEF Clean
<1>7. /\ Nested(contexts', frames) /\ Alone(contexts', disabled') /\ MacrosAreClean'
      /\ CleanCalls(frames)
  BY <1>1, <1>6, ReadArgNests
<1>8. CleanCall(f) /\ ~IsExpanding(f) /\ ~IsExpanding(top)
  BY <1>2, <1>4, <1>5 DEF CleanCall, IsExpanding
<1>9. Nested(contexts', frames') /\ CleanCalls(frames')
  <2>1. frames' \in Seq(Frame) /\ top = Top
    BY <1>0 DEF Parts, FramesOK
  <2> QED
    BY <1>1, <1>2, <1>4, <1>7, <1>8, <2>1, WithTopNests
<1> QED
  BY <1>7, <1>9 DEF Nesting

\* A step of the substitution leaves the contexts alone.
LEMMA SubstNests ==
  ASSUME Parts, Parts', Nesting, Substituting,
         NEW f, f.macro = Top.macro, f.base = Top.base, f.phase = "subst",
         Clean(f.result), f.expanded = Top.expanded,
         frames' = WithTop(f), UNCHANGED <<macros, disabled, contexts, output, finished>>
  PROVE  Nesting'
<1>1. /\ frames \in Seq(Frame) /\ frames # <<>> /\ Top.phase = "subst" /\ frames' \in Seq(Frame)
      /\ Top = frames[Len(frames)] /\ CleanCalls(frames) /\ Nested(contexts, frames)
  BY DEF Substituting, Parts, FramesOK, Nesting, Top
<1>2. CleanCall(Top)
  BY <1>1, CleanCallsKept
<1>3. CleanCall(f) /\ ~IsExpanding(f) /\ ~IsExpanding(Top)
  BY <1>1, <1>2 DEF CleanCall, IsExpanding
<1>4. Nested(contexts, frames') /\ CleanCalls(frames')
  BY <1>1, <1>3, WithTopNests
<1> QED
  BY <1>4 DEF Nesting, MacrosAreClean

LEMMA SubstitutedIsClean ==
  ASSUME Parts, Nesting, Substituting
  PROVE  /\ CleanCall(Top) /\ Top \in Frame /\ Top.phase = "subst" /\ CallOK(Top, macros)
         /\ Def.tokens \in Seq(Token) /\ Clean(Def.tokens)
<1>1. /\ frames # <<>> /\ frames \in Seq(Frame) /\ Top \in Frame /\ Top.phase = "subst"
      /\ CallOK(Top, macros) /\ Def \in Macro
  BY SubstitutedTop DEF FramesOK
<1>2. CleanCall(Top)
  BY <1>1, CleanCallsKept DEF Nesting, Top
<1>3. Top.macro \in MacroNames
  BY <1>1 DEF Frame
<1>4. Def.tokens \in Seq(Token) /\ Clean(Def.tokens)
  BY <1>1, <1>3 DEF Macro, Nesting, MacrosAreClean, Def
<1> QED
  BY <1>1, <1>2, <1>4

LEMMA AddNests ==
  ASSUME Parts, Parts', Nesting, Substituting, NEW toks \in Seq(Token), Clean(toks), NEW n, Add(toks, n)
  PROVE  Nesting'
<1>0. PICK r, q, f :
        r = Added(toks) /\ q = Top.pos + n /\ f = [Top EXCEPT !.result = r, !.concat = FALSE, !.pos = q]
  OBVIOUS
<1>1. frames' = WithTop(f) /\ UNCHANGED <<macros, disabled, contexts, output, finished>>
  BY <1>0 DEF Add
<1>2. Top \in Frame /\ Top.phase = "subst" /\ Clean(Top.result)
  BY SubstitutedIsClean DEF CleanCall
<1>3. Clean(r)
  BY <1>0, <1>2, AddedIsClean
<1>4. /\ f.macro = Top.macro /\ f.base = Top.base /\ f.phase = "subst" /\ f.result = r
      /\ f.expanded = Top.expanded
  BY <1>0, <1>2 DEF Frame
<1> QED
  BY <1>1, <1>3, <1>4, SubstNests

LEMMA SubstParamNests ==
  ASSUME Parts, Parts', Nesting, ArgumentsEnd, SubstParam PROVE Nesting'
<1>0. PICK p : p = BodyAt(Top.pos).val
  OBVIOUS
<1>1. /\ Substituting /\ p \in 1 .. Len(Top.args)
      /\ Add(Top.args[p], 1) \/ Add(Top.expanded[p], 1)
  BY <1>0 DEF SubstParam
<1>2. CleanCall(Top) /\ Top \in Frame /\ Top.phase = "subst" /\ CallOK(Top, macros)
  BY <1>1, SubstitutedIsClean
<1>3. /\ Top.args \in Seq(Seq(Token)) /\ Top.expanded \in Seq(Seq(Token))
      /\ Len(Top.expanded) = Len(Top.args)
  BY <1>2 DEF Frame, CallOK
<1>4. /\ Top.args[p] \in Seq(Token) /\ Top.expanded[p] \in Seq(Token)
      /\ p \in DOMAIN Top.args /\ p \in DOMAIN Top.expanded
  BY <1>1, <1>3, ElementOfSeq, LenProperties
<1>5. Clean(Top.expanded[p])
  BY <1>2, <1>4 DEF CleanCall
<1>6. Clean(Top.args[p])
  <2>1. Len(frames) \in DOMAIN frames
    BY <1>1, EmptySeq, LenProperties DEF Substituting, Parts, FramesOK
  <2> QED
    BY <1>4, <2>1 DEF ArgumentsEnd, Top
<1> QED
  BY <1>1, <1>4, <1>5, <1>6, AddNests

LEMMA SubstStringifyNests ==
  ASSUME Parts, Parts', Nesting, SubstStringify PROVE Nesting'
<1>0. PICK t, one : t = Tag("string") /\ one = <<t>>
  OBVIOUS
<1>1. Substituting /\ Add(one, 2)
  BY <1>0 DEF SubstStringify
<1>2. t \in Token /\ t # STOP
  BY <1>0 DEF Tag, Token, Tags, STOP
<1>3. one \in Seq(Token) /\ Clean(one)
  BY <1>0, <1>2 DEF Clean
<1> QED
  BY <1>1, <1>3, AddNests

LEMMA SubstPlainNests ==
  ASSUME Parts, Parts', Nesting, SubstPlain PROVE Nesting'
<1>0. PICK i, t, one : i = Top.pos /\ t = BodyAt(i) /\ one = <<t>>
  OBVIOUS
<1>1. Substituting /\ i <= Len(Def.tokens) /\ Add(one, 1)
  BY <1>0 DEF SubstPlain
<1>2. Top \in Frame /\ Def.tokens \in Seq(Token) /\ Clean(Def.tokens)
  BY <1>1, SubstitutedIsClean
<1>3. i \in 1 .. Len(Def.tokens)
  BY <1>0, <1>1, <1>2, LenProperties DEF Frame
<1>4. t \in Token /\ t # STOP
  BY <1>0, <1>2, <1>3, ElementOfSeq, LenProperties DEF BodyAt, Clean
<1>5. one \in Seq(Token) /\ Clean(one)
  BY <1>0, <1>4 DEF Clean
<1> QED
  BY <1>1, <1>5, AddNests

LEMMA SubstMissingNests ==
  ASSUME Parts, Parts', Nesting, SubstMissing PROVE Nesting'
<1>0. PICK q, f : q = Top.pos + 1 /\ f = [Top EXCEPT !.pos = q]
  OBVIOUS
<1>1. /\ Substituting /\ frames' = WithTop(f)
      /\ UNCHANGED <<macros, disabled, contexts, output, finished>>
  BY <1>0 DEF SubstMissing
<1>2. Top \in Frame /\ Top.phase = "subst" /\ Clean(Top.result)
  BY <1>1, SubstitutedIsClean DEF CleanCall
<1>3. /\ f.macro = Top.macro /\ f.base = Top.base /\ f.phase = "subst" /\ f.result = Top.result
      /\ f.expanded = Top.expanded
  BY <1>0, <1>2 DEF Frame
<1> QED
  BY <1>1, <1>2, <1>3, SubstNests

LEMMA SubstConcatNests ==
  ASSUME Parts, Parts', Nesting, SubstConcat PROVE Nesting'
<1>0. PICK q, f : q = Top.pos + 1 /\ f = [Top EXCEPT !.concat = TRUE, !.pos = q]
  OBVIOUS
<1>1. /\ Substituting /\ frames' = WithTop(f)
      /\ UNCHANGED <<macros, disabled, contexts, output, finished>>
  BY <1>0 DEF SubstConcat
<1>2. Top \in Frame /\ Top.phase = "subst" /\ Clean(Top.result)
  BY <1>1, SubstitutedIsClean DEF CleanCall
<1>3. /\ f.macro = Top.macro /\ f.base = Top.base /\ f.phase = "subst" /\ f.result = Top.result
      /\ f.expanded = Top.expanded
  BY <1>0, <1>2 DEF Frame
<1> QED
  BY <1>1, <1>2, <1>3, SubstNests

LEMMA ExpandArgNests ==
  ASSUME Parts, Parts', Nesting, ArgumentsEnd, ExpandArg PROVE Nesting'
<1>0. PICK p, arg, toks, b, m, f :
        /\ p = BodyAt(Top.pos).val /\ arg = Top.args[p] /\ toks = Append(arg, STOP)
        /\ b = Buffer(NoMacro, toks) /\ m = Len(contexts) + 1
        /\ f = [Top EXCEPT !.phase = "argexp", !.base = m]
  OBVIOUS
<1>1. /\ Substituting /\ p \in 1 .. Len(Top.args)
      /\ contexts' = Append(contexts, b) /\ frames' = WithTop(f)
      /\ UNCHANGED <<macros, disabled, output, finished>>
  BY <1>0 DEF ExpandArg, Pushed
<1>2. CleanCall(Top) /\ Top \in Frame /\ Top.phase = "subst"
  BY <1>1, SubstitutedIsClean
<1>3. arg \in Seq(Token) /\ Clean(arg)
  <2>1. arg \in Seq(Token) /\ p \in DOMAIN Top.args
    BY <1>0, <1>1, <1>2, ElementOfSeq, LenProperties DEF Frame
  <2>2. Len(frames) \in DOMAIN frames
    BY <1>1, EmptySeq, LenProperties DEF Substituting, Parts, FramesOK
  <2> QED
    BY <1>0, <2>1, <2>2 DEF ArgumentsEnd, Top
<1>4. toks \in Seq(Token) /\ Marked(toks)
  <2>1. STOP \in Token
    BY DEF STOP, Tag, Token, Tags
  <2> QED
    BY <1>0, <1>3, <2>1, CleanSequences, AppendProperties
<1>5. b \in Context /\ b.macro = NoMacro /\ b.toks = toks
  BY <1>0, <1>4 DEF Buffer, Context
<1>6. /\ f.macro = Top.macro /\ f.base = m /\ f.phase = "argexp" /\ f.result = Top.result
      /\ f.expanded = Top.expanded
  BY <1>0, <1>2 DEF Frame
<1>7. PICK fs, gs : fs = frames /\ gs = frames'
  OBVIOUS
<1>8. /\ fs \in Seq(Frame) /\ gs \in Seq(Frame) /\ fs # <<>> /\ gs = [fs EXCEPT ![Len(fs)] = f]
      /\ Top = fs[Len(fs)] /\ Nested(contexts, fs) /\ CleanCalls(fs)
  BY <1>1, <1>7 DEF Substituting, Parts, FramesOK, WithTop, Top, Nesting
<1>9. \A k \in DOMAIN fs : fs[k].macro # NoMacro
  <2>1. \A k \in DOMAIN fs : fs[k] \in Frame
    BY <1>8, LenProperties, ElementOfSeq
  <2> QED
    BY <2>1, NamesAssumption DEF Frame
<1>10. contexts \in Seq(Context) /\ contexts # <<>>
  BY DEF Parts, StackOK
<1>11. ~IsExpanding(fs[Len(fs)]) /\ IsExpanding(f) /\ f.macro = fs[Len(fs)].macro
  BY <1>2, <1>6, <1>8 DEF IsExpanding
<1>12. f.base = Len(contexts) + 1
  BY <1>0, <1>6
<1>13. Nested(Append(contexts, b), gs)
  BY <1>4, <1>5, <1>8, <1>9, <1>10, <1>11, <1>12, NestArgument
<1>14. CleanCalls(gs)
  <2>1. CleanCall(f)
    BY <1>2, <1>6 DEF CleanCall
  <2> QED
    BY <1>8, <2>1, CleanCallsKept
<1>15. Alone(contexts', disabled')
  <2>1. Alone(Append(contexts, b), disabled \cup {})
    BY <1>5, <1>10, AlonePush DEF Nesting
  <2> QED
    BY <1>1, <2>1
<1> QED
  BY <1>1, <1>7, <1>13, <1>14, <1>15 DEF Nesting, MacrosAreClean

LEMMA PushExpansionNests ==
  ASSUME Parts, Nesting, PushExpansion PROVE Nesting'
<1>0. PICK m, b, fs : m = Top.macro /\ b = Buffer(m, Top.result) /\ fs = PopFrame
  OBVIOUS
<1>1. /\ Substituting /\ contexts' = Append(contexts, b) /\ disabled' = disabled \cup {m}
      /\ frames' = fs /\ UNCHANGED <<macros, output, finished>>
  BY <1>0 DEF PushExpansion
<1>2. CleanCall(Top) /\ Top \in Frame /\ Top.phase = "subst"
  BY <1>1, SubstitutedIsClean
<1>3. /\ b \in Context /\ b.macro = m /\ b.toks = Top.result /\ Clean(b.toks)
      /\ m \in MacroNames /\ m # NoMacro
  BY <1>0, <1>2, NamesAssumption DEF Buffer, Context, Frame, CleanCall
<1>4. /\ frames \in Seq(Frame) /\ frames # <<>> /\ Top = frames[Len(frames)]
      /\ ~IsExpanding(Top) /\ Nested(contexts, frames) /\ CleanCalls(frames)
      /\ contexts \in Seq(Context) /\ Alone(contexts, disabled)
  BY <1>1, <1>2 DEF Substituting, Parts, FramesOK, StackOK, Top, Nesting, IsExpanding
<1>5. Nested(contexts, fs) /\ AllExpand(fs) /\ CleanCalls(fs)
  BY <1>0, <1>4, NestPop, CleanCallsKept DEF PopFrame
<1>6. Nested(contexts', frames')
  BY <1>1, <1>3, <1>4, <1>5, NestPush
<1>7. m \notin MacrosOf(contexts)
  <2>1. PICK n : n = Len(frames)
    OBVIOUS
  <2>2. n \in DOMAIN frames
    BY <1>4, <2>1, EmptySeq, LenProperties
  <2>3. \A i \in DOMAIN contexts : contexts[i].macro # m
    BY <1>0, <1>4, <2>1, <2>2 DEF Nested, CallsAreFresh
  <2> QED
    BY <2>3 DEF MacrosOf
<1>8. Alone(contexts', disabled')
  BY <1>1, <1>3, <1>4, <1>7, AlonePush
<1> QED
  BY <1>1, <1>5, <1>6, <1>8 DEF Nesting, MacrosAreClean

LEMMA InitNests == Init => Nesting
<1> SUFFICES ASSUME Init PROVE Nesting
  OBVIOUS
<1>1. PICK p \in Programs : macros = p[1] /\ contexts = <<File(p[2])>>
  BY DEF Init
<1>2. disabled = {} /\ frames = <<>>
  BY DEF Init
<1>3. Clean(p[2]) /\ MacrosAreClean
  BY <1>1, MarkerAssumption DEF MacrosAreClean
<1>4. DOMAIN contexts = {1} /\ contexts[1].macro = NoMacro /\ contexts[1].toks = p[2]
  BY <1>1 DEF File
<1>5. Nested(contexts, frames)
  BY <1>2, <1>3, <1>4 DEF Nested, CallsNest, MarkersAreBases, CallsAreFresh
<1>6. CleanCalls(frames) /\ Alone(contexts, disabled)
  BY <1>2, <1>4 DEF CleanCalls, Alone
<1> QED
  BY <1>3, <1>5, <1>6 DEF Nesting

LEMMA StepNests ==
  ASSUME Parts, Parts', Nesting, ArgumentsEnd, ArgumentsEnd', [Next]_vars PROVE Nesting'
<1>1. CASE UNCHANGED vars
  BY <1>1 DEF vars, Nesting, MacrosAreClean
<1>2. CASE Next
  BY <1>2, ExpandCallbackNests, ExpandObjectLikeNests, ExpandFunctionLikeNests,
     ArgumentTokenNests, ReturnTokenNests, DefineNests, UndefNests, IncludeNests,
     EndOfArgsNests, NextArgNests, ArgTokenNests, SubstMissingNests, SubstParamNests,
     ExpandArgNests, SubstConcatNests, SubstStringifyNests, SubstPlainNests,
     PushExpansionNests, Zenon DEF Next
<1> QED
  BY <1>1, <1>2

\* As long as the calls that arguments contain end in them, no macro is expanded
\* inside its own expansion (expand_token, line 557): the macro of a call in
\* progress has no expansion on the stack except in the argument expanded for it,
\* and the marker of that argument is read before its expansion is pushed.
THEOREM NoMacroInItself == Spec /\ []ArgumentsEnd => []NoSelfExpansion
<1>1. Init => Nesting
  BY InitNests
<1>2. Parts /\ Parts' /\ Nesting /\ ArgumentsEnd /\ ArgumentsEnd' /\ [Next]_vars => Nesting'
  BY StepNests
<1>3. Nesting => NoSelfExpansion
  BY NestingIsInv DEF NestingInv
<1>4. Parts <=> IInv
  BY PartsAreIInv
<1> QED
  BY <1>1, <1>2, <1>3, <1>4, Invariance, PTL DEF Spec

-----------------------------------------------------------------------------
(* Parentheses: the depth at which each text is read. *)

LEMMA PathOfNothing ==
  /\ \A a \in Nat : Path(<<>>, a, a)
  /\ \A a, z : Path(<<>>, a, z) => a = z
<1>1. Len(<<>>) = 0
  OBVIOUS
<1>2. ASSUME NEW a \in Nat PROVE Path(<<>>, a, a)
  <2>1. PICK h : h = [i \in 0 .. 0 |-> a]
    OBVIOUS
  <2>2. h \in [0 .. 0 -> Nat] /\ h[0] = a
    BY <2>1
  <2>3. Climbs(<<>>, h)
    BY <1>1 DEF Climbs
  <2> QED
    BY <1>1, <2>2, <2>3 DEF Path
<1>3. \A a, z : Path(<<>>, a, z) => a = z
  BY <1>1 DEF Path
<1> QED
  BY <1>2, <1>3

LEMMA PathEnds ==
  ASSUME NEW s \in Seq(Token), NEW a, NEW z, Path(s, a, z)
  PROVE  a \in Nat /\ z \in Nat
<1>1. Len(s) \in Nat
  BY LenProperties
<1>2. PICK h \in [0 .. Len(s) -> Nat] : h[0] = a /\ h[Len(s)] = z
  BY DEF Path
<1>3. 0 \in 0 .. Len(s) /\ Len(s) \in 0 .. Len(s)
  BY <1>1
<1> QED
  BY <1>2, <1>3

LEMMA PathOfToken ==
  ASSUME NEW t \in Token, t # EOF, NEW a \in Nat, a + Weight(t) \in Nat
  PROVE  Path(<<t>>, a, a + Weight(t))
<1>0. PICK s, w, h : s = <<t>> /\ w = Weight(t) /\ h = [i \in 0 .. 1 |-> IF i = 0 THEN a ELSE a + w]
  OBVIOUS
<1>1. Len(s) = 1 /\ s[1] = t
  BY <1>0
<1>2. h \in [0 .. 1 -> Nat] /\ h[0] = a /\ h[1] = a + w
  BY <1>0
<1>3. \A i \in 1 .. 1 : i = 1 /\ i - 1 = 0
  OBVIOUS
<1>4. Climbs(s, h)
  BY <1>0, <1>1, <1>2, <1>3 DEF Climbs
<1>5. Path(s, a, a + w)
  BY <1>1, <1>2, <1>4 DEF Path
<1> QED
  BY <1>0, <1>5

LEMMA PathTail ==
  ASSUME NEW s \in Seq(Token), s # <<>>, NEW a, NEW z, Path(s, a, z)
  PROVE  /\ Head(s) # EOF /\ a + Weight(Head(s)) \in Nat
         /\ Path(Tail(s), a + Weight(Head(s)), z)
<1>0. PICK n, r, w : n = Len(s) /\ r = Tail(s) /\ w = Weight(Head(s))
  OBVIOUS
<1>1. /\ n \in Nat /\ n # 0 /\ Len(r) = n - 1 /\ Head(s) = s[1]
      /\ \A i \in 1 .. n - 1 : r[i] = s[i + 1]
  BY <1>0, LenProperties, EmptySeq, HeadTailProperties
<1>2. PICK h : h \in [0 .. n -> Nat] /\ h[0] = a /\ h[n] = z /\ Climbs(s, h)
  BY <1>0 DEF Path
<1>3. \A i \in 1 .. n : s[i] # EOF /\ h[i] = h[i - 1] + Weight(s[i])
  BY <1>0, <1>2 DEF Climbs
<1>4. s[1] # EOF /\ h[1] = a + w /\ h[1] \in Nat
  <2>1. 1 \in 1 .. n /\ 1 - 1 = 0 /\ 1 \in 0 .. n
    BY <1>1
  <2> QED
    BY <1>0, <1>1, <1>2, <1>3, <2>1
<1>5. PICK g : g = [i \in 0 .. n - 1 |-> h[i + 1]]
  OBVIOUS
<1>6. g \in [0 .. n - 1 -> Nat] /\ g[0] = a + w /\ g[n - 1] = z
  <2>1. \A i \in 0 .. n - 1 : i + 1 \in 0 .. n
    BY <1>1
  <2>2. 0 \in 0 .. n - 1 /\ n - 1 \in 0 .. n - 1 /\ 0 + 1 = 1 /\ n - 1 + 1 = n
    BY <1>1
  <2> QED
    BY <1>2, <1>4, <1>5, <2>1, <2>2
<1>7. ASSUME NEW i \in 1 .. n - 1
      PROVE  r[i] # EOF /\ g[i] = g[i - 1] + Weight(r[i])
  <2>1. i + 1 \in 1 .. n /\ i \in 0 .. n - 1 /\ i - 1 \in 0 .. n - 1 /\ i + 1 - 1 = i /\ i - 1 + 1 = i
    BY <1>1
  <2>2. r[i] = s[i + 1] /\ g[i] = h[i + 1] /\ g[i - 1] = h[i]
    BY <1>1, <1>5, <2>1
  <2>3. s[i + 1] # EOF /\ h[i + 1] = h[i] + Weight(s[i + 1])
    BY <1>3, <2>1
  <2> QED
    BY <2>2, <2>3
<1>8. Climbs(r, g)
  BY <1>1, <1>7 DEF Climbs
<1>9. Path(r, a + w, z)
  BY <1>1, <1>6, <1>8 DEF Path
<1> QED
  BY <1>0, <1>1, <1>4, <1>9

\* One text after another.
LEMMA PathConcat ==
  ASSUME NEW s \in Seq(Token), NEW r \in Seq(Token), NEW a, NEW b, NEW z,
         Path(s, a, b), Path(r, b, z)
  PROVE  Path(s \o r, a, z)
<1>0. PICK n, m, q : n = Len(s) /\ m = Len(r) /\ q = s \o r
  OBVIOUS
<1>1. /\ n \in Nat /\ m \in Nat /\ Len(q) = n + m
      /\ \A i \in 1 .. n + m : q[i] = IF i <= n THEN s[i] ELSE r[i - n]
  BY <1>0, LenProperties, ConcatProperties
<1>2. PICK h : h \in [0 .. n -> Nat] /\ h[0] = a /\ h[n] = b /\ Climbs(s, h)
  BY <1>0 DEF Path
<1>3. PICK k : k \in [0 .. m -> Nat] /\ k[0] = b /\ k[m] = z /\ Climbs(r, k)
  BY <1>0 DEF Path
<1>4. PICK g : g = [i \in 0 .. n + m |-> IF i <= n THEN h[i] ELSE k[i - n]]
  OBVIOUS
<1>5. g \in [0 .. n + m -> Nat]
  <2>1. \A i \in 0 .. n + m : IF i <= n THEN i \in 0 .. n ELSE i - n \in 0 .. m
    BY <1>1
  <2> QED
    BY <1>2, <1>3, <1>4, <2>1
<1>6. g[0] = a /\ g[n + m] = z
  <2>1. 0 \in 0 .. n + m /\ n + m \in 0 .. n + m /\ 0 <= n /\ n + m - n = m
    BY <1>1
  <2>2. g[0] = a
    BY <1>2, <1>4, <2>1
  <2>3. CASE m = 0
    <3>1. n + m = n /\ n <= n
      BY <1>1, <2>3
    <3>2. g[n] = h[n]
      BY <1>4, <2>1, <3>1
    <3>3. b = z
      BY <1>3, <2>3
    <3>4. g[n + m] = g[n]
      BY <3>1, Zenon
    <3> QED
      BY <1>2, <2>2, <3>2, <3>3, <3>4
  <2>4. CASE m # 0
    <3>1. ~(n + m <= n)
      BY <1>1, <2>4
    <3>2. PICK e : e = n + m
      OBVIOUS
    <3>3. g[e] = k[e - n] /\ e - n = m
      BY <1>1, <1>4, <2>1, <3>1, <3>2
    <3> QED
      BY <1>3, <2>2, <3>2, <3>3
  <2> QED
    BY <2>3, <2>4
<1>7. ASSUME NEW i \in 1 .. n + m
      PROVE  q[i] # EOF /\ g[i] = g[i - 1] + Weight(q[i])
  <2>1. i \in 0 .. n + m /\ i - 1 \in 0 .. n + m
    BY <1>1
  <2>2. CASE i <= n
    <3>1. i \in 1 .. n /\ i - 1 <= n
      BY <1>1, <2>2
    <3>2. q[i] = s[i] /\ g[i] = h[i] /\ g[i - 1] = h[i - 1]
      BY <1>1, <1>4, <2>1, <2>2, <3>1
    <3>3. s[i] # EOF /\ h[i] = h[i - 1] + Weight(s[i])
      BY <1>0, <1>2, <3>1 DEF Climbs
    <3> QED
      BY <3>2, <3>3
  <2>3. CASE ~(i <= n)
    <3>1. PICK j : j = i - n
      OBVIOUS
    <3>2. j \in 1 .. m
      BY <1>1, <2>3, <3>1
    <3>3. q[i] = r[j] /\ g[i] = k[j]
      BY <1>1, <1>4, <2>1, <2>3, <3>1
    <3>4. g[i - 1] = k[j - 1]
      <4>1. CASE i - 1 <= n
        <5>1. i - 1 = n /\ j - 1 = 0
          BY <1>1, <2>3, <3>1, <4>1
        <5> QED
          BY <1>2, <1>3, <1>4, <2>1, <4>1, <5>1
      <4>2. CASE ~(i - 1 <= n)
        <5>1. i - 1 - n = j - 1
          BY <1>1, <3>1
        <5> QED
          BY <1>4, <2>1, <4>2, <5>1
      <4> QED
        BY <4>1, <4>2
    <3>5. r[j] # EOF /\ k[j] = k[j - 1] + Weight(r[j])
      BY <1>0, <1>3, <3>2 DEF Climbs
    <3> QED
      BY <3>3, <3>4, <3>5
  <2> QED
    BY <2>2, <2>3
<1>8. Climbs(q, g)
  BY <1>1, <1>7 DEF Climbs
<1>9. Path(q, a, z)
  BY <1>1, <1>5, <1>6, <1>8 DEF Path
<1> QED
  BY <1>0, <1>9

\* The same text, deeper.
LEMMA PathShift ==
  ASSUME NEW s \in Seq(Token), NEW a, NEW z, Path(s, a, z), NEW c \in Nat
  PROVE  Path(s, a + c, z + c)
<1>0. PICK n : n = Len(s)
  OBVIOUS
<1>1. n \in Nat
  BY <1>0, LenProperties
<1>2. PICK h : h \in [0 .. n -> Nat] /\ h[0] = a /\ h[n] = z /\ Climbs(s, h)
  BY <1>0 DEF Path
<1>3. PICK g : g = [i \in 0 .. n |-> h[i] + c]
  OBVIOUS
<1>4. g \in [0 .. n -> Nat] /\ g[0] = a + c /\ g[n] = z + c
  BY <1>1, <1>2, <1>3
<1>5. ASSUME NEW i \in 1 .. n
      PROVE  s[i] # EOF /\ g[i] = g[i - 1] + Weight(s[i])
  <2>1. i \in 0 .. n /\ i - 1 \in 0 .. n
    BY <1>1
  <2>2. s[i] # EOF /\ h[i] = h[i - 1] + Weight(s[i])
    BY <1>0, <1>2 DEF Climbs
  <2>3. h[i] \in Nat /\ h[i - 1] \in Nat /\ g[i] = h[i] + c /\ g[i - 1] = h[i - 1] + c
    BY <1>2, <1>3, <2>1
  <2>4. Weight(s[i]) \in Int
    BY DEF Weight
  <2>5. PICK x, y, w : x = h[i] /\ y = h[i - 1] /\ w = Weight(s[i])
    OBVIOUS
  <2>6. x + c = y + c + w
    BY <2>2, <2>3, <2>4, <2>5
  <2> QED
    BY <2>2, <2>3, <2>5, <2>6
<1>6. Climbs(s, g)
  BY <1>0, <1>5 DEF Climbs
<1>7. Path(s, a + c, z + c)
  BY <1>0, <1>4, <1>6 DEF Path
<1> QED
  BY <1>7

LEMMA PathAppend ==
  ASSUME NEW s \in Seq(Token), NEW a, NEW z, Path(s, a, z),
         NEW t \in Token, t # EOF, z + Weight(t) \in Nat
  PROVE  Path(Append(s, t), a, z + Weight(t))
<1>0. PICK r, w : r = <<t>> /\ w = Weight(t)
  OBVIOUS
<1>1. z \in Nat
  BY PathEnds
<1>2. Path(r, z, z + w)
  BY <1>0, <1>1, PathOfToken
<1>3. r \in Seq(Token) /\ Append(s, t) = s \o r
  BY <1>0
<1>4. Path(s \o r, a, z + w)
  BY <1>2, <1>3, PathConcat
<1> QED
  BY <1>0, <1>3, <1>4

\* Another token of the same weight in the last place.
LEMMA PathLast ==
  ASSUME NEW s \in Seq(Token), s # <<>>, NEW a, NEW z, Path(s, a, z),
         NEW t \in Token, t # EOF, Weight(t) = Weight(s[Len(s)])
  PROVE  Path(Append(SubSeq(s, 1, Len(s) - 1), t), a, z)
<1>0. PICK n, l, q : n = Len(s) /\ l = SubSeq(s, 1, Len(s) - 1) /\ q = Append(l, t)
  OBVIOUS
<1>1. n \in Nat /\ n # 0 /\ l \in Seq(Token) /\ Len(l) = n - 1 /\ \A i \in 1 .. n - 1 : l[i] = s[i]
  BY <1>0, LenProperties, EmptySeq, FrontOfSeq
<1>2. Len(q) = n /\ q[n] = t /\ \A i \in 1 .. n - 1 : q[i] = s[i]
  BY <1>0, <1>1, AppendProperties
<1>3. PICK h : h \in [0 .. n -> Nat] /\ h[0] = a /\ h[n] = z /\ Climbs(s, h)
  BY <1>0 DEF Path
<1>4. ASSUME NEW i \in 1 .. n
      PROVE  q[i] # EOF /\ h[i] = h[i - 1] + Weight(q[i])
  <2>1. s[i] # EOF /\ h[i] = h[i - 1] + Weight(s[i])
    BY <1>0, <1>3 DEF Climbs
  <2>2. i = n \/ i \in 1 .. n - 1
    BY <1>1
  <2>3. CASE i = n
    BY <1>0, <1>2, <2>1, <2>3
  <2>4. CASE i \in 1 .. n - 1
    BY <1>2, <2>1, <2>4
  <2> QED
    BY <2>2, <2>3, <2>4
<1>5. Climbs(q, h)
  BY <1>2, <1>4 DEF Climbs
<1>6. Path(q, a, z)
  BY <1>2, <1>3, <1>5 DEF Path
<1> QED
  BY <1>0, <1>6

\* What ## does to the depth, when no parenthesis is pasted.
LEMMA PathPasted ==
  ASSUME NEW s \in Seq(Token), s # <<>>, NEW r \in Seq(Token), r # <<>>,
         NEW a, NEW b, NEW z, Path(s, a, b), Path(r, b, z), Weight(Head(r)) = 0
  PROVE  Path(SubSeq(s, 1, Len(s) - 1) \o <<Paste(s[Len(s)], Head(r))>> \o Tail(r), a, z)
<1>0. PICK l, e, t, one, q :
        /\ l = SubSeq(s, 1, Len(s) - 1) /\ e = s[Len(s)] /\ t = Paste(e, Head(r)) /\ one = <<t>>
        /\ q = Append(l, t)
  OBVIOUS
<1>1. l \in Seq(Token) /\ e \in Token /\ Head(r) \in Token /\ Tail(r) \in Seq(Token) /\ b \in Nat
  <2>1. Len(s) \in 1 .. Len(s)
    BY LenProperties, EmptySeq
  <2> QED
    BY <1>0, <2>1, FrontOfSeq, ElementOfSeq, HeadTailProperties, PathEnds
<1>2. e # EOF
  <2>1. PICK n : n = Len(s)
    OBVIOUS
  <2>2. PICK h : Climbs(s, h)
    BY DEF Path
  <2>3. n \in 1 .. Len(s)
    BY <2>1, LenProperties, EmptySeq
  <2> QED
    BY <1>0, <2>1, <2>2, <2>3 DEF Climbs
<1>3. t \in Token /\ t # EOF /\ Weight(t) = Weight(e)
  <2>1. t \in Token
    BY <1>0, <1>1, PasteIsToken
  <2>2. CASE e.tag = "ident" /\ Head(r).tag = "ident"
    <3>1. t.tag = "ident"
      BY <1>0, <2>2 DEF Paste, Ident
    <3> QED
      BY <2>1, <2>2, <3>1 DEF Weight, EOF, Tag
  <2>3. CASE ~(e.tag = "ident" /\ Head(r).tag = "ident")
    <3>1. t = e
      BY <1>0, <2>3 DEF Paste
    <3> QED
      BY <1>2, <2>1, <3>1
  <2> QED
    BY <2>2, <2>3
<1>4. Path(q, a, b)
  BY <1>0, <1>3, PathLast
<1>5. Path(Tail(r), b, z)
  <2>1. Path(Tail(r), b + Weight(Head(r)), z)
    BY PathTail
  <2>2. b + Weight(Head(r)) = b
    BY <1>1
  <2> QED
    BY <2>1, <2>2
<1>6. q \in Seq(Token) /\ q = l \o one
  BY <1>0, <1>1, <1>3, AppendProperties
<1>7. Path(q \o Tail(r), a, z)
  BY <1>1, <1>4, <1>5, <1>6, PathConcat
<1> QED
  BY <1>0, <1>6, <1>7

\* The depth above exhausted texts is the depth below them.
LEMMA SameAbove ==
  ASSUME NEW n \in Nat, NEW k \in 1 .. n, NEW H, \A i \in k + 1 .. n : H[i] = H[i - 1]
  PROVE  H[n] = H[k]
<1> DEFINE S == {j \in 0 .. n - k : H[k + j] = H[k]}
<1>1. n - k \in Nat /\ k + (n - k) = n /\ k + 0 = k
  OBVIOUS
<1>2. 0 \in S
  BY <1>1
<1>3. ASSUME NEW j \in Nat, j < n - k, j \in S PROVE j + 1 \in S
  <2>1. k + (j + 1) \in k + 1 .. n /\ k + (j + 1) - 1 = k + j /\ j + 1 \in 0 .. n - k
    BY <1>3
  <2>2. H[k + (j + 1)] = H[k + j] /\ H[k + j] = H[k]
    BY <1>3, <2>1
  <2> QED
    BY <2>1, <2>2
<1>4. n - k \in 0 .. n - k
  BY <1>1
<1> HIDE DEF S
<1>5. \A j \in 0 .. n - k : j \in S
  BY <1>1, <1>2, <1>3, SetInduction
<1>6. H[k + (n - k)] = H[k]
  BY <1>4, <1>5 DEF S
<1> QED
  BY <1>1, <1>6

-----------------------------------------------------------------------------
(* The depth of the parentheses in the argument that each call is expanding, *)
(* down the context stack: H[i] is the depth at which context i is entered. *)

\* What expand_macro_arg has received of the argument.
Gathered(f, ms) == f.expanded[ms[f.macro].tokens[f.pos].val]

Bases(es) == {es[k].base : k \in DOMAIN es}

\* An argument is closed where its text ends, and the call inside it is at the
\* depth that the tokens before the call have left.
Levels(cs, es, ms, H) ==
  /\ H \in [1 .. Len(cs) -> Nat]
  /\ \A i \in 1 .. Len(cs) : es[1].base <= i =>
       /\ i \in Bases(es) => Path(cs[i].toks, H[i], 0)
       /\ i \notin Bases(es) => Path(cs[i].toks, H[i], H[i - 1])
  /\ \A k \in 1 .. Len(es) - 1 : Path(Gathered(es[k], ms), 0, H[es[k + 1].base - 1])

\* The text that is read next is at depth y.
Depth(cs, es, ms, y) == \E H : Levels(cs, es, ms, H) /\ H[Len(cs)] = y

BasesOK(cs, es) ==
  /\ es \in Seq(Frame) /\ es # <<>> /\ Len(es) \in Nat \ {0} /\ DOMAIN es = 1 .. Len(es)
  /\ Len(cs) \in Nat /\ DOMAIN cs = 1 .. Len(cs)
  /\ \A k \in 1 .. Len(es) :
       /\ es[k].base \in 2 .. Len(cs) /\ Marked(cs[es[k].base].toks)
       /\ es[1].base <= es[k].base /\ es[k].base <= es[Len(es)].base
       /\ k < Len(es) => es[k].base < es[Len(es)].base
  /\ \A i \in 1 .. Len(cs) : Clean(cs[i].toks) \/ i \in Bases(es)

LEMMA NestBases ==
  ASSUME NEW cs \in Seq(Context), NEW es \in Seq(Frame), es # <<>>, Nested(cs, es), AllExpand(es)
  PROVE  BasesOK(cs, es)
<1>0. PICK n : n = Len(es)
  OBVIOUS
<1>1. n \in Nat \ {0} /\ DOMAIN es = 1 .. n /\ Len(cs) \in Nat /\ DOMAIN cs = 1 .. Len(cs)
  BY <1>0, LenProperties, EmptySeq
<1>2. \A k \in 1 .. n : IsExpanding(es[k])
  BY <1>1 DEF AllExpand
<1>3. \A k \in 1 .. n : es[k].base \in 2 .. Len(cs) /\ Marked(cs[es[k].base].toks)
  BY <1>1, <1>2 DEF Nested, CallsNest
<1>4. \A k, l \in 1 .. n : k < l => es[k].base < es[l].base
  BY <1>1, <1>2 DEF Nested, CallsNest
<1>5. ASSUME NEW k \in 1 .. n
      PROVE  /\ es[1].base <= es[k].base /\ es[k].base <= es[n].base
             /\ k < n => es[k].base < es[n].base
  <2>1. 1 \in 1 .. n /\ n \in 1 .. n /\ (k = 1 \/ 1 < k) /\ (k = n \/ k < n)
    BY <1>1
  <2>2. es[1].base \in Nat /\ es[k].base \in Nat /\ es[n].base \in Nat
    BY <1>1, <1>3, <2>1
  <2> QED
    BY <1>4, <2>1, <2>2
<1>6. \A i \in 1 .. Len(cs) : Clean(cs[i].toks) \/ i \in Bases(es)
  BY <1>1 DEF Nested, MarkersAreBases, Bases
<1> QED
  BY <1>0, <1>1, <1>3, <1>5, <1>6 DEF BasesOK

\* Above the text that is read next, the depth does not change.
LEMMA DepthAtSource ==
  ASSUME NEW cs \in Seq(Context), cs # <<>>, NEW es, BasesOK(cs, es),
         NEW ms, NEW H, Levels(cs, es, ms, H),
         NEW k, k = Source(cs), NEW rs, rs = AfterRead(cs)
  PROVE  /\ H[k] = H[Len(cs)] /\ H[k] \in Nat
         /\ \A j \in 1 .. Len(es) : es[j].base <= k
         /\ cs[k].toks # <<>>
         /\ k \in Bases(es) => Path(cs[k].toks, H[k], 0)
         /\ k \notin Bases(es) => Path(cs[k].toks, H[k], H[k - 1])
<1>0. PICK n : n = Len(cs)
  OBVIOUS
<1>1. /\ k \in 1 .. n /\ n \in Nat
      /\ \A i \in 1 .. n : cs[i].toks \in Seq(Token) /\ (i > k => cs[i].toks = <<>>)
  BY <1>0, ReadTexts DEF ReadGives
<1>2. \A i \in Bases(es) : i \in 2 .. n /\ cs[i].toks # <<>>
  BY <1>0 DEF BasesOK, Bases, Marked
<1>3. \A j \in 1 .. Len(es) : es[j].base \in Bases(es) /\ es[1].base <= es[j].base
  BY DEF BasesOK, Bases
<1>4. \A i \in Bases(es) : i <= k
  BY <1>1, <1>2
<1>5. es[1].base \in 2 .. n /\ es[1].base <= k
  <2>1. 1 \in 1 .. Len(es)
    BY DEF BasesOK
  <2> QED
    BY <1>2, <1>3, <1>4, <2>1
<1>6. H \in [1 .. n -> Nat]
  BY <1>0 DEF Levels
<1>7. ASSUME NEW i \in 1 .. n, es[1].base <= i
      PROVE  /\ i \in Bases(es) => Path(cs[i].toks, H[i], 0)
             /\ i \notin Bases(es) => Path(cs[i].toks, H[i], H[i - 1])
  BY <1>0, <1>7 DEF Levels
<1>8. ASSUME NEW i \in k + 1 .. n PROVE H[i] = H[i - 1]
  <2>1. i \in 1 .. n /\ es[1].base <= i /\ i > k
    BY <1>1, <1>5
  <2>2. i \notin Bases(es)
    BY <1>1, <1>4, <2>1
  <2>3. cs[i].toks = <<>>
    BY <1>1, <2>1
  <2>4. Path(<<>>, H[i], H[i - 1])
    BY <1>7, <2>1, <2>2, <2>3
  <2> QED
    BY <2>4, PathOfNothing
<1>9. H[n] = H[k]
  BY <1>1, <1>8, SameAbove
<1>10. cs[k].toks # <<>>
  <2>1. k # 1
    BY <1>1, <1>5
  <2>2. HasUnread(cs, k)
    BY SourceProperties
  <2> QED
    BY <2>1, <2>2 DEF HasUnread
<1>11. \A j \in 1 .. Len(es) : es[j].base <= k
  BY <1>3, <1>4
<1> QED
  BY <1>0, <1>1, <1>5, <1>6, <1>7, <1>9, <1>10, <1>11

\* A read moves the depth by the token's weight, and leaves the rest alone.
LEMMA DepthRead ==
  ASSUME NEW cs \in Seq(Context), cs # <<>>, NEW es, BasesOK(cs, es), NEW ms,
         NEW y, Depth(cs, es, ms, y), NEW t, t = Peek(cs), t # STOP
  PROVE  /\ t # EOF /\ y + Weight(t) \in Nat
         /\ Depth(AfterRead(cs), es, ms, y + Weight(t))
<1>0. PICK k, rs : k = Source(cs) /\ rs = AfterRead(cs)
  OBVIOUS
<1>1. PICK H : Levels(cs, es, ms, H) /\ H[Len(cs)] = y
  BY DEF Depth
<1>2. /\ H[k] = y /\ y \in Nat
      /\ \A j \in 1 .. Len(es) : es[j].base <= k
      /\ cs[k].toks # <<>>
      /\ k \in Bases(es) => Path(cs[k].toks, y, 0)
      /\ k \notin Bases(es) => Path(cs[k].toks, y, H[k - 1])
  BY <1>0, <1>1, DepthAtSource
<1>3. ReadGives(cs, k, rs)
  BY <1>0, ReadTexts
<1>4. /\ k \in 1 .. Len(cs) /\ Len(cs) \in Nat /\ Len(rs) = k
      /\ \A i \in 1 .. k : i # k => rs[i].toks = cs[i].toks
      /\ cs[k].toks \in Seq(Token) /\ t = Head(cs[k].toks) /\ rs[k].toks = Tail(cs[k].toks)
  BY <1>2, <1>3 DEF ReadGives
<1>5. PICK w, v : w = y + Weight(t) /\ v = IF k \in Bases(es) THEN 0 ELSE H[k - 1]
  OBVIOUS
<1>6. Path(cs[k].toks, y, v)
  BY <1>2, <1>5
<1>7. t # EOF /\ w \in Nat /\ Path(rs[k].toks, w, v)
  BY <1>2, <1>4, <1>5, <1>6, PathTail
<1>8. PICK G : G = [i \in 1 .. k |-> IF i = k THEN w ELSE H[i]]
  OBVIOUS
<1>9. G \in [1 .. k -> Nat] /\ G[k] = w /\ \A i \in 1 .. k : i # k => G[i] = H[i]
  <2>1. H \in [1 .. Len(cs) -> Nat] /\ \A i \in 1 .. k : i \in 1 .. Len(cs)
    BY <1>1, <1>4 DEF Levels
  <2> QED
    BY <1>4, <1>7, <1>8, <2>1
<1>10. ASSUME NEW i \in 1 .. k, es[1].base <= i
       PROVE  /\ i \in Bases(es) => Path(rs[i].toks, G[i], 0)
              /\ i \notin Bases(es) => Path(rs[i].toks, G[i], G[i - 1])
  <2>1. 1 \in 1 .. Len(es) /\ es[1].base \in 2 .. Len(cs)
    BY DEF BasesOK
  <2>2. i \in 1 .. Len(cs) /\ i - 1 \in 1 .. k /\ i - 1 # k
    BY <1>4, <1>10, <2>1
  <2>3. G[i - 1] = H[i - 1]
    BY <1>9, <2>2
  <2>4. CASE i = k
    BY <1>5, <1>7, <1>9, <2>3, <2>4
  <2>5. CASE i # k
    <3>1. rs[i].toks = cs[i].toks /\ G[i] = H[i]
      BY <1>4, <1>9, <2>5
    <3>2. /\ i \in Bases(es) => Path(cs[i].toks, H[i], 0)
          /\ i \notin Bases(es) => Path(cs[i].toks, H[i], H[i - 1])
      BY <1>1, <1>10, <2>2 DEF Levels
    <3> QED
      BY <2>3, <3>1, <3>2
  <2> QED
    BY <2>4, <2>5
<1>11. ASSUME NEW j \in 1 .. Len(es) - 1
       PROVE  Path(Gathered(es[j], ms), 0, G[es[j + 1].base - 1])
  <2>1. j + 1 \in 1 .. Len(es)
    BY DEF BasesOK
  <2>2. PICK b : b = es[j + 1].base
    OBVIOUS
  <2>3. b \in 2 .. Len(cs) /\ b <= k
    BY <1>2, <2>1, <2>2 DEF BasesOK
  <2>4. b - 1 \in 1 .. k /\ b - 1 # k
    BY <1>4, <2>3
  <2>5. G[b - 1] = H[b - 1]
    BY <1>9, <2>4
  <2> QED
    BY <1>1, <2>2, <2>5 DEF Levels
<1>12. Levels(rs, es, ms, G)
  BY <1>4, <1>9, <1>10, <1>11 DEF Levels
<1>13. Depth(rs, es, ms, w)
  BY <1>4, <1>9, <1>12 DEF Depth
<1> QED
  BY <1>0, <1>5, <1>7, <1>13

\* The end marker is met at depth 0, and the call around the argument goes on
\* at the depth its own argument has reached.
LEMMA DepthStop ==
  ASSUME NEW cs \in Seq(Context), cs # <<>>, NEW es, BasesOK(cs, es), NEW ms,
         NEW y, Depth(cs, es, ms, y), Peek(cs) = STOP
  PROVE  /\ y = 0
         /\ Len(es) # 1 => \E a \in Nat :
              /\ Path(Gathered(es[Len(es) - 1], ms), 0, a)
              /\ Depth(AfterRead(cs), SubSeq(es, 1, Len(es) - 1), ms, a)
<1>0. PICK k, rs, n, fs : k = Source(cs) /\ rs = AfterRead(cs) /\ n = Len(es) /\ fs = SubSeq(es, 1, n - 1)
  OBVIOUS
<1>1. PICK H : Levels(cs, es, ms, H) /\ H[Len(cs)] = y
  BY DEF Depth
<1>2. /\ H[k] = y /\ y \in Nat
      /\ \A j \in 1 .. n : es[j].base <= k
      /\ cs[k].toks # <<>>
      /\ k \in Bases(es) => Path(cs[k].toks, y, 0)
  BY <1>0, <1>1, DepthAtSource
<1>3. ReadGives(cs, k, rs)
  BY <1>0, ReadTexts
<1>4. /\ k \in 1 .. Len(cs) /\ Len(cs) \in Nat /\ Len(rs) = k
      /\ \A i \in 1 .. k : i # k => rs[i].toks = cs[i].toks
      /\ cs[k].toks \in Seq(Token) /\ Head(cs[k].toks) = STOP /\ rs[k].toks = Tail(cs[k].toks)
  BY <1>2, <1>3 DEF ReadGives
<1>5. k \in Bases(es)
  <2>1. ~Clean(cs[k].toks)
    BY <1>2, <1>4, CleanSequences
  <2> QED
    BY <1>4, <2>1 DEF BasesOK
<1>6. /\ n \in Nat \ {0} /\ DOMAIN es = 1 .. n
      /\ \A j \in 1 .. n : es[j].base \in 2 .. Len(cs) /\ Marked(cs[es[j].base].toks)
      /\ \A j \in 1 .. n : es[1].base <= es[j].base /\ (j < n => es[j].base < es[n].base)
  BY <1>0 DEF BasesOK
<1>7. es[n].base = k /\ \A j \in 1 .. n : j < n => es[j].base < k
  <2>1. PICK j \in 1 .. n : es[j].base = k
    BY <1>5, <1>6 DEF Bases
  <2>2. n \in 1 .. n /\ es[n].base \in Nat /\ es[n].base <= k /\ k \in Nat
    BY <1>2, <1>4, <1>6
  <2>3. es[n].base = k
    BY <1>6, <2>1, <2>2
  <2> QED
    BY <1>6, <2>3
<1>8. rs[k].toks = <<>> /\ y = 0
  <2>1. Marked(cs[k].toks)
    BY <1>6, <1>7
  <2>2. PICK s, m : s = cs[k].toks /\ m = Len(s)
    OBVIOUS
  <2>3. s \in Seq(Token) /\ m \in Nat /\ m # 0 /\ s[1] = STOP
    BY <1>2, <1>4, <2>2, LenProperties, EmptySeq, HeadTailProperties
  <2>4. \A i \in 1 .. m - 1 : s[i] # STOP
    BY <2>1, <2>2 DEF Marked
  <2>5. m = 1
    BY <2>3, <2>4
  <2>6. Tail(s) \in Seq(Token) /\ Len(Tail(s)) = 0
    <3>1. s # <<>>
      BY <1>2, <2>2
    <3>2. Tail(s) \in Seq(Token) /\ Len(Tail(s)) = m - 1
      BY <2>2, <2>3, <3>1, HeadTailProperties
    <3> QED
      BY <2>5, <3>2
  <2>7. Tail(s) = <<>>
    BY <2>6, EmptySeq
  <2>8. Path(<<>>, y + Weight(STOP), 0)
    BY <1>2, <1>4, <1>5, <2>2, <2>7, PathTail
  <2>9. y + Weight(STOP) = 0
    BY <2>8, PathOfNothing
  <2>10. Weight(STOP) = 0
    BY DEF Weight, STOP, Tag
  <2> QED
    BY <1>2, <1>4, <2>2, <2>7, <2>9, <2>10
<1>9. ASSUME n # 1
      PROVE  \E a \in Nat : Path(Gathered(es[n - 1], ms), 0, a) /\ Depth(rs, fs, ms, a)
  <2>1. /\ Len(fs) = n - 1 /\ DOMAIN fs = 1 .. n - 1 /\ \A j \in 1 .. n - 1 : fs[j] = es[j]
    <3>1. es \in Seq(Frame) /\ es # <<>>
      BY DEF BasesOK
    <3>2. fs \in Seq(Frame) /\ Len(fs) = n - 1 /\ \A j \in 1 .. n - 1 : fs[j] = es[j]
      BY <1>0, <3>1, FrontOfSeq
    <3> QED
      BY <3>2, LenProperties
  <2>2. k \in 2 .. Len(cs) /\ n \in 1 .. n /\ 1 \in 1 .. n - 1 /\ n - 1 \in 1 .. n - 1
        /\ n - 1 \in 1 .. Len(es) - 1 /\ n - 1 + 1 = n
    BY <1>0, <1>6, <1>7, <1>9
  <2>3. PICK a, G : a = H[k - 1] /\ G = [i \in 1 .. k |-> IF i = k THEN a ELSE H[i]]
    OBVIOUS
  <2>4. a \in Nat /\ G \in [1 .. k -> Nat] /\ G[k] = a /\ \A i \in 1 .. k : i # k => G[i] = H[i]
    <3>1. H \in [1 .. Len(cs) -> Nat] /\ k - 1 \in 1 .. Len(cs) /\ \A i \in 1 .. k : i \in 1 .. Len(cs)
      BY <1>1, <1>4, <2>2 DEF Levels
    <3>2. a \in Nat
      BY <2>3, <3>1
    <3>3. k \in 1 .. k
      BY <1>4
    <3>4. G = [i \in 1 .. k |-> IF i = k THEN a ELSE H[i]]
      BY <2>3
    <3> QED
      BY <3>1, <3>2, <3>3, <3>4
  <2>5. Path(Gathered(es[n - 1], ms), 0, a)
    BY <1>1, <1>7, <2>2, <2>3 DEF Levels
  <2>6. \A i \in 1 .. k : i # k => (i \in Bases(es) <=> i \in Bases(fs))
    <3>1. \A j \in 1 .. n : j # n => j \in 1 .. n - 1
      BY <1>6
    <3>2. \A j \in 1 .. n - 1 : j \in 1 .. n
      BY <1>6
    <3> QED
      BY <1>6, <1>7, <2>1, <3>1, <3>2 DEF Bases
  <2>7. k \notin Bases(fs)
    <3>1. \A j \in 1 .. n - 1 : j \in 1 .. n /\ j < n
      BY <1>6
    <3>2. \A j \in 1 .. n - 1 : es[j].base # k
      <4>1. ASSUME NEW j \in 1 .. n - 1 PROVE es[j].base # k
        BY <1>4, <1>6, <1>7, <3>1
      <4> QED
        BY <4>1
    <3> QED
      BY <2>1, <3>2 DEF Bases
  <2>8. ASSUME NEW i \in 1 .. k, fs[1].base <= i
        PROVE  /\ i \in Bases(fs) => Path(rs[i].toks, G[i], 0)
               /\ i \notin Bases(fs) => Path(rs[i].toks, G[i], G[i - 1])
    <3>1. es[1].base <= i /\ es[1].base \in 2 .. Len(cs)
      BY <1>6, <2>1, <2>2, <2>8
    <3>2. i \in 1 .. Len(cs) /\ i - 1 \in 1 .. k /\ i - 1 # k
      BY <1>4, <3>1
    <3>3. G[i - 1] = H[i - 1]
      BY <2>4, <3>2
    <3>4. CASE i = k
      <4>1. a \in Nat /\ Path(rs[i].toks, a, a)
        BY <1>8, <2>4, <3>4, PathOfNothing
      <4> QED
        BY <2>3, <2>4, <2>7, <3>3, <3>4, <4>1
    <3>5. CASE i # k
      <4>1. rs[i].toks = cs[i].toks /\ G[i] = H[i] /\ (i \in Bases(es) <=> i \in Bases(fs))
        BY <1>4, <2>4, <2>6, <3>5
      <4>2. /\ i \in Bases(es) => Path(cs[i].toks, H[i], 0)
            /\ i \notin Bases(es) => Path(cs[i].toks, H[i], H[i - 1])
        BY <1>1, <3>1, <3>2 DEF Levels
      <4> QED
        BY <3>3, <4>1, <4>2
    <3> QED
      BY <3>4, <3>5
  <2>9. ASSUME NEW j \in 1 .. n - 1 - 1
        PROVE  Path(Gathered(fs[j], ms), 0, G[fs[j + 1].base - 1])
    <3>1. /\ j \in 1 .. n - 1 /\ j + 1 \in 1 .. n - 1 /\ j \in 1 .. Len(es) - 1
          /\ j + 1 \in 1 .. n /\ j + 1 < n
      BY <1>0, <1>6
    <3>2. PICK b : b = es[j + 1].base
      OBVIOUS
    <3>3. b \in 2 .. Len(cs) /\ b < k
      BY <1>6, <1>7, <3>1, <3>2
    <3>4. b - 1 \in 1 .. k /\ b - 1 # k
      BY <1>4, <3>3
    <3>5. G[b - 1] = H[b - 1] /\ fs[j] = es[j] /\ fs[j + 1] = es[j + 1]
      BY <2>1, <2>4, <3>1, <3>4
    <3>6. Path(Gathered(es[j], ms), 0, H[es[j + 1].base - 1])
      BY <1>1, <3>1 DEF Levels
    <3> QED
      BY <3>2, <3>5, <3>6
  <2>10. Levels(rs, fs, ms, G)
    BY <1>4, <2>1, <2>4, <2>8, <2>9 DEF Levels
  <2>11. Depth(rs, fs, ms, a)
    BY <1>4, <2>4, <2>10 DEF Depth
  <2> QED
    BY <2>4, <2>5, <2>11
<1> QED
  BY <1>0, <1>8, <1>9


\* A text that closes what it opens may be pushed anywhere.
LEMMA DepthPush ==
  ASSUME NEW cs \in Seq(Context), NEW es, BasesOK(cs, es), NEW ms, NEW y, Depth(cs, es, ms, y),
         NEW b \in Context, Path(b.toks, 0, 0)
  PROVE  Depth(Append(cs, b), es, ms, y)
<1>0. PICK n, rs : n = Len(cs) /\ rs = Append(cs, b)
  OBVIOUS
<1>1. PICK H : Levels(cs, es, ms, H) /\ H[n] = y
  BY <1>0 DEF Depth
<1>2. n \in Nat /\ Len(rs) = n + 1 /\ rs[n + 1] = b /\ \A i \in 1 .. n : rs[i] = cs[i]
  BY <1>0, LenProperties, AppendProperties
<1>3. /\ Len(es) \in Nat \ {0} /\ DOMAIN es = 1 .. Len(es)
      /\ \A k \in 1 .. Len(es) : es[k].base \in 2 .. n
  BY <1>0 DEF BasesOK
<1>4. n \in 1 .. n /\ n + 1 \notin Bases(es) /\ es[1].base \in 2 .. n
  <2>1. 1 \in 1 .. Len(es)
    BY <1>3
  <2>2. n \in 1 .. n /\ n + 1 \notin 2 .. n
    BY <1>2, <1>3, <2>1
  <2> QED
    BY <1>3, <2>1, <2>2 DEF Bases
<1>5. H \in [1 .. n -> Nat] /\ y \in Nat
  BY <1>0, <1>1, <1>4 DEF Levels
<1>6. PICK G : G = [i \in 1 .. n + 1 |-> IF i = n + 1 THEN y ELSE H[i]]
  OBVIOUS
<1>7. G \in [1 .. n + 1 -> Nat] /\ G[n + 1] = y /\ \A i \in 1 .. n : G[i] = H[i]
  <2>1. \A i \in 1 .. n + 1 : i = n + 1 \/ (i # n + 1 /\ i \in 1 .. n)
    BY <1>2
  <2>2. \A i \in 1 .. n : i # n + 1 /\ i \in 1 .. n + 1
    BY <1>2
  <2>3. n + 1 \in 1 .. n + 1
    BY <1>2
  <2> QED
    BY <1>5, <1>6, <2>1, <2>2, <2>3
<1>8. Path(b.toks, y, y)
  <2>1. b.toks \in Seq(Token)
    BY DEF Context
  <2>2. Path(b.toks, 0 + y, 0 + y)
    BY <1>5, <2>1, PathShift
  <2>3. 0 + y = y
    BY <1>5
  <2> QED
    BY <2>2, <2>3
<1>9. ASSUME NEW i \in 1 .. n + 1, es[1].base <= i
      PROVE  /\ i \in Bases(es) => Path(rs[i].toks, G[i], 0)
             /\ i \notin Bases(es) => Path(rs[i].toks, G[i], G[i - 1])
  <2>1. CASE i = n + 1
    <3>1. i - 1 = n /\ i - 1 \in 1 .. n
      BY <1>2, <1>4, <2>1
    <3>2. G[i - 1] = y /\ G[i] = y
      BY <1>1, <1>7, <2>1, <3>1
    <3> QED
      BY <1>2, <1>4, <1>8, <2>1, <3>2
  <2>2. CASE i # n + 1
    <3>1. i \in 1 .. n /\ i - 1 \in 1 .. n
      BY <1>2, <1>4, <1>9, <2>2
    <3>2. rs[i] = cs[i] /\ G[i] = H[i] /\ G[i - 1] = H[i - 1]
      BY <1>2, <1>7, <3>1
    <3>3. /\ i \in Bases(es) => Path(cs[i].toks, H[i], 0)
          /\ i \notin Bases(es) => Path(cs[i].toks, H[i], H[i - 1])
      BY <1>0, <1>1, <1>9, <3>1 DEF Levels
    <3> QED
      BY <3>2, <3>3
  <2> QED
    BY <2>1, <2>2
<1>10. ASSUME NEW j \in 1 .. Len(es) - 1
       PROVE  Path(Gathered(es[j], ms), 0, G[es[j + 1].base - 1])
  <2>1. j + 1 \in 1 .. Len(es)
    BY <1>3
  <2>2. PICK c : c = es[j + 1].base
    OBVIOUS
  <2>3. c - 1 \in 1 .. n
    BY <1>2, <1>3, <2>1, <2>2
  <2>4. G[c - 1] = H[c - 1]
    BY <1>7, <2>3
  <2> QED
    BY <1>1, <2>2, <2>4 DEF Levels
<1>11. Levels(rs, es, ms, G)
  BY <1>2, <1>7, <1>9, <1>10 DEF Levels
<1>12. Depth(rs, es, ms, y)
  BY <1>2, <1>7, <1>11 DEF Depth
<1> QED
  BY <1>0, <1>12

\* A call that starts to expand an argument, inside an argument or in none.
LEMMA DepthArgument ==
  ASSUME NEW cs \in Seq(Context), NEW es \in Seq(Frame), NEW ms,
         NEW a, es # <<>> => BasesOK(cs, es) /\ Path(Gathered(es[Len(es)], ms), 0, a)
                               /\ Depth(cs, es, ms, a),
         NEW b \in Context, Path(b.toks, 0, 0),
         NEW f \in Frame, f.base = Len(cs) + 1
  PROVE  Depth(Append(cs, b), Append(es, f), ms, 0)
<1>0. PICK n, m, rs, gs : n = Len(cs) /\ m = Len(es) /\ rs = Append(cs, b) /\ gs = Append(es, f)
  OBVIOUS
<1>1. n \in Nat /\ Len(rs) = n + 1 /\ rs[n + 1] = b /\ \A i \in 1 .. n : rs[i] = cs[i]
  BY <1>0, LenProperties, AppendProperties
<1>2. /\ m \in Nat /\ Len(gs) = m + 1 /\ gs[m + 1] = f /\ \A k \in 1 .. m : gs[k] = es[k]
      /\ DOMAIN gs = 1 .. m + 1 /\ DOMAIN es = 1 .. m /\ (m = 0 <=> es = <<>>)
  <2>1. m \in Nat /\ DOMAIN es = 1 .. m
    BY <1>0, LenProperties
  <2>2. m = 0 <=> es = <<>>
    BY <1>0, EmptySeq
  <2>3. /\ gs \in Seq(Frame) /\ Len(gs) = m + 1 /\ gs[m + 1] = f
        /\ \A k \in 1 .. m : gs[k] = es[k]
    BY <1>0, AppendProperties
  <2> QED
    BY <2>1, <2>2, <2>3, LenProperties
<1>a. m # 0 => BasesOK(cs, es) /\ Path(Gathered(es[m], ms), 0, a) /\ Depth(cs, es, ms, a)
  BY <1>0, <1>2
<1>3. PICK H : /\ m = 0 => H = [i \in 1 .. n |-> 0]
               /\ m # 0 => Levels(cs, es, ms, H) /\ H[n] = a
  <2>1. CASE m = 0
    BY <2>1
  <2>2. CASE m # 0
    BY <1>0, <1>a, <2>2 DEF Depth
  <2> QED
    BY <2>1, <2>2
<1>4. m # 0 => /\ Levels(cs, es, ms, H) /\ H[n] = a /\ BasesOK(cs, es)
               /\ Path(Gathered(es[m], ms), 0, a)
  BY <1>a, <1>3
<1>5. H \in [1 .. n -> Nat]
  <2>1. CASE m = 0
    BY <1>3, <2>1
  <2>2. CASE m # 0
    BY <1>0, <1>4, <2>2 DEF Levels
  <2> QED
    BY <2>1, <2>2
<1>6. \A k \in 1 .. m : es[k].base \in 2 .. n
  <2>1. CASE m = 0
    BY <2>1
  <2>2. CASE m # 0
    BY <1>0, <1>4, <2>2 DEF BasesOK
  <2> QED
    BY <2>1, <2>2
<1>7. PICK G : G = [i \in 1 .. n + 1 |-> IF i = n + 1 THEN 0 ELSE H[i]]
  OBVIOUS
<1>8. G \in [1 .. n + 1 -> Nat] /\ G[n + 1] = 0 /\ \A i \in 1 .. n : G[i] = H[i]
  <2>1. \A i \in 1 .. n + 1 : i = n + 1 \/ (i # n + 1 /\ i \in 1 .. n)
    BY <1>1
  <2>2. \A i \in 1 .. n : i # n + 1 /\ i \in 1 .. n + 1
    BY <1>1
  <2>3. n + 1 \in 1 .. n + 1
    BY <1>1
  <2> QED
    BY <1>5, <1>7, <2>1, <2>2, <2>3
<1>9. n + 1 \in Bases(gs) /\ \A i \in 1 .. n : i \in Bases(gs) <=> i \in Bases(es)
  <2>1. gs[m + 1].base = n + 1 /\ m + 1 \in 1 .. m + 1
    BY <1>0, <1>2
  <2>2. \A k \in 1 .. m + 1 : k = m + 1 \/ k \in 1 .. m
    BY <1>2
  <2>3. \A k \in 1 .. m : k \in 1 .. m + 1
    BY <1>2
  <2>4. \A i \in 1 .. n : i # n + 1
    BY <1>1
  <2> QED
    BY <1>2, <2>1, <2>2, <2>3, <2>4 DEF Bases
<1>10. ASSUME NEW i \in 1 .. n + 1, gs[1].base <= i
       PROVE  /\ i \in Bases(gs) => Path(rs[i].toks, G[i], 0)
              /\ i \notin Bases(gs) => Path(rs[i].toks, G[i], G[i - 1])
  <2>1. CASE i = n + 1
    BY <1>1, <1>8, <1>9, <2>1
  <2>2. CASE i # n + 1
    <3>1. i \in 1 .. n /\ i \in Nat
      BY <1>1, <2>2
    <3>2. m # 0
      <4>1. CASE m = 0
        <5>1. gs[1].base = n + 1
          BY <1>0, <1>2, <4>1
        <5> QED
          BY <1>1, <1>10, <3>1, <5>1
      <4> QED
        BY <4>1
    <3>3. 1 \in 1 .. m /\ es[1].base <= i /\ es[1].base \in 2 .. n
      BY <1>2, <1>6, <1>10, <3>2
    <3>4. i - 1 \in 1 .. n
      BY <1>1, <3>1, <3>3
    <3>5. rs[i] = cs[i] /\ G[i] = H[i] /\ G[i - 1] = H[i - 1] /\ (i \in Bases(gs) <=> i \in Bases(es))
      BY <1>1, <1>8, <1>9, <3>1, <3>4
    <3>6. /\ i \in Bases(es) => Path(cs[i].toks, H[i], 0)
          /\ i \notin Bases(es) => Path(cs[i].toks, H[i], H[i - 1])
      BY <1>0, <1>4, <3>1, <3>2, <3>3 DEF Levels
    <3> QED
      BY <3>5, <3>6
  <2> QED
    BY <2>1, <2>2
<1>11. ASSUME NEW j \in 1 .. m
       PROVE  Path(Gathered(gs[j], ms), 0, G[gs[j + 1].base - 1])
  <2>1. gs[j] = es[j] /\ m # 0
    BY <1>2
  <2>2. CASE j = m
    <3>1. gs[j + 1].base = n + 1
      BY <1>0, <1>2, <2>2
    <3>2. n \in 1 .. n
      BY <1>1, <1>6
    <3>3. G[n] = a
      BY <1>4, <1>8, <2>1, <3>2
    <3>4. gs[j + 1].base - 1 = n
      BY <1>1, <3>1
    <3>5. Path(Gathered(gs[j], ms), 0, a)
      BY <1>4, <2>1, <2>2
    <3> QED
      BY <3>3, <3>4, <3>5
  <2>3. CASE j # m
    <3>1. j + 1 \in 1 .. m /\ j \in 1 .. Len(es) - 1
      BY <1>0, <1>2, <2>3
    <3>2. PICK c : c = es[j + 1].base
      OBVIOUS
    <3>3. c - 1 \in 1 .. n
      BY <1>1, <1>6, <3>1, <3>2
    <3>4. G[c - 1] = H[c - 1] /\ gs[j + 1] = es[j + 1]
      BY <1>2, <1>8, <3>1, <3>3
    <3>5. Path(Gathered(es[j], ms), 0, H[es[j + 1].base - 1])
      BY <1>4, <2>1, <3>1 DEF Levels
    <3> QED
      BY <2>1, <3>2, <3>4, <3>5
  <2> QED
    BY <2>2, <2>3
<1>12. Levels(rs, gs, ms, G)
  <2>1. Len(gs) - 1 = m
    BY <1>2
  <2> QED
    BY <1>1, <1>8, <1>10, <1>11, <2>1 DEF Levels
<1>13. Depth(rs, gs, ms, 0)
  BY <1>1, <1>8, <1>12 DEF Depth
<1> QED
  BY <1>0, <1>13

\* The innermost argument's tokens do not count.
LEMMA DepthTop ==
  ASSUME NEW cs, NEW es \in Seq(Frame), es # <<>>, NEW ms, NEW y, Depth(cs, es, ms, y),
         NEW f, f.base = es[Len(es)].base,
         NEW gs \in Seq(Frame), gs = [es EXCEPT ![Len(es)] = f]
  PROVE  Depth(cs, gs, ms, y)
<1>0. PICK n : n = Len(es)
  OBVIOUS
<1>1. /\ DOMAIN es = 1 .. n /\ DOMAIN gs = 1 .. n /\ Len(gs) = n /\ n \in 1 .. n /\ n \in Nat
      /\ gs[n] = f /\ \A k \in 1 .. n : k < n => gs[k] = es[k]
  BY <1>0, TopReplaced
<1>2. \A k \in 1 .. n : gs[k].base = es[k].base
  <2>1. \A k \in 1 .. n : k = n \/ k < n
    BY <1>1
  <2> QED
    BY <1>0, <1>1, <2>1
<1>3. Bases(gs) = Bases(es)
  BY <1>1, <1>2 DEF Bases
<1>4. PICK H : Levels(cs, es, ms, H) /\ H[Len(cs)] = y
  BY DEF Depth
<1>5. ASSUME NEW k \in 1 .. n - 1 PROVE Path(Gathered(gs[k], ms), 0, H[gs[k + 1].base - 1])
  <2>1. k \in 1 .. n /\ k < n /\ k + 1 \in 1 .. n /\ k \in 1 .. Len(es) - 1
    BY <1>0, <1>1
  <2>2. gs[k] = es[k] /\ gs[k + 1].base = es[k + 1].base
    BY <1>1, <1>2, <2>1
  <2>3. Path(Gathered(es[k], ms), 0, H[es[k + 1].base - 1])
    BY <1>4, <2>1 DEF Levels
  <2> QED
    BY <2>2, <2>3
<1>6. gs[1].base = es[1].base
  BY <1>1, <1>2
<1>7. Levels(cs, gs, ms, H)
  BY <1>1, <1>3, <1>4, <1>5, <1>6 DEF Levels
<1> QED
  BY <1>4, <1>7 DEF Depth


\* With x parentheses of a call open inside the innermost argument.
Matches(cs, es, ms, x) ==
  es # <<>> => \E a \in Nat : Path(Gathered(es[Len(es)], ms), 0, a) /\ Depth(cs, es, ms, a + x)

LEMMA MatchesRead ==
  ASSUME NEW cs \in Seq(Context), cs # <<>>, NEW es \in Seq(Frame), Nested(cs, es), AllExpand(es),
         NEW ms, NEW x \in Nat, Matches(cs, es, ms, x),
         NEW t, t = Peek(cs), t # STOP, x + Weight(t) \in Nat
  PROVE  /\ es # <<>> => t # EOF
         /\ Matches(AfterRead(cs), es, ms, x + Weight(t))
<1> SUFFICES ASSUME es # <<>>
             PROVE  t # EOF /\ Matches(AfterRead(cs), es, ms, x + Weight(t))
  BY DEF Matches
<1>1. PICK a \in Nat : Path(Gathered(es[Len(es)], ms), 0, a) /\ Depth(cs, es, ms, a + x)
  BY DEF Matches
<1>2. PICK rs : rs = AfterRead(cs)
  OBVIOUS
<1>3. BasesOK(cs, es)
  BY NestBases
<1>4. t # EOF /\ Depth(rs, es, ms, a + x + Weight(t))
  BY <1>1, <1>2, <1>3, DepthRead
<1>5. a + x + Weight(t) = a + (x + Weight(t))
  <2>1. Weight(t) \in Int
    BY DEF Weight
  <2> QED
    BY <1>1, <2>1
<1>6. Depth(rs, es, ms, a + (x + Weight(t)))
  BY <1>4, <1>5
<1> QED
  BY <1>1, <1>2, <1>4, <1>6 DEF Matches

LEMMA MatchesStop ==
  ASSUME NEW cs \in Seq(Context), cs # <<>>, NEW es \in Seq(Frame), es # <<>>,
         Nested(cs, es), AllExpand(es), NEW ms, NEW x \in Nat, Matches(cs, es, ms, x),
         Peek(cs) = STOP
  PROVE  /\ x = 0 /\ Path(Gathered(es[Len(es)], ms), 0, 0)
         /\ Matches(AfterRead(cs), SubSeq(es, 1, Len(es) - 1), ms, 0)
<1>0. PICK rs, n, fs : rs = AfterRead(cs) /\ n = Len(es) /\ fs = SubSeq(es, 1, n - 1)
  OBVIOUS
<1>1. PICK a \in Nat : Path(Gathered(es[n], ms), 0, a) /\ Depth(cs, es, ms, a + x)
  BY <1>0 DEF Matches
<1>2. BasesOK(cs, es)
  BY NestBases
<1>3. /\ a + x = 0
      /\ n # 1 => \E c \in Nat : Path(Gathered(es[n - 1], ms), 0, c) /\ Depth(rs, fs, ms, c)
  BY <1>0, <1>1, <1>2, DepthStop
<1>4. a = 0 /\ x = 0
  BY <1>1, <1>3
<1>5. fs \in Seq(Frame) /\ Len(fs) = n - 1 /\ n \in Nat \ {0} /\ \A j \in 1 .. n - 1 : fs[j] = es[j]
  BY <1>0, FrontOfSeq, LenProperties, EmptySeq
<1>6. Matches(rs, fs, ms, 0)
  <2> SUFFICES ASSUME fs # <<>>
               PROVE  \E c \in Nat : Path(Gathered(fs[Len(fs)], ms), 0, c) /\ Depth(rs, fs, ms, c + 0)
    BY DEF Matches
  <2>1. n # 1 /\ n - 1 \in 1 .. n - 1
    <3>1. Len(fs) # 0
      BY <1>5, EmptySeq
    <3> QED
      BY <1>5, <3>1
  <2>2. PICK c \in Nat : Path(Gathered(es[n - 1], ms), 0, c) /\ Depth(rs, fs, ms, c)
    BY <1>3, <2>1
  <2>3. c + 0 = c /\ fs[Len(fs)] = es[n - 1]
    BY <1>5, <2>1, <2>2
  <2> QED
    BY <2>2, <2>3
<1> QED
  BY <1>0, <1>1, <1>4, <1>6

\* The argument receives a token.
LEMMA MatchesToken ==
  ASSUME NEW cs \in Seq(Context), cs # <<>>, NEW es \in Seq(Frame), es # <<>>,
         Nested(cs, es), AllExpand(es), NEW ms, Matches(cs, es, ms, 0),
         NEW t \in Token, t = Peek(cs), t # STOP,
         Gathered(es[Len(es)], ms) \in Seq(Token),
         NEW f, f.base = es[Len(es)].base,
         t # EOF => Gathered(f, ms) = Append(Gathered(es[Len(es)], ms), t),
         NEW gs \in Seq(Frame), gs = [es EXCEPT ![Len(es)] = f]
  PROVE  Matches(AfterRead(cs), gs, ms, 0)
<1>0. PICK rs, n, s, q, w :
        /\ rs = AfterRead(cs) /\ n = Len(es) /\ s = Gathered(es[n], ms) /\ q = Gathered(f, ms)
        /\ w = Weight(t)
  OBVIOUS
<1>1. PICK a \in Nat : Path(s, 0, a) /\ Depth(cs, es, ms, a + 0)
  BY <1>0 DEF Matches
<1>2. BasesOK(cs, es) /\ a + 0 = a
  BY <1>1, NestBases
<1>3. t # EOF /\ a + w \in Nat /\ Depth(rs, es, ms, a + w)
  BY <1>0, <1>1, <1>2, DepthRead
<1>4. Path(q, 0, a + w)
  BY <1>0, <1>1, <1>3, PathAppend
<1>5. Depth(rs, gs, ms, a + w)
  BY <1>3, DepthTop
<1>6. gs[n] = f /\ Len(gs) = n
  BY <1>0, TopReplaced
<1>7. Depth(rs, gs, ms, a + w + 0)
  BY <1>3, <1>5
<1> QED
  BY <1>0, <1>3, <1>4, <1>6, <1>7 DEF Matches

LEMMA MatchesPush ==
  ASSUME NEW cs \in Seq(Context), cs # <<>>, NEW es \in Seq(Frame), Nested(cs, es), AllExpand(es),
         NEW ms, NEW x, Matches(cs, es, ms, x), NEW b \in Context, Path(b.toks, 0, 0)
  PROVE  Matches(Append(cs, b), es, ms, x)
<1> SUFFICES ASSUME es # <<>>
             PROVE  Matches(Append(cs, b), es, ms, x)
  BY DEF Matches
<1>1. PICK a \in Nat : Path(Gathered(es[Len(es)], ms), 0, a) /\ Depth(cs, es, ms, a + x)
  BY DEF Matches
<1>2. BasesOK(cs, es)
  BY NestBases
<1>3. Depth(Append(cs, b), es, ms, a + x)
  BY <1>1, <1>2, DepthPush
<1> QED
  BY <1>1, <1>3 DEF Matches

LEMMA MatchesArgument ==
  ASSUME NEW cs \in Seq(Context), cs # <<>>, NEW es \in Seq(Frame), Nested(cs, es), AllExpand(es),
         NEW ms, Matches(cs, es, ms, 0), NEW b \in Context, Path(b.toks, 0, 0),
         NEW f \in Frame, f.base = Len(cs) + 1, Gathered(f, ms) = <<>>
  PROVE  Matches(Append(cs, b), Append(es, f), ms, 0)
<1>1. PICK gs, m : gs = Append(es, f) /\ m = Len(es)
  OBVIOUS
<1>2. Len(gs) = m + 1 /\ gs[m + 1] = f
  BY <1>1, AppendProperties
<1>3. \E a : es # <<>> => /\ BasesOK(cs, es) /\ Path(Gathered(es[m], ms), 0, a)
                          /\ Depth(cs, es, ms, a)
  <2>1. CASE es = <<>>
    BY <2>1
  <2>2. CASE es # <<>>
    <3>1. PICK a \in Nat : Path(Gathered(es[m], ms), 0, a) /\ Depth(cs, es, ms, a + 0)
      BY <1>1, <2>2 DEF Matches
    <3>2. a + 0 = a /\ BasesOK(cs, es)
      BY <2>2, <3>1, NestBases
    <3> QED
      BY <3>1, <3>2
  <2> QED
    BY <2>1, <2>2
<1>4. Depth(Append(cs, b), gs, ms, 0)
  BY <1>1, <1>3, DepthArgument
<1>5. Path(Gathered(gs[Len(gs)], ms), 0, 0)
  <2>1. Path(<<>>, 0, 0)
    BY PathOfNothing
  <2> QED
    BY <1>2, <2>1
<1>6. Depth(Append(cs, b), gs, ms, 0 + 0)
  BY <1>4
<1>7. 0 \in Nat
  OBVIOUS
<1> QED
  BY <1>1, <1>5, <1>6, <1>7 DEF Matches

-----------------------------------------------------------------------------
(* The parentheses of the calls in progress. *)

\* The calls that are expanding an argument.
Outer(fs) ==
  IF fs # <<>> /\ fs[Len(fs)].phase # "argexp" THEN SubSeq(fs, 1, Len(fs) - 1) ELSE fs

\* The parentheses that the innermost call has opened and not closed.
Open(fs) ==
  IF fs # <<>> /\ fs[Len(fs)].phase = "args" THEN fs[Len(fs)].depth + 1 ELSE 0

LEMMA OuterReplaced ==
  ASSUME NEW fs \in Seq(Frame), fs # <<>>, NEW f, NEW gs \in Seq(Frame), gs = [fs EXCEPT ![Len(fs)] = f]
  PROVE  /\ f.phase # "argexp" => Outer(gs) = SubSeq(fs, 1, Len(fs) - 1)
         /\ f.phase = "argexp" => Outer(gs) = gs
         /\ Open(gs) = IF f.phase = "args" THEN f.depth + 1 ELSE 0
<1>0. PICK n : n = Len(fs)
  OBVIOUS
<1>1. /\ DOMAIN gs = 1 .. n /\ Len(gs) = n /\ n \in 1 .. n /\ n \in Nat
      /\ gs[n] = f /\ \A k \in 1 .. n : k < n => gs[k] = fs[k]
  BY <1>0, TopReplaced
<1>2. gs # <<>>
  BY <1>1, EmptySeq
<1>3. SubSeq(gs, 1, n - 1) = SubSeq(fs, 1, n - 1)
  <2>1. PICK l, r : l = SubSeq(gs, 1, n - 1) /\ r = SubSeq(fs, 1, n - 1)
    OBVIOUS
  <2>2. /\ l \in Seq(Frame) /\ Len(l) = n - 1 /\ \A j \in 1 .. n - 1 : l[j] = gs[j]
        /\ r \in Seq(Frame) /\ Len(r) = n - 1 /\ \A j \in 1 .. n - 1 : r[j] = fs[j]
    BY <1>0, <1>1, <1>2, <2>1, FrontOfSeq
  <2>3. \A j \in 1 .. n - 1 : j \in 1 .. n /\ j < n
    BY <1>1
  <2>4. \A j \in 1 .. n - 1 : l[j] = r[j]
    BY <1>1, <2>2, <2>3
  <2>5. l = r
    BY <2>2, <2>4, SeqEqual
  <2> QED
    BY <2>1, <2>5
<1> QED
  BY <1>0, <1>1, <1>2, <1>3 DEF Outer, Open

LEMMA OuterAppended ==
  ASSUME NEW fs \in Seq(Frame), NEW f \in Frame, f.phase # "argexp"
  PROVE  /\ Outer(Append(fs, f)) = fs
         /\ Open(Append(fs, f)) = IF f.phase = "args" THEN f.depth + 1 ELSE 0
<1>0. PICK gs, n : gs = Append(fs, f) /\ n = Len(fs)
  OBVIOUS
<1>1. /\ n \in Nat /\ gs \in Seq(Frame) /\ gs # <<>> /\ Len(gs) = n + 1 /\ gs[n + 1] = f
      /\ \A k \in 1 .. n : gs[k] = fs[k]
  BY <1>0, LenProperties, AppendProperties
<1>2. SubSeq(gs, 1, n + 1 - 1) = fs
  <2>1. PICK l : l = SubSeq(gs, 1, n + 1 - 1)
    OBVIOUS
  <2>2. n + 1 - 1 = n
    BY <1>1
  <2>3. l \in Seq(Frame) /\ Len(l) = n /\ \A j \in 1 .. n : l[j] = gs[j]
    BY <1>1, <2>1, <2>2, FrontOfSeq
  <2>4. l = fs
    BY <1>0, <1>1, <2>3, SeqEqual
  <2> QED
    BY <2>1, <2>4
<1> QED
  BY <1>0, <1>1, <1>2 DEF Outer, Open

LEMMA OuterExpanding ==
  ASSUME NEW fs \in Seq(Frame), AllExpand(fs)
  PROVE  Outer(fs) = fs /\ Open(fs) = 0
<1>1. fs # <<>> => Len(fs) \in DOMAIN fs
  BY LenProperties, EmptySeq
<1>2. fs # <<>> => fs[Len(fs)].phase = "argexp"
  BY <1>1 DEF AllExpand, IsExpanding
<1> QED
  BY <1>2 DEF Outer, Open


ArgsMatch(f) ==
  /\ f.phase = "args" /\ f.newArg => f.depth = 0
  /\ \A a \in DOMAIN f.args :
       IF f.phase = "args" /\ ~f.newArg /\ a = Len(f.args)
       THEN Path(f.args[a], 0, f.depth)
       ELSE Path(f.args[a], 0, 0)

\* p is the parameter that the body is at.
ExpandedMatch(f, p) ==
  /\ \A a \in DOMAIN f.expanded :
       /\ a \in f.isExpanded => Path(f.expanded[a], 0, 0)
       /\ a \notin f.isExpanded => f.expanded[a] = <<>> \/ (f.phase = "argexp" /\ a = p)
  /\ f.phase = "argexp" => p \notin f.isExpanded

\* The expansion is at the depth of the body.
ResultMatches(f, body) ==
  \E h \in [0 .. Len(body) -> Nat] :
    /\ h[0] = 0 /\ h[Len(body)] = 0 /\ Climbs(body, h)
    /\ f.pos - 1 \in 0 .. Len(body) /\ Path(f.result, 0, h[f.pos - 1])

CallMatches(f, ms) ==
  /\ ArgsMatch(f)
  /\ ExpandedMatch(f, ms[f.macro].tokens[f.pos].val)
  /\ ResultMatches(f, ms[f.macro].tokens)

CallsMatch(fs, ms) == \A k \in DOMAIN fs : CallMatches(fs[k], ms)

MacrosBalanced(ms) == \A m \in MacroNames : ms[m].isDefined => Balanced(ms[m].tokens)

\* The calls other than the innermost, and those that replace it.
LEMMA CallsMatchKept ==
  ASSUME NEW fs \in Seq(Frame), NEW ms, CallsMatch(fs, ms)
  PROVE  /\ fs # <<>> => CallMatches(fs[Len(fs)], ms) /\ CallsMatch(SubSeq(fs, 1, Len(fs) - 1), ms)
         /\ \A f \in Frame : CallMatches(f, ms) => CallsMatch(Append(fs, f), ms)
         /\ \A f : \A gs \in Seq(Frame) :
              fs # <<>> /\ CallMatches(f, ms) /\ gs = [fs EXCEPT ![Len(fs)] = f] => CallsMatch(gs, ms)
<1>1. DOMAIN fs = 1 .. Len(fs) /\ Len(fs) \in Nat
  BY LenProperties
<1>2. ASSUME fs # <<>>
      PROVE  CallMatches(fs[Len(fs)], ms) /\ CallsMatch(SubSeq(fs, 1, Len(fs) - 1), ms)
  <2>0. PICK gs, n : gs = SubSeq(fs, 1, Len(fs) - 1) /\ n = Len(fs)
    OBVIOUS
  <2>1. n \in Nat \ {0}
    BY <1>1, <1>2, <2>0, EmptySeq
  <2>2. gs \in Seq(Frame) /\ Len(gs) = n - 1 /\ \A j \in 1 .. n - 1 : gs[j] = fs[j]
    BY <1>2, <2>0, FrontOfSeq
  <2>3. DOMAIN gs = 1 .. n - 1 /\ \A j \in 1 .. n - 1 : j \in 1 .. n
    BY <2>1, <2>2, LenProperties
  <2>4. CallsMatch(gs, ms)
    BY <1>1, <2>0, <2>2, <2>3 DEF CallsMatch
  <2>5. n \in DOMAIN fs
    BY <1>1, <2>0, <2>1
  <2> QED
    BY <2>0, <2>4, <2>5 DEF CallsMatch
<1>3. ASSUME NEW f \in Frame, CallMatches(f, ms) PROVE CallsMatch(Append(fs, f), ms)
  <2>0. PICK gs, n : gs = Append(fs, f) /\ n = Len(fs)
    OBVIOUS
  <2>1. DOMAIN gs = 1 .. n + 1 /\ gs[n + 1] = f /\ \A j \in 1 .. n : gs[j] = fs[j]
    BY <2>0, AppendProperties, LenProperties
  <2>2. \A j \in 1 .. n + 1 : j \in 1 .. n \/ j = n + 1
    BY <1>1, <2>0
  <2>3. CallsMatch(gs, ms)
    BY <1>1, <1>3, <2>0, <2>1, <2>2 DEF CallsMatch
  <2> QED
    BY <2>0, <2>3
<1>4. ASSUME NEW f, NEW gs \in Seq(Frame), fs # <<>>, CallMatches(f, ms), gs = [fs EXCEPT ![Len(fs)] = f]
      PROVE  CallsMatch(gs, ms)
  <2>0. PICK n : n = Len(fs)
    OBVIOUS
  <2>1. /\ DOMAIN gs = 1 .. n /\ n \in 1 .. n /\ n \in Nat
        /\ gs[n] = f /\ \A j \in 1 .. n : j < n => gs[j] = fs[j]
    BY <1>4, <2>0, TopReplaced
  <2>2. \A j \in 1 .. n : j < n \/ j = n
    BY <2>1
  <2> QED
    BY <1>1, <1>4, <2>0, <2>1, <2>2 DEF CallsMatch
<1> QED
  BY <1>2, <1>3, <1>4

LEMMA NewCallMatches ==
  ASSUME NEW ms, NEW m \in MacroNames, Balanced(ms[m].tokens), ms[m].tokens \in Seq(Token),
         NEW phase \in {"args", "subst"}
  PROVE  CallMatches(NewFrame(m, phase), ms)
<1>0. PICK f, body : f = NewFrame(m, phase) /\ body = ms[m].tokens
  OBVIOUS
<1>1. /\ f.macro = m /\ f.phase = phase /\ f.args = <<>> /\ f.depth = 0 /\ f.expanded = <<>>
      /\ f.pos = 1 /\ f.result = <<>>
  BY <1>0 DEF NewFrame
<1>2. DOMAIN f.args = {} /\ DOMAIN f.expanded = {} /\ f.phase # "argexp"
  BY <1>1
<1>3. ArgsMatch(f)
  BY <1>1, <1>2 DEF ArgsMatch
<1>4. \A p : ExpandedMatch(f, p)
  BY <1>2 DEF ExpandedMatch
<1>5. ResultMatches(f, body)
  <2>1. PICK h \in [0 .. Len(body) -> Nat] : h[0] = 0 /\ h[Len(body)] = 0 /\ Climbs(body, h)
    BY <1>0 DEF Balanced, Path
  <2>2. f.pos - 1 = 0 /\ 0 \in 0 .. Len(body)
    BY <1>0, <1>1, LenProperties
  <2>3. Path(<<>>, 0, 0)
    BY PathOfNothing
  <2>4. f.pos - 1 \in 0 .. Len(body) /\ Path(f.result, 0, h[f.pos - 1])
    BY <1>1, <2>1, <2>2, <2>3
  <2> QED
    BY <2>1, <2>4 DEF ResultMatches
<1> QED
  BY <1>0, <1>1, <1>3, <1>4, <1>5 DEF CallMatches

\* A call in which only what is said of its arguments and expansion differs.
LEMMA ResultKept ==
  ASSUME NEW f, NEW g, NEW body, g.pos = f.pos, g.result = f.result, ResultMatches(f, body)
  PROVE  ResultMatches(g, body)
  BY DEF ResultMatches

-----------------------------------------------------------------------------
(* Each action keeps the parentheses matched, as long as none is pasted. *)

Balance ==
  /\ Matches(contexts, Outer(frames), macros, Open(frames))
  /\ CallsMatch(frames, macros)
  /\ MacrosBalanced(macros)

LEMMA BalanceMade ==
  ASSUME NEW cs, cs = contexts', NEW fs, fs = frames', NEW ms, ms = macros',
         Matches(cs, Outer(fs), ms, Open(fs)), CallsMatch(fs, ms), MacrosBalanced(ms)
  PROVE  Balance'
  BY DEF Balance

LEMMA DefinedIsBalanced ==
  ASSUME Balance, NEW m \in MacroNames, macros[m] \in Macro
  PROVE  Balanced(macros[m].tokens) /\ macros[m].tokens \in Seq(Token)
<1>1. PICK ms : ms = macros
  OBVIOUS
<1>2. MacrosBalanced(ms) /\ ms[m] \in Macro
  BY <1>1 DEF Balance
<1>3. ms[m].isDefined /\ ms[m].tokens \in Seq(Token)
  BY <1>2 DEF Macro
<1> QED
  BY <1>1, <1>2, <1>3 DEF MacrosBalanced

\* A read where tokens are expanded.
LEMMA TokenRead ==
  ASSUME Parts, Nesting, Balance, ExpandingTokens, Peek(contexts) # STOP, Weight(Peek(contexts)) \in Nat
  PROVE  /\ frames # <<>> => Peek(contexts) # EOF
         /\ Matches(AfterRead(contexts), frames, macros, Weight(Peek(contexts)))
<1>0. PICK cs, fs, ms, w : cs = contexts /\ fs = frames /\ ms = macros /\ w = Weight(Peek(contexts))
  OBVIOUS
<1>1. cs \in Seq(Context) /\ cs # <<>> /\ fs \in Seq(Frame) /\ Nested(cs, fs)
  BY <1>0 DEF Parts, StackOK, FramesOK, Nesting
<1>2. AllExpand(fs)
  BY <1>0, <1>1, AllExpanding DEF Parts
<1>3. Outer(fs) = fs /\ Open(fs) = 0
  BY <1>1, <1>2, OuterExpanding
<1>4. Matches(cs, fs, ms, 0)
  BY <1>0, <1>3 DEF Balance
<1>5. 0 + w = w /\ w \in Nat
  BY <1>0
<1>6. (fs # <<>> => Peek(cs) # EOF) /\ Matches(AfterRead(cs), fs, ms, 0 + w)
  BY <1>0, <1>1, <1>2, <1>4, <1>5, MatchesRead
<1> QED
  BY <1>0, <1>5, <1>6

LEMMA NameIsFlat ==
  ASSUME NEW t, NEW cs, NEW dis, Expandable(t, cs, dis)
  PROVE  t # STOP /\ Weight(t) = 0
<1>1. t.tag = "ident"
  BY DEF Expandable
<1> QED
  BY <1>1 DEF STOP, Tag, Weight

LEMMA ExpandCallbackMatches ==
  ASSUME Parts, Nesting, Balance, ExpandCallback PROVE Balance'
<1>0. PICK t, m, cs, dis, b, rs, fs, ms :
        /\ t = Peek(contexts) /\ m = t.val
        /\ cs = AfterRead(contexts) /\ dis = EnabledByRead(disabled, contexts)
        /\ b = Buffer(NoMacro, macros[m].tokens) /\ rs = Append(cs, b) /\ fs = frames /\ ms = macros
  OBVIOUS
<1>1. /\ ExpandingTokens /\ Expandable(t, cs, dis)
      /\ contexts' = rs /\ UNCHANGED <<macros, frames, output, finished>>
  BY <1>0 DEF ExpandCallback
<1>2. t # STOP /\ Weight(t) = 0 /\ m \in MacroNames /\ macros[m] \in Macro
  BY <1>0, <1>1, ExpandableIsMacro, NameIsFlat
<1>3. Matches(cs, fs, ms, 0)
  BY <1>0, <1>1, <1>2, TokenRead
<1>4. cs \in Seq(Context) /\ cs # <<>> /\ Nested(cs, fs) /\ fs \in Seq(Frame) /\ AllExpand(fs)
  <2>1. StackOK(cs, dis)
    BY <1>0, ReadStep
  <2>2. Nested(cs, fs)
    BY <1>0, <1>2, ReadNests DEF Parts, Nesting
  <2>3. AllExpand(fs)
    BY <1>0, <1>1, <2>2, AllExpanding DEF Parts
  <2> QED
    BY <1>0, <2>1, <2>2, <2>3 DEF StackOK, Parts, FramesOK
<1>5. b \in Context /\ Path(b.toks, 0, 0)
  <2>1. Balanced(macros[m].tokens) /\ macros[m].tokens \in Seq(Token)
    BY <1>2, DefinedIsBalanced
  <2> QED
    BY <1>0, <2>1 DEF Buffer, Context, Balanced
<1>6. Matches(rs, fs, ms, 0)
  BY <1>0, <1>3, <1>4, <1>5, MatchesPush
<1>7. Outer(fs) = fs /\ Open(fs) = 0
  BY <1>4, OuterExpanding
<1>8. CallsMatch(fs, ms) /\ MacrosBalanced(ms)
  BY <1>0 DEF Balance
<1>9. Matches(rs, Outer(fs), ms, Open(fs))
  BY <1>6, <1>7
<1> QED
  BY <1>0, <1>1, <1>8, <1>9, BalanceMade

LEMMA NewCallBalanced ==
  ASSUME Parts, NEW m \in MacroNames, macros[m] \in Macro,
         NEW phase \in {"args", "subst"}, macros[m].hasParams <=> phase = "args", Balance,
         NEW cs, cs = contexts', Matches(cs, frames, macros, IF phase = "args" THEN 1 ELSE 0),
         frames' = Append(frames, NewFrame(m, phase)), UNCHANGED macros
  PROVE  Balance'
<1>0. PICK fs, f, gs, ms : fs = frames /\ f = NewFrame(m, phase) /\ gs = Append(fs, f) /\ ms = macros
  OBVIOUS
<1>1. fs \in Seq(Frame) /\ f \in Frame
  BY <1>0, NewFrameOK DEF Parts, FramesOK
<1>2. f.phase = phase /\ f.phase # "argexp" /\ f.depth = 0
  BY <1>0 DEF NewFrame
<1>3. Outer(gs) = fs /\ Open(gs) = IF phase = "args" THEN 1 ELSE 0
  BY <1>0, <1>1, <1>2, OuterAppended
<1>4. CallMatches(f, ms)
  BY <1>0, DefinedIsBalanced, NewCallMatches
<1>5. CallsMatch(gs, ms) /\ MacrosBalanced(ms)
  BY <1>0, <1>1, <1>4, CallsMatchKept DEF Balance
<1>6. Matches(cs, Outer(gs), ms, Open(gs))
  BY <1>0, <1>3
<1> QED
  BY <1>0, <1>5, <1>6, BalanceMade

LEMMA ExpandObjectLikeMatches ==
  ASSUME Parts, Nesting, Balance, ExpandObjectLike PROVE Balance'
<1>0. PICK t, m, cs, dis :
        /\ t = Peek(contexts) /\ m = t.val
        /\ cs = AfterRead(contexts) /\ dis = EnabledByRead(disabled, contexts)
  OBVIOUS
<1>1. /\ ExpandingTokens /\ Expandable(t, cs, dis) /\ ~macros[m].hasParams
      /\ contexts' = cs /\ frames' = Append(frames, NewFrame(m, "subst")) /\ UNCHANGED macros
  BY <1>0 DEF ExpandObjectLike
<1>2. t # STOP /\ Weight(t) = 0 /\ m \in MacroNames /\ macros[m] \in Macro
  BY <1>0, <1>1, ExpandableIsMacro, NameIsFlat
<1>3. Matches(cs, frames, macros, 0)
  BY <1>0, <1>1, <1>2, TokenRead
<1> QED
  BY <1>1, <1>2, <1>3, NewCallBalanced

\* The parenthesis of the call is read after its name.
LEMMA ExpandFunctionLikeMatches ==
  ASSUME Parts, Nesting, Balance, ExpandFunctionLike PROVE Balance'
<1>0. PICK t, m, cs, dis, rs, u :
        /\ t = Peek(contexts) /\ m = t.val
        /\ cs = AfterRead(contexts) /\ dis = EnabledByRead(disabled, contexts)
        /\ rs = AfterRead(cs) /\ u = Peek(cs)
  OBVIOUS
<1>1. /\ ExpandingTokens /\ Expandable(t, cs, dis) /\ macros[m].hasParams
      /\ contexts' = rs /\ frames' = Append(frames, NewFrame(m, "args")) /\ UNCHANGED macros
  BY <1>0 DEF ExpandFunctionLike
<1>2. /\ t # STOP /\ Weight(t) = 0 /\ m \in MacroNames /\ macros[m] \in Macro
      /\ u # STOP /\ Weight(u) = 1
  <2>1. t # STOP /\ Weight(t) = 0 /\ m \in MacroNames /\ macros[m] \in Macro
    BY <1>0, <1>1, ExpandableIsMacro, NameIsFlat
  <2>2. u.tag = "lparen"
    BY <1>0, <1>1 DEF Expandable
  <2>3. u # STOP /\ Weight(u) = 1
    BY <2>2 DEF STOP, Tag, Weight
  <2> QED
    BY <2>1, <2>3
<1>3. Matches(cs, frames, macros, 0)
  BY <1>0, <1>1, <1>2, TokenRead
<1>4. cs \in Seq(Context) /\ cs # <<>> /\ Nested(cs, frames) /\ frames \in Seq(Frame) /\ AllExpand(frames)
  <2>1. StackOK(cs, dis)
    BY <1>0, ReadStep
  <2>2. Nested(cs, frames)
    BY <1>0, <1>2, ReadNests DEF Parts, Nesting
  <2>3. AllExpand(frames)
    BY <1>1, <2>2, AllExpanding DEF Parts
  <2> QED
    BY <2>1, <2>2, <2>3 DEF StackOK, Parts, FramesOK
<1>5. 0 + Weight(u) = 1
  BY <1>2
<1>6. Matches(rs, frames, macros, 1)
  <2>1. PICK fs, ms : fs = frames /\ ms = macros
    OBVIOUS
  <2>2. Matches(rs, fs, ms, 0 + Weight(u))
    BY <1>0, <1>2, <1>3, <1>4, <1>5, <2>1, MatchesRead
  <2> QED
    BY <1>5, <2>1, <2>2
<1> QED
  BY <1>1, <1>2, <1>6, NewCallBalanced


\* Outside calls nothing is open.
LEMMA NoCallMatches ==
  ASSUME frames' = <<>>, NEW ms, ms = macros', MacrosBalanced(ms)
  PROVE  Balance'
<1>1. PICK fs, cs : fs = frames' /\ cs = contexts'
  OBVIOUS
<1>2. fs = <<>> /\ DOMAIN fs = {}
  BY <1>1
<1>3. Outer(fs) = <<>>
  BY <1>2 DEF Outer
<1>4. Matches(cs, Outer(fs), ms, Open(fs)) /\ CallsMatch(fs, ms)
  BY <1>2, <1>3 DEF Matches, CallsMatch
<1> QED
  BY <1>1, <1>4, BalanceMade

LEMMA ReturnTokenMatches ==
  ASSUME Balance, ReturnToken PROVE Balance'
<1>1. frames' = <<>> /\ UNCHANGED macros
  BY DEF ReturnToken
<1>2. PICK ms : ms = macros
  OBVIOUS
<1>3. MacrosBalanced(ms)
  BY <1>2 DEF Balance
<1> QED
  BY <1>1, <1>2, <1>3, NoCallMatches

LEMMA IncludeMatches ==
  ASSUME Balance, Include PROVE Balance'
<1>1. frames' = <<>> /\ UNCHANGED macros
  BY DEF Include, Directive
<1>2. PICK ms : ms = macros
  OBVIOUS
<1>3. MacrosBalanced(ms)
  BY <1>2 DEF Balance
<1> QED
  BY <1>1, <1>2, <1>3, NoCallMatches

LEMMA DefineMatches ==
  ASSUME BalancedMacros, Parts, Balance, Define PROVE Balance'
<1>1. PICK m \in MacroNames : macros' = [macros EXCEPT ![m] = Redefinition[m]]
  BY DEF Define
<1>2. frames' = <<>>
  BY DEF Define, Directive
<1>3. PICK ms, ns : ms = macros /\ ns = [ms EXCEPT ![m] = Redefinition[m]]
  OBVIOUS
<1>4. MacrosBalanced(ms) /\ DOMAIN ms = MacroNames
  BY <1>3 DEF Balance, Parts
<1>5. MacrosBalanced(ns)
  <2>1. ASSUME NEW n \in MacroNames, ns[n].isDefined PROVE Balanced(ns[n].tokens)
    <3>1. CASE n = m
      <4>1. ns[n] = Redefinition[m]
        BY <1>3, <1>4, <3>1
      <4> QED
        BY <4>1 DEF BalancedMacros
    <3>2. CASE n # m
      <4>1. ns[n] = ms[n]
        BY <1>3, <1>4, <3>2
      <4> QED
        BY <1>4, <2>1, <4>1 DEF MacrosBalanced
    <3> QED
      BY <3>1, <3>2
  <2> QED
    BY <2>1 DEF MacrosBalanced
<1> QED
  BY <1>1, <1>2, <1>3, <1>5, NoCallMatches

LEMMA UndefMatches ==
  ASSUME Parts, Balance, Undef PROVE Balance'
<1>1. PICK m \in MacroNames : macros' = [macros EXCEPT ![m] = Undefined]
  BY DEF Undef
<1>2. frames' = <<>>
  BY DEF Undef, Directive
<1>3. PICK ms, ns : ms = macros /\ ns = [ms EXCEPT ![m] = Undefined]
  OBVIOUS
<1>4. MacrosBalanced(ms) /\ DOMAIN ms = MacroNames
  BY <1>3 DEF Balance, Parts
<1>5. MacrosBalanced(ns)
  <2>1. ASSUME NEW n \in MacroNames, ns[n].isDefined PROVE Balanced(ns[n].tokens)
    <3>1. n # m
      BY <1>3, <1>4, <2>1 DEF Undefined
    <3>2. ns[n] = ms[n]
      BY <1>3, <1>4, <3>1
    <3> QED
      BY <1>4, <2>1, <3>2 DEF MacrosBalanced
  <2> QED
    BY <2>1 DEF MacrosBalanced
<1> QED
  BY <1>1, <1>2, <1>3, <1>5, NoCallMatches

LEMMA ArgumentTokenMatches ==
  ASSUME Parts, Parts', Nesting, Balance, ArgumentToken PROVE Balance'
<1>0. PICK t, p, f, cs, rs, fs, gs, ms, top :
        /\ t = Peek(contexts) /\ p = macros[Top.macro].tokens[Top.pos].val
        /\ cs = contexts /\ rs = AfterRead(cs) /\ fs = frames /\ gs = frames' /\ ms = macros
        /\ top = Top
        /\ f = IF t = STOP THEN [top EXCEPT !.phase = "subst", !.isExpanded = @ \cup {p}]
                           ELSE [top EXCEPT !.expanded[p] = Collected(@, t)]
  OBVIOUS
<1>1. /\ frames # <<>> /\ Top.phase = "argexp" /\ contexts' = rs
      /\ frames' = [frames EXCEPT ![Len(frames)] = f] /\ UNCHANGED macros
  BY <1>0 DEF ArgumentToken, ReturnsToken, WithTop
<1>2. /\ fs \in Seq(Frame) /\ gs \in Seq(Frame) /\ fs # <<>> /\ gs = [fs EXCEPT ![Len(fs)] = f]
      /\ top = fs[Len(fs)] /\ top \in Frame /\ top.phase = "argexp"
  BY <1>0, <1>1, TopProperties DEF Parts, FramesOK, Top
<1>3. ExpandingTokens
  BY <1>1 DEF ExpandingTokens
<1>4. cs \in Seq(Context) /\ cs # <<>> /\ Nested(cs, fs) /\ AllExpand(fs) /\ t \in Token
  <2>1. cs \in Seq(Context) /\ cs # <<>> /\ Nested(cs, fs)
    BY <1>0 DEF Parts, StackOK, Nesting
  <2>2. AllExpand(fs)
    BY <1>0, <1>3, <2>1, AllExpanding DEF Parts
  <2> QED
    BY <1>0, <2>1, <2>2, ReadStep
<1>5. Matches(cs, fs, ms, 0) /\ CallsMatch(fs, ms) /\ MacrosBalanced(ms)
  <2>1. Outer(fs) = fs /\ Open(fs) = 0
    BY <1>2, <1>4, OuterExpanding
  <2> QED
    BY <1>0, <2>1 DEF Balance
<1>6. /\ top.expanded \in Seq(Seq(Token)) /\ p \in 1 .. Len(top.expanded)
      /\ DOMAIN top.expanded = 1 .. Len(top.expanded) /\ p = ms[top.macro].tokens[top.pos].val
  <2>1. top.expanded \in Seq(Seq(Token)) /\ p \in 1 .. Len(top.expanded)
    BY <1>0, <1>1, TopProperties DEF Parts, CallOK, Frame
  <2> QED
    BY <1>0, <2>1, LenProperties
<1>7. Gathered(top, ms) = top.expanded[p] /\ top.expanded[p] \in Seq(Token)
  BY <1>6, ElementOfSeq DEF Gathered
<1>8. /\ ArgsMatch(top) /\ ExpandedMatch(top, p) /\ ResultMatches(top, ms[top.macro].tokens)
  BY <1>2, <1>5, <1>6, CallsMatchKept DEF CallMatches
<1>9. CASE t = STOP
  <2>1. f = [top EXCEPT !.phase = "subst", !.isExpanded = @ \cup {p}]
    BY <1>0, <1>9
  <2>2. /\ f.phase = "subst" /\ f.macro = top.macro /\ f.args = top.args /\ f.newArg = top.newArg
        /\ f.depth = top.depth /\ f.result = top.result /\ f.expanded = top.expanded
        /\ f.pos = top.pos /\ f.isExpanded = top.isExpanded \cup {p}
    BY <1>2, <2>1 DEF Frame
  <2>3. /\ Path(Gathered(top, ms), 0, 0)
        /\ Matches(rs, SubSeq(fs, 1, Len(fs) - 1), ms, 0)
    BY <1>0, <1>2, <1>4, <1>5, <1>9, MatchesStop
  <2>4. ArgsMatch(f)
    BY <1>2, <1>8, <2>2 DEF ArgsMatch
  <2>5. ExpandedMatch(f, p)
    BY <1>7, <1>8, <2>2, <2>3 DEF ExpandedMatch
  <2>6. ResultMatches(f, ms[f.macro].tokens)
    BY <1>8, <2>2, ResultKept
  <2>7. CallMatches(f, ms)
    BY <1>6, <2>2, <2>4, <2>5, <2>6 DEF CallMatches
  <2>8. CallsMatch(gs, ms)
    BY <1>2, <1>5, <2>7, CallsMatchKept
  <2>9. Outer(gs) = SubSeq(fs, 1, Len(fs) - 1) /\ Open(gs) = 0
    BY <1>2, <2>2, OuterReplaced
  <2>10. Matches(rs, Outer(gs), ms, Open(gs))
    BY <2>3, <2>9
  <2> QED
    BY <1>0, <1>1, <1>5, <2>8, <2>10, BalanceMade
<1>10. CASE t # STOP
  <2>1. PICK e : e = [top.expanded EXCEPT ![p] = Collected(@, t)]
    OBVIOUS
  <2>2. f = [top EXCEPT !.expanded = e]
    <3>1. f = [top EXCEPT !.expanded[p] = Collected(@, t)]
      BY <1>0, <1>10
    <3> QED
      BY <1>2, <2>1, <3>1 DEF Frame
  <2>3. /\ f.phase = "argexp" /\ f.macro = top.macro /\ f.base = top.base /\ f.args = top.args
        /\ f.newArg = top.newArg /\ f.depth = top.depth /\ f.result = top.result
        /\ f.pos = top.pos /\ f.isExpanded = top.isExpanded /\ f.expanded = e
    BY <1>2, <2>2 DEF Frame
  <2>4. /\ DOMAIN e = DOMAIN top.expanded /\ e[p] = Collected(top.expanded[p], t)
        /\ \A a \in DOMAIN e : a # p => e[a] = top.expanded[a]
    BY <1>6, <2>1
  <2>5. t # EOF => Gathered(f, ms) = Append(Gathered(top, ms), t)
    <3>1. p = ms[f.macro].tokens[f.pos].val
      BY <1>6, <2>3
    <3>2. Gathered(f, ms) = e[p]
      BY <2>3, <3>1 DEF Gathered
    <3> QED
      BY <1>7, <2>4, <3>2 DEF Collected
  <2>6. Matches(rs, gs, ms, 0)
    <3>1. /\ f.base = fs[Len(fs)].base /\ Gathered(fs[Len(fs)], ms) \in Seq(Token)
          /\ (t # EOF => Gathered(f, ms) = Append(Gathered(fs[Len(fs)], ms), t))
      BY <1>2, <1>7, <2>3, <2>5
    <3>2. t = Peek(cs) /\ rs = AfterRead(cs)
      BY <1>0
    <3>3. Matches(AfterRead(cs), gs, ms, 0)
      BY <1>2, <1>4, <1>5, <1>10, <3>1, <3>2, MatchesToken
    <3> QED
      BY <3>2, <3>3
  <2>7. ArgsMatch(f)
    BY <1>2, <1>8, <2>3 DEF ArgsMatch
  <2>8. ExpandedMatch(f, p)
    BY <1>2, <1>8, <2>3, <2>4 DEF ExpandedMatch
  <2>9. ResultMatches(f, ms[f.macro].tokens)
    BY <1>8, <2>3, ResultKept
  <2>10. CallMatches(f, ms)
    BY <1>6, <2>3, <2>7, <2>8, <2>9 DEF CallMatches
  <2>11. CallsMatch(gs, ms)
    BY <1>2, <1>5, <2>10, CallsMatchKept
  <2>12. Outer(gs) = gs /\ Open(gs) = 0
    BY <1>2, <2>3, OuterReplaced
  <2>13. Matches(rs, Outer(gs), ms, Open(gs))
    BY <2>6, <2>12
  <2> QED
    BY <1>0, <1>1, <1>5, <2>11, <2>13, BalanceMade
<1> QED
  BY <1>9, <1>10


\* parse_macro_args reads no end marker: a parenthesis is still open.
LEMMA ReadArgMatches ==
  ASSUME Parts, Nesting, Balance, NEW t, ReadArg(t)
  PROVE  /\ t \in Token /\ t # STOP /\ (PopFrame # <<>> => t # EOF)
         /\ Matches(contexts', PopFrame, macros, Top.depth + 1 + Weight(t))
         /\ UNCHANGED macros
         /\ frames \in Seq(Frame) /\ frames # <<>> /\ Top = frames[Len(frames)] /\ Top \in Frame
         /\ Top.phase = "args" /\ CallOK(Top, macros) /\ CallMatches(Top, macros)
         /\ CallsMatch(frames, macros) /\ CallsMatch(PopFrame, macros) /\ MacrosBalanced(macros)
<1>0. PICK cs, rs, fs, es, ms, top, x, w :
        /\ cs = contexts /\ rs = AfterRead(cs) /\ fs = frames /\ es = PopFrame /\ ms = macros
        /\ top = Top /\ x = Top.depth + 1 /\ w = Weight(t)
  OBVIOUS
<1>1. t = Peek(cs) /\ contexts' = rs /\ UNCHANGED macros
  BY <1>0 DEF ReadArg
<1>2. /\ FramesOK(fs, ms) /\ fs # <<>> /\ top \in Frame /\ top.phase = "args"
      /\ CallOK(top, ms) /\ t \in Token
  BY <1>0, ReadArgStep
<1>3. fs \in Seq(Frame) /\ top = fs[Len(fs)] /\ es = SubSeq(fs, 1, Len(fs) - 1)
  BY <1>0, <1>2 DEF FramesOK, Top, PopFrame
<1>4. cs \in Seq(Context) /\ cs # <<>> /\ Nested(cs, fs)
  BY <1>0 DEF Parts, StackOK, Nesting
<1>5. es \in Seq(Frame) /\ Nested(cs, es) /\ AllExpand(es)
  <2>1. ~IsExpanding(fs[Len(fs)])
    BY <1>2, <1>3 DEF IsExpanding
  <2> QED
    BY <1>2, <1>3, <1>4, <2>1, NestPop, FrontOfSeq
<1>6. Outer(fs) = es /\ Open(fs) = x
  BY <1>0, <1>2, <1>3 DEF Outer, Open
<1>7. Matches(cs, es, ms, x) /\ CallsMatch(fs, ms) /\ MacrosBalanced(ms)
  BY <1>0, <1>6 DEF Balance
<1>8. CallMatches(top, ms) /\ CallsMatch(es, ms)
  BY <1>2, <1>3, <1>7, CallsMatchKept
<1>9. x \in Nat /\ x # 0 /\ x + w \in Nat
  <2>1. top.depth \in Nat
    BY <1>2 DEF Frame
  <2>2. w \in {-1, 0, 1}
    BY <1>0 DEF Weight
  <2> QED
    BY <1>0, <2>1, <2>2
<1>10. t # STOP
  <2>1. CASE es = <<>>
    BY <1>1, <1>4, <1>5, <2>1, NoMarker
  <2>2. CASE es # <<>>
    BY <1>1, <1>4, <1>5, <1>7, <1>9, <2>2, MatchesStop
  <2> QED
    BY <2>1, <2>2
<1>11. (es # <<>> => t # EOF) /\ Matches(rs, es, ms, x + w)
  BY <1>0, <1>1, <1>4, <1>5, <1>7, <1>9, <1>10, MatchesRead
<1> QED
  BY <1>0, <1>1, <1>2, <1>3, <1>7, <1>8, <1>10, <1>11

\* The arguments once the token has one to go to: only the last can be open.
LEMMA OpenedMatches ==
  ASSUME Parts, Nesting, Balance, ReadingArgs
  PROVE  /\ Opened \in Seq(Seq(Token)) /\ Len(Opened) \in Nat \ {0} /\ DOMAIN Opened = 1 .. Len(Opened)
         /\ \A a \in 1 .. Len(Opened) : a # Len(Opened) => Path(Opened[a], 0, 0)
         /\ Path(Opened[Len(Opened)], 0, Top.depth)
         /\ Top.newArg => Top.depth = 0
<1>0. PICK top, os, ar : top = Top /\ os = Opened /\ ar = Top.args
  OBVIOUS
<1>1. /\ frames # <<>> /\ frames \in Seq(Frame) /\ top \in Frame /\ CallOK(Top, macros)
      /\ top.phase = "args"
  BY <1>0, TopProperties DEF Parts, FramesOK, ReadingArgs
<1>2. CallMatches(top, macros) /\ CleanCall(top)
  BY <1>0, <1>1, CallsMatchKept, CleanCallsKept DEF Balance, Nesting, Top
<1>b. PICK S, x : S = Seq(Token) /\ x = <<>>
  OBVIOUS
<1>c. ar \in Seq(S) /\ os \in Seq(S) /\ x \in S
  BY <1>0, <1>1, <1>b, OpenedProperties, EmptySeq DEF Frame
<1>3. /\ Len(ar) \in Nat /\ DOMAIN ar = 1 .. Len(ar) /\ (ar # <<>> => Len(ar) # 0)
      /\ Len(os) \in Nat /\ DOMAIN os = 1 .. Len(os)
  BY <1>c, EmptySeq, LenProperties
<1>d. Opened \in Seq(Seq(Token))
  BY <1>0, <1>b, <1>c
<1>a. /\ top.newArg => top.depth = 0
      /\ \A a \in DOMAIN ar :
           IF ~top.newArg /\ a = Len(ar) THEN Path(ar[a], 0, top.depth) ELSE Path(ar[a], 0, 0)
  <2>1. ArgsMatch(top)
    BY <1>2 DEF CallMatches
  <2> QED
    BY <1>0, <1>1, <2>1 DEF ArgsMatch
<1>4. CASE top.newArg
  <2>1. os = Append(ar, <<>>) /\ top.depth = 0
    BY <1>0, <1>a, <1>4 DEF Opened
  <2>2. os = Append(ar, x)
    BY <1>b, <2>1
  <2>4. /\ Len(os) \in Nat \ {0} /\ os[Len(os)] = x
        /\ \A i \in 1 .. Len(os) : i # Len(os) => i \in 1 .. Len(ar) /\ os[i] = ar[i]
    BY <1>c, <2>2, LastAppended
  <2>5. Path(os[Len(os)], 0, 0)
    BY <1>b, <2>4, PathOfNothing
  <2>6. \A i \in 1 .. Len(ar) : Path(ar[i], 0, 0)
    BY <1>a, <1>3, <1>4
  <2>7. \A i \in 1 .. Len(os) : i # Len(os) => Path(os[i], 0, 0)
    BY <2>4, <2>6
  <2>8. Path(os[Len(os)], 0, top.depth)
    BY <2>1, <2>5
  <2> QED
    BY <1>0, <1>3, <1>d, <2>1, <2>4, <2>7, <2>8
<1>5. CASE ~top.newArg
  <2>1. os = ar
    BY <1>0, <1>5 DEF Opened
  <2>2. ar # <<>>
    BY <1>0, <1>1, <1>2, <1>5 DEF CleanCall
  <2>3. Len(ar) \in Nat \ {0} /\ Len(ar) \in 1 .. Len(ar)
    BY <1>3, <2>2
  <2>4. \A i \in 1 .. Len(ar) : i # Len(ar) => Path(ar[i], 0, 0)
    BY <1>a, <1>3, <1>5
  <2>5. Path(ar[Len(ar)], 0, top.depth)
    BY <1>a, <1>3, <1>5, <2>3
  <2> QED
    BY <1>0, <1>3, <1>5, <1>d, <2>1, <2>3, <2>4, <2>5
<1> QED
  BY <1>4, <1>5

\* The call goes on; what is said of it is said of its new frame.
LEMMA CallGoesOn ==
  ASSUME NEW fs \in Seq(Frame), fs # <<>>, NEW gs \in Seq(Frame), NEW f,
         gs = [fs EXCEPT ![Len(fs)] = f], NEW cs, NEW ms,
         cs = contexts', gs = frames', ms = macros',
         f.phase # "argexp", CallMatches(f, ms), CallsMatch(fs, ms), MacrosBalanced(ms),
         NEW x, x = IF f.phase = "args" THEN f.depth + 1 ELSE 0,
         Matches(cs, SubSeq(fs, 1, Len(fs) - 1), ms, x)
  PROVE  Balance'
<1>1. Outer(gs) = SubSeq(fs, 1, Len(fs) - 1) /\ Open(gs) = x
  BY OuterReplaced
<1>2. CallsMatch(gs, ms)
  BY CallsMatchKept
<1>3. Matches(cs, Outer(gs), ms, Open(gs))
  BY <1>1
<1> QED
  BY <1>2, <1>3, BalanceMade

LEMMA EndOfArgsMatches ==
  ASSUME Parts, Parts', Nesting, Balance, EndOfArgs PROVE Balance'
<1>a. PICK t, e, top, os : /\ t = Peek(contexts) /\ e = [i \in 1 .. Len(Opened) |-> <<>>]
                          /\ top = Top /\ os = Opened
  OBVIOUS
<1>b. PICK f, fs, gs, es, cs, ms :
        /\ fs = frames /\ gs = frames' /\ es = PopFrame /\ cs = contexts' /\ ms = macros
        /\ f = [top EXCEPT !.phase = "subst", !.args = os, !.newArg = FALSE, !.expanded = e]
  OBVIOUS
<1>0. /\ t = Peek(contexts) /\ e = [i \in 1 .. Len(Opened) |-> <<>>] /\ top = Top /\ os = Opened
      /\ fs = frames /\ gs = frames' /\ es = PopFrame /\ cs = contexts' /\ ms = macros
      /\ f = [top EXCEPT !.phase = "subst", !.args = os, !.newArg = FALSE, !.expanded = e]
  BY <1>a, <1>b
<1>1. /\ ReadArg(t) /\ (t = EOF \/ (t.tag = "rparen" /\ Top.depth = 0))
      /\ frames' = IF t # EOF /\ RightArgCount(Len(Opened)) THEN WithTop(f) ELSE PopFrame
  BY <1>0 DEF EndOfArgs
<1>2. /\ t # STOP /\ (es # <<>> => t # EOF) /\ Matches(cs, es, ms, top.depth + 1 + Weight(t))
      /\ UNCHANGED macros /\ fs \in Seq(Frame) /\ fs # <<>> /\ top = fs[Len(fs)] /\ top \in Frame
      /\ top.phase = "args" /\ CallMatches(top, ms) /\ CallsMatch(fs, ms) /\ CallsMatch(es, ms)
      /\ MacrosBalanced(ms)
  BY <1>0, <1>1, ReadArgMatches
<1>3. es = SubSeq(fs, 1, Len(fs) - 1) /\ gs \in Seq(Frame)
  BY <1>0 DEF PopFrame, Parts, FramesOK
<1>4. t # EOF => top.depth = 0 /\ top.depth + 1 + Weight(t) = 0
  <2>1. t # EOF => t.tag = "rparen" /\ top.depth = 0
    BY <1>0, <1>1
  <2> QED
    BY <2>1 DEF Weight
<1>5. Matches(cs, es, ms, 0)
  <2>1. CASE t = EOF
    BY <1>2, <2>1 DEF Matches
  <2>2. CASE t # EOF
    BY <1>2, <1>4, <2>2
  <2> QED
    BY <2>1, <2>2
<1>6. CASE t # EOF /\ frames' = WithTop(f)
  <2>1. /\ f.phase = "subst" /\ f.args = os /\ f.expanded = e /\ f.macro = top.macro
        /\ f.pos = top.pos /\ f.result = top.result
    BY <1>0, <1>2 DEF Frame
  <2>2. /\ DOMAIN os = 1 .. Len(os) /\ \A a \in 1 .. Len(os) : a # Len(os) => Path(os[a], 0, 0)
        /\ Path(os[Len(os)], 0, top.depth)
    <3>1. ReadingArgs
      BY <1>1 DEF ReadArg
    <3> QED
      BY <1>0, <3>1, OpenedMatches
  <2>3. \A a \in DOMAIN os : Path(os[a], 0, 0)
    BY <1>4, <1>6, <2>2
  <2>4. ArgsMatch(f)
    BY <2>1, <2>3 DEF ArgsMatch
  <2>5. \A p : ExpandedMatch(f, p)
    <3>1. Path(<<>>, 0, 0)
      BY PathOfNothing
    <3>2. \A a \in DOMAIN e : e[a] = <<>>
      BY <1>0
    <3>3. \A a \in DOMAIN f.expanded : f.expanded[a] = <<>>
      BY <2>1, <3>2
    <3> QED
      BY <2>1, <3>1, <3>3 DEF ExpandedMatch
  <2>6. ResultMatches(f, ms[f.macro].tokens)
    <3>1. ResultMatches(top, ms[top.macro].tokens)
      BY <1>2 DEF CallMatches
    <3> QED
      BY <2>1, <3>1, ResultKept
  <2>7. CallMatches(f, ms)
    BY <2>4, <2>5, <2>6 DEF CallMatches
  <2>8. gs = [fs EXCEPT ![Len(fs)] = f]
    BY <1>0, <1>6 DEF WithTop
  <2>9. f.phase # "argexp" /\ 0 = IF f.phase = "args" THEN f.depth + 1 ELSE 0
    BY <2>1
  <2>10. ms = macros' /\ cs = contexts' /\ gs = frames'
    BY <1>0, <1>2
  <2>11. Matches(cs, SubSeq(fs, 1, Len(fs) - 1), ms, 0)
    BY <1>3, <1>5
  <2> QED
    BY <1>2, <1>3, <2>7, <2>8, <2>9, <2>10, <2>11, CallGoesOn
<1>7. CASE frames' = PopFrame
  <2>1. es \in Seq(Frame) /\ AllExpand(es)
    <3>1. Nested(contexts, fs) /\ ~IsExpanding(fs[Len(fs)])
      BY <1>0, <1>2 DEF Nesting, IsExpanding
    <3> QED
      BY <1>2, <1>3, <3>1, NestPop, FrontOfSeq
  <2>2. Outer(es) = es /\ Open(es) = 0
    BY <2>1, OuterExpanding
  <2>3. Matches(cs, Outer(es), ms, Open(es))
    BY <1>5, <2>2
  <2>4. ms = macros' /\ cs = contexts' /\ es = frames'
    BY <1>0, <1>2, <1>7
  <2> QED
    BY <1>2, <2>3, <2>4, BalanceMade
<1> QED
  BY <1>1, <1>6, <1>7


LEMMA NextArgMatches ==
  ASSUME Parts, Parts', Nesting, Balance, NextArg PROVE Balance'
<1>a. PICK t, top, os : t = Peek(contexts) /\ top = Top /\ os = Opened
  OBVIOUS
<1>b. PICK f, fs, gs, es, cs, ms :
        /\ fs = frames /\ gs = frames' /\ es = PopFrame /\ cs = contexts' /\ ms = macros
        /\ f = [top EXCEPT !.args = os, !.newArg = TRUE]
  OBVIOUS
<1>0. /\ t = Peek(contexts) /\ top = Top /\ os = Opened
      /\ fs = frames /\ gs = frames' /\ es = PopFrame /\ cs = contexts' /\ ms = macros
      /\ f = [top EXCEPT !.args = os, !.newArg = TRUE]
  BY <1>a, <1>b
<1>1. ReadArg(t) /\ t.tag = "comma" /\ top.depth = 0 /\ frames' = WithTop(f)
  BY <1>0 DEF NextArg, Separates
<1>2. /\ Matches(cs, es, ms, top.depth + 1 + Weight(t))
      /\ UNCHANGED macros /\ fs \in Seq(Frame) /\ fs # <<>> /\ top = fs[Len(fs)] /\ top \in Frame
      /\ top.phase = "args" /\ CallMatches(top, ms) /\ CallsMatch(fs, ms) /\ MacrosBalanced(ms)
  BY <1>0, <1>1, ReadArgMatches
<1>3. es = SubSeq(fs, 1, Len(fs) - 1) /\ gs \in Seq(Frame) /\ gs = [fs EXCEPT ![Len(fs)] = f]
  BY <1>0, <1>1 DEF PopFrame, WithTop, Parts, FramesOK
<1>4. /\ f.phase = "args" /\ f.args = os /\ f.newArg = TRUE /\ f.depth = 0 /\ f.macro = top.macro
      /\ f.pos = top.pos /\ f.result = top.result /\ f.expanded = top.expanded
      /\ f.isExpanded = top.isExpanded
  BY <1>0, <1>1, <1>2 DEF Frame
<1>5. ArgsMatch(f)
  <2>1. ReadingArgs
    BY <1>1 DEF ReadArg
  <2>2. /\ DOMAIN os = 1 .. Len(os) /\ \A a \in 1 .. Len(os) : a # Len(os) => Path(os[a], 0, 0)
        /\ Path(os[Len(os)], 0, top.depth)
    BY <1>0, <2>1, OpenedMatches
  <2>3. \A a \in DOMAIN os : Path(os[a], 0, 0)
    BY <1>1, <2>2
  <2> QED
    BY <1>4, <2>3 DEF ArgsMatch
<1>6. CallMatches(f, ms)
  <2>1. /\ ExpandedMatch(top, ms[top.macro].tokens[top.pos].val)
        /\ ResultMatches(top, ms[top.macro].tokens)
    BY <1>2 DEF CallMatches
  <2>2. ResultMatches(f, ms[f.macro].tokens)
    BY <1>4, <2>1, ResultKept
  <2>3. ExpandedMatch(f, ms[f.macro].tokens[f.pos].val)
    BY <1>2, <1>4, <2>1 DEF ExpandedMatch
  <2> QED
    BY <1>5, <2>2, <2>3 DEF CallMatches
<1>7. f.phase # "argexp" /\ 1 = IF f.phase = "args" THEN f.depth + 1 ELSE 0
  BY <1>4
<1>8. top.depth + 1 + Weight(t) = 1
  BY <1>1 DEF Weight
<1>9. Matches(cs, SubSeq(fs, 1, Len(fs) - 1), ms, 1)
  BY <1>2, <1>3, <1>8
<1>10. ms = macros' /\ cs = contexts' /\ gs = frames'
  BY <1>0, <1>2
<1> QED
  BY <1>2, <1>3, <1>6, <1>7, <1>9, <1>10, CallGoesOn

LEMMA ArgTokenMatches ==
  ASSUME Parts, Parts', Nesting, Balance, ArgToken PROVE Balance'
<1>a. PICK t, top, os, n : t = Peek(contexts) /\ top = Top /\ os = Opened /\ n = Len(Opened)
  OBVIOUS
<1>b. PICK last, ar, dp :
        /\ last = Append(os[n], t) /\ ar = [os EXCEPT ![n] = last]
        /\ dp = CASE t.tag = "lparen" -> top.depth + 1
                  [] t.tag = "rparen" -> top.depth - 1
                  [] OTHER            -> top.depth
  OBVIOUS
<1>c. PICK f, fs, gs, es, cs, ms :
        /\ fs = frames /\ gs = frames' /\ es = PopFrame /\ cs = contexts' /\ ms = macros
        /\ f = [top EXCEPT !.args = ar, !.newArg = FALSE, !.depth = dp]
  OBVIOUS
<1>1. ReadArg(t) /\ t # EOF /\ (t.tag = "rparen" => top.depth # 0) /\ frames' = WithTop(f)
  <2>1. /\ ReadArg(t) /\ t # EOF /\ ~(t.tag = "rparen" /\ Top.depth = 0)
        /\ frames' = WithTop(
             [Top EXCEPT !.args   = [Opened EXCEPT ![Len(Opened)] = Append(@, t)],
                         !.newArg = FALSE,
                         !.depth  = CASE t.tag = "lparen" -> @ + 1
                                      [] t.tag = "rparen" -> @ - 1
                                      [] OTHER            -> @])
    BY <1>a DEF ArgToken
  <2> QED
    BY <1>a, <1>b, <1>c, <2>1
<1>2. /\ t \in Token /\ Matches(cs, es, ms, top.depth + 1 + Weight(t))
      /\ UNCHANGED macros /\ fs \in Seq(Frame) /\ fs # <<>> /\ top = fs[Len(fs)] /\ top \in Frame
      /\ top.phase = "args" /\ CallMatches(top, ms) /\ CallsMatch(fs, ms) /\ MacrosBalanced(ms)
  BY <1>a, <1>c, <1>1, ReadArgMatches
<1>3. es = SubSeq(fs, 1, Len(fs) - 1) /\ gs \in Seq(Frame) /\ gs = [fs EXCEPT ![Len(fs)] = f]
  BY <1>c, <1>1 DEF PopFrame, WithTop, Parts, FramesOK
<1>4. dp \in Nat /\ dp = top.depth + Weight(t)
  <2>1. top.depth \in Nat
    BY <1>2 DEF Frame
  <2>2. CASE t.tag = "lparen"
    BY <1>b, <2>1, <2>2 DEF Weight
  <2>3. CASE t.tag = "rparen"
    BY <1>b, <1>1, <2>1, <2>3 DEF Weight
  <2>4. CASE t.tag # "lparen" /\ t.tag # "rparen"
    BY <1>b, <2>1, <2>4 DEF Weight
  <2> QED
    BY <2>2, <2>3, <2>4
<1>5. /\ f.phase = "args" /\ f.args = ar /\ f.newArg = FALSE /\ f.depth = dp /\ f.macro = top.macro
      /\ f.pos = top.pos /\ f.result = top.result /\ f.expanded = top.expanded
      /\ f.isExpanded = top.isExpanded
  BY <1>c, <1>2 DEF Frame
<1>6. ArgsMatch(f)
  <2>1. ReadingArgs
    BY <1>1 DEF ReadArg
  <2>2. PICK S : S = Seq(Token)
    OBVIOUS
  <2>3. /\ os \in Seq(S) /\ n \in Nat \ {0} /\ DOMAIN os = 1 .. n
        /\ \A a \in 1 .. n : a # n => Path(os[a], 0, 0)
        /\ Path(os[n], 0, top.depth)
    BY <1>a, <2>1, <2>2, OpenedMatches
  <2>4. os[n] \in S /\ n \in 1 .. n
    BY <1>a, <2>3, ElementOfSeq
  <2>5. DOMAIN ar = 1 .. n /\ ar[n] = last /\ Len(ar) = n /\ \A a \in 1 .. n : a # n => ar[a] = os[a]
    <3>1. DOMAIN ar = 1 .. n /\ ar[n] = last /\ \A a \in 1 .. n : a # n => ar[a] = os[a]
      BY <1>b, <2>3, <2>4
    <3>2. last \in S
      BY <1>b, <1>2, <2>2, <2>4, AppendProperties
    <3>3. ar \in Seq(S)
      BY <1>b, <2>3, <2>4, <3>2, ExceptSeq
    <3>4. Len(ar) \in Nat /\ 1 .. Len(ar) = 1 .. n
      BY <3>1, <3>3, LenProperties
    <3> QED
      BY <1>a, <1>b, <2>3, <3>1, <3>4
  <2>6. Path(last, 0, dp)
    BY <1>b, <1>1, <1>2, <1>4, <2>2, <2>3, <2>4, PathAppend
  <2>7. \A a \in 1 .. n : IF a = n THEN Path(ar[a], 0, dp) ELSE Path(ar[a], 0, 0)
    BY <2>3, <2>5, <2>6
  <2> QED
    BY <1>5, <2>5, <2>7 DEF ArgsMatch
<1>7. CallMatches(f, ms)
  <2>1. /\ ExpandedMatch(top, ms[top.macro].tokens[top.pos].val)
        /\ ResultMatches(top, ms[top.macro].tokens)
    BY <1>2 DEF CallMatches
  <2>2. ResultMatches(f, ms[f.macro].tokens)
    BY <1>5, <2>1, ResultKept
  <2>3. ExpandedMatch(f, ms[f.macro].tokens[f.pos].val)
    BY <1>2, <1>5, <2>1 DEF ExpandedMatch
  <2> QED
    BY <1>6, <2>2, <2>3 DEF CallMatches
<1>8. f.phase # "argexp" /\ dp + 1 = IF f.phase = "args" THEN f.depth + 1 ELSE 0
  BY <1>5
<1>9. top.depth + 1 + Weight(t) = dp + 1
  <2>1. top.depth \in Nat /\ Weight(t) \in Int
    BY <1>2 DEF Frame, Weight
  <2> QED
    BY <1>4, <2>1
<1>10. Matches(cs, SubSeq(fs, 1, Len(fs) - 1), ms, dp + 1)
  BY <1>2, <1>3, <1>9
<1>11. ms = macros' /\ cs = contexts' /\ gs = frames'
  BY <1>c, <1>2
<1> QED
  BY <1>2, <1>3, <1>7, <1>8, <1>10, <1>11, CallGoesOn

\* No step but a read of parse_macro_args touches the arguments, and that read
\* is never of an end marker.
LEMMA ArgsCleanKept ==
  ASSUME frames \in Seq(Frame), ArgumentsEnd
  PROVE  /\ frames # <<>> => \A a \in DOMAIN Top.args : Clean(Top.args[a])
         /\ frames' = frames => ArgumentsEnd'
         /\ frames # <<>> /\ frames' = PopFrame => ArgumentsEnd'
         /\ \A f \in Frame : f.args = <<>> /\ frames' = Append(frames, f) => ArgumentsEnd'
         /\ \A f : frames # <<>> /\ frames' \in Seq(Frame) /\ frames' = WithTop(f)
                     /\ (\A a \in DOMAIN f.args : Clean(f.args[a])) => ArgumentsEnd'
<1>0. PICK fs, gs, n : fs = frames /\ gs = frames' /\ n = Len(frames)
  OBVIOUS
<1>1. fs \in Seq(Frame) /\ n \in Nat /\ DOMAIN fs = 1 .. n /\ n = Len(fs) /\ (fs # <<>> => n \in 1 .. n)
  BY <1>0, LenProperties, EmptySeq
<1>2. \A k \in 1 .. n : \A a \in DOMAIN fs[k].args : Clean(fs[k].args[a])
  BY <1>0, <1>1 DEF ArgumentsEnd
<1>3. fs # <<>> => \A a \in DOMAIN fs[n].args : Clean(fs[n].args[a])
  BY <1>1, <1>2
<1>3b. fs # <<>> => n \in DOMAIN fs
  BY <1>1
<1>4. (\A k \in DOMAIN gs : \A a \in DOMAIN gs[k].args : Clean(gs[k].args[a])) => ArgumentsEnd'
  BY <1>0 DEF ArgumentsEnd
<1>5. ASSUME fs # <<>>, gs = SubSeq(fs, 1, n - 1) PROVE ArgumentsEnd'
  <2>1. gs \in Seq(Frame) /\ Len(gs) = n - 1 /\ \A k \in 1 .. n - 1 : gs[k] = fs[k]
    BY <1>1, <1>5, FrontOfSeq
  <2>2. DOMAIN gs = 1 .. n - 1 /\ \A k \in 1 .. n - 1 : k \in 1 .. n
    BY <1>1, <2>1, LenProperties
  <2> QED
    BY <1>2, <1>4, <2>1, <2>2
<1>6. ASSUME NEW f \in Frame, f.args = <<>>, gs = Append(fs, f) PROVE ArgumentsEnd'
  <2>1. /\ Len(gs) = n + 1 /\ DOMAIN gs = 1 .. n + 1 /\ gs[n + 1] = f
        /\ \A k \in 1 .. n + 1 : k # n + 1 => k \in 1 .. n /\ gs[k] = fs[k]
    BY <1>1, <1>6, LastAppended
  <2>2. DOMAIN f.args = {}
    BY <1>6
  <2> QED
    BY <1>2, <1>4, <2>1, <2>2
<1>7. ASSUME NEW f, fs # <<>>, gs \in Seq(Frame), gs = [fs EXCEPT ![n] = f],
             \A a \in DOMAIN f.args : Clean(f.args[a])
      PROVE  ArgumentsEnd'
  <2>1. DOMAIN fs = 1 .. n /\ n \in Nat
    BY <1>1
  <2>2. DOMAIN gs = 1 .. n /\ gs[n] = f /\ \A k \in 1 .. n : k = n \/ gs[k] = fs[k]
    BY <1>3b, <1>7, <2>1
  <2> QED
    BY <1>2, <1>4, <1>7, <2>2
<1>8. frames' = frames => ArgumentsEnd'
  BY <1>0, <1>4 DEF ArgumentsEnd
<1> QED
  BY <1>0, <1>1, <1>3, <1>5, <1>6, <1>7, <1>8 DEF Top, PopFrame, WithTop

LEMMA OpenedIsClean ==
  ASSUME Parts, ArgumentsEnd, ReadingArgs
  PROVE  \A a \in DOMAIN Opened : Clean(Opened[a])
<1>1. /\ frames # <<>> /\ frames \in Seq(Frame) /\ Top \in Frame
      /\ \A a \in DOMAIN Top.args : Clean(Top.args[a])
  BY TopProperties, ArgsCleanKept DEF Parts, FramesOK, ReadingArgs
<1>2. PICK S, x, ar, os : S = Seq(Token) /\ x = <<>> /\ ar = Top.args /\ os = Opened
  OBVIOUS
<1>3. ar \in Seq(S) /\ x \in S /\ (os = ar \/ os = Append(ar, x)) /\ Clean(x)
  BY <1>1, <1>2, EmptySeq DEF Opened, Frame, Clean
<1>4. \A a \in DOMAIN ar : Clean(ar[a])
  BY <1>1, <1>2
<1>5. ASSUME os = Append(ar, x)
      PROVE  \A a \in DOMAIN os : Clean(os[a])
  <2>1. /\ DOMAIN os = 1 .. Len(os) /\ os[Len(os)] = x
        /\ \A i \in 1 .. Len(os) : i # Len(os) => i \in 1 .. Len(ar) /\ os[i] = ar[i]
    BY <1>3, <1>5, LastAppended
  <2>2. DOMAIN ar = 1 .. Len(ar)
    BY <1>3, LenProperties
  <2> QED
    BY <1>3, <1>4, <2>1, <2>2
<1> QED
  BY <1>2, <1>3, <1>4, <1>5

LEMMA ReadArgEnds ==
  ASSUME Parts, Parts', Nesting, Balance, ArgumentsEnd, EndOfArgs \/ NextArg \/ ArgToken
  PROVE  ArgumentsEnd'
<1>1. PICK t, os, e, n : t = Peek(contexts) /\ os = Opened /\ e = [i \in 1 .. Len(Opened) |-> <<>>] /\ n = Len(Opened)
  OBVIOUS
<1>2. ReadArg(t) /\ ReadingArgs
  BY <1>1 DEF EndOfArgs, NextArg, ArgToken, ReadArg
<1>3. /\ t \in Token /\ t # STOP /\ frames \in Seq(Frame) /\ frames # <<>> /\ Top \in Frame
      /\ frames' \in Seq(Frame)
  BY <1>2, ReadArgMatches DEF Parts, FramesOK
<1>4. /\ \A a \in DOMAIN os : Clean(os[a])
      /\ n \in DOMAIN os
  BY <1>1, <1>2, OpenedIsClean, OpenedMatches
<1>5. \A f : frames' = WithTop(f) /\ (\A a \in DOMAIN f.args : Clean(f.args[a])) => ArgumentsEnd'
  BY <1>3, ArgsCleanKept
<1>6. CASE EndOfArgs
  <2>1. \/ frames' = WithTop([Top EXCEPT !.phase = "subst", !.args = os, !.newArg = FALSE, !.expanded = e])
        \/ frames' = PopFrame
    BY <1>1, <1>6 DEF EndOfArgs
  <2>2. PICK f : f = [Top EXCEPT !.phase = "subst", !.args = os, !.newArg = FALSE, !.expanded = e]
    OBVIOUS
  <2>3. f.args = os
    BY <1>3, <2>2 DEF Frame
  <2> QED
    BY <1>3, <1>4, <1>5, <2>1, <2>2, <2>3, ArgsCleanKept
<1>7. CASE NextArg
  <2>1. PICK f : f = [Top EXCEPT !.args = os, !.newArg = TRUE]
    OBVIOUS
  <2>2. frames' = WithTop(f)
    BY <1>1, <1>7, <2>1 DEF NextArg
  <2>3. f.args = os
    BY <1>3, <2>1 DEF Frame
  <2> QED
    BY <1>4, <1>5, <2>2, <2>3
<1>8. CASE ArgToken
  <2>1. PICK ar, d, last :
          /\ last = Append(os[n], t)
          /\ ar = [os EXCEPT ![n] = last]
          /\ d = CASE t.tag = "lparen" -> Top.depth + 1
                   [] t.tag = "rparen" -> Top.depth - 1
                   [] OTHER            -> Top.depth
    OBVIOUS
  <2>2. PICK f : f = [Top EXCEPT !.args = ar, !.newArg = FALSE, !.depth = d]
    OBVIOUS
  <2>3. frames' = WithTop(
             [Top EXCEPT !.args   = [Opened EXCEPT ![Len(Opened)] = Append(@, t)],
                         !.newArg = FALSE,
                         !.depth  = CASE t.tag = "lparen" -> @ + 1
                                      [] t.tag = "rparen" -> @ - 1
                                      [] OTHER            -> @])
    BY <1>1, <1>8 DEF ArgToken
  <2>4. frames' = WithTop(f)
    BY <1>1, <2>1, <2>2, <2>3
  <2>5. f.args = ar
    BY <1>3, <2>2 DEF Frame
  <2>6. Clean(last)
    <3>1. PICK S : S = Seq(Token)
      OBVIOUS
    <3>2. os \in Seq(S)
      BY <1>1, <1>2, <3>1, OpenedMatches
    <3>3. os[n] \in S
      BY <1>4, <3>2, ElementOfSeq, LenProperties
    <3> QED
      BY <1>3, <1>4, <2>1, <3>1, <3>3, CleanSequences
  <2>7. \A a \in DOMAIN ar : Clean(ar[a])
    BY <1>4, <2>1, <2>6
  <2> QED
    BY <1>5, <2>4, <2>5, <2>7
<1> QED
  BY <1>6, <1>7, <1>8

LEMMA TopKeepsArgs ==
  ASSUME Parts, Parts', ArgumentsEnd, NEW f, frames # <<>>, f.args = Top.args, frames' = WithTop(f)
  PROVE  ArgumentsEnd'
<1>1. frames \in Seq(Frame) /\ frames' \in Seq(Frame)
  BY DEF Parts, FramesOK
<1> QED
  BY <1>1, ArgsCleanKept

\* The one thing that can go wrong with an argument is its end.
LEMMA StepEndsArguments ==
  ASSUME Parts, Parts', Nesting, Balance, ArgumentsEnd, [Next]_vars PROVE ArgumentsEnd'
<1>1. frames \in Seq(Frame) /\ frames' \in Seq(Frame) /\ (frames # <<>> => Top \in Frame)
  BY TopProperties DEF Parts, FramesOK
<1>2. CASE UNCHANGED vars \/ ExpandCallback \/ ReturnToken \/ Define \/ Undef \/ Include
  <2>1. frames' = frames
    BY <1>2 DEF vars, ExpandCallback, ReturnToken, Define, Undef, Include
  <2> QED
    BY <1>1, <2>1, ArgsCleanKept
<1>3. ASSUME ExpandObjectLike \/ ExpandFunctionLike
      PROVE  ArgumentsEnd'
  <2>1. PICK m, phase : frames' = Append(frames, NewFrame(m, phase)) /\ macros[m] \in Macro
                        /\ m \in MacroNames /\ phase \in {"args", "subst"}
                        /\ (macros[m].hasParams <=> phase = "args")
    BY <1>3, ExpandableIsMacro DEF ExpandObjectLike, ExpandFunctionLike, Parts
  <2>2. NewFrame(m, phase) \in Frame
    BY <2>1, NewFrameOK
  <2>3. NewFrame(m, phase).args = <<>>
    BY DEF NewFrame
  <2> QED
    BY <1>1, <2>1, <2>2, <2>3, ArgsCleanKept
<1>4. CASE EndOfArgs \/ NextArg \/ ArgToken
  BY <1>4, ReadArgEnds
<1>5. CASE PushExpansion
  <2>1. frames # <<>> /\ frames' = PopFrame
    BY <1>5 DEF PushExpansion, Substituting
  <2> QED
    BY <1>1, <2>1, ArgsCleanKept
<1>6. CASE ArgumentToken
  <2>1. PICK t, p : t = Peek(contexts) /\ p = macros[Top.macro].tokens[Top.pos].val
    OBVIOUS
  <2>2. PICK f : f = IF t = STOP THEN [Top EXCEPT !.phase = "subst", !.isExpanded = @ \cup {p}]
                     ELSE [Top EXCEPT !.expanded[p] = Collected(@, t)]
    OBVIOUS
  <2>3. frames # <<>> /\ frames' = WithTop(f)
    BY <1>6, <2>1, <2>2 DEF ArgumentToken
  <2>4. f.args = Top.args
    BY <1>1, <2>2, <2>3 DEF Frame
  <2> QED
    BY <2>3, <2>4, TopKeepsArgs
<1>7. CASE ExpandArg
  <2>1. PICK b : b = Len(contexts) + 1
    OBVIOUS
  <2>2. PICK f : f = [Top EXCEPT !.phase = "argexp", !.base = b]
    OBVIOUS
  <2>3. frames # <<>> /\ frames' = WithTop(f)
    BY <1>7, <2>1, <2>2 DEF ExpandArg, Substituting
  <2>4. f.args = Top.args
    BY <1>1, <2>2, <2>3 DEF Frame
  <2> QED
    BY <2>3, <2>4, TopKeepsArgs
<1>8. ASSUME NEW toks, NEW c, Substituting, Add(toks, c) PROVE ArgumentsEnd'
  <2>1. PICK r : r = Added(toks)
    OBVIOUS
  <2>2. PICK f : f = [Top EXCEPT !.result = r, !.concat = FALSE, !.pos = @ + c]
    OBVIOUS
  <2>3. frames # <<>> /\ frames' = WithTop(f)
    BY <1>8, <2>1, <2>2 DEF Add, Substituting
  <2>4. f.args = Top.args
    BY <1>1, <2>2, <2>3 DEF Frame
  <2> QED
    BY <2>3, <2>4, TopKeepsArgs
<1>9. CASE SubstParam \/ SubstStringify \/ SubstPlain
  BY <1>8, <1>9 DEF SubstParam, SubstStringify, SubstPlain
<1>10. CASE SubstMissing
  <2>1. frames # <<>> /\ frames' = WithTop([Top EXCEPT !.pos = @ + 1])
    BY <1>10 DEF SubstMissing, Substituting
  <2>2. [Top EXCEPT !.pos = @ + 1].args = Top.args
    BY <1>1, <2>1 DEF Frame
  <2> QED
    BY <2>1, <2>2, TopKeepsArgs
<1>11. CASE SubstConcat
  <2>1. frames # <<>> /\ frames' = WithTop([Top EXCEPT !.concat = TRUE, !.pos = @ + 1])
    BY <1>11 DEF SubstConcat, Substituting
  <2>2. [Top EXCEPT !.concat = TRUE, !.pos = @ + 1].args = Top.args
    BY <1>1, <2>1 DEF Frame
  <2> QED
    BY <2>1, <2>2, TopKeepsArgs
<1> QED
  BY <1>2, <1>3, <1>4, <1>5, <1>6, <1>7, <1>9, <1>10, <1>11, Zenon DEF Next

\* The call whose body is being substituted.
LEMMA SubstitutedCall ==
  ASSUME Parts, Nesting, Balance, Substituting
  PROVE  /\ frames \in Seq(Frame) /\ frames # <<>> /\ Top = frames[Len(frames)] /\ Top \in Frame
         /\ Top.phase = "subst" /\ CallMatches(Top, macros) /\ CallsMatch(frames, macros)
         /\ MacrosBalanced(macros) /\ Matches(contexts, PopFrame, macros, 0)
         /\ Def.tokens \in Seq(Token) /\ Balanced(Def.tokens)
         /\ DOMAIN Top.expanded = DOMAIN Top.args /\ DOMAIN Top.args = 1 .. Len(Top.args)
<1>0. PICK fs, ms, top : fs = frames /\ ms = macros /\ top = Top
  OBVIOUS
<1>1. /\ fs \in Seq(Frame) /\ fs # <<>> /\ top = fs[Len(fs)] /\ top \in Frame
      /\ top.phase = "subst" /\ CallOK(top, ms)
  BY <1>0, TopProperties DEF Parts, FramesOK, Substituting, Top
<1>2. CallMatches(top, ms) /\ CallsMatch(fs, ms) /\ MacrosBalanced(ms)
  BY <1>0, <1>1, CallsMatchKept DEF Balance
<1>3. Matches(contexts, PopFrame, macros, 0)
  <2>1. Outer(fs) = PopFrame /\ Open(fs) = 0
    BY <1>0, <1>1 DEF Outer, Open, PopFrame
  <2>2. Matches(contexts, Outer(frames), macros, Open(frames))
    BY DEF Balance
  <2> QED
    BY <1>0, <2>1, <2>2
<1>4. Def.tokens \in Seq(Token) /\ Balanced(Def.tokens)
  <2>1. macros[Top.macro] \in Macro /\ Top.macro \in MacroNames
    BY <1>0, <1>1 DEF CallOK, Frame
  <2> QED
    BY <2>1, DefinedIsBalanced DEF Def
<1>5. DOMAIN Top.expanded = DOMAIN Top.args /\ DOMAIN Top.args = 1 .. Len(Top.args)
  <2>1. Len(top.expanded) = Len(top.args)
    BY <1>1 DEF CallOK
  <2>2. PICK S : S = Seq(Token)
    OBVIOUS
  <2>3. top.args \in Seq(S) /\ top.expanded \in Seq(S)
    BY <1>1, <2>2 DEF Frame
  <2>4. DOMAIN top.expanded = 1 .. Len(top.expanded) /\ DOMAIN top.args = 1 .. Len(top.args)
    BY <2>3, LenProperties
  <2> QED
    BY <1>0, <2>1, <2>4
<1> QED
  BY <1>0, <1>1, <1>2, <1>3, <1>4, <1>5 DEF Top

LEMMA SubstitutionGoesOn ==
  ASSUME Parts, Parts', Nesting, Balance, Substituting, UNCHANGED <<macros, contexts>>,
         NEW f, frames' = WithTop(f), f.phase = "subst", f.args = Top.args, f.macro = Top.macro,
         f.expanded = Top.expanded, f.isExpanded = Top.isExpanded, ResultMatches(f, Def.tokens)
  PROVE  Balance'
<1>0. PICK fs, gs, ms, cs, top : fs = frames /\ gs = frames' /\ ms = macros /\ cs = contexts /\ top = Top
  OBVIOUS
<1>1. /\ fs \in Seq(Frame) /\ fs # <<>> /\ top \in Frame /\ top.phase = "subst"
      /\ CallMatches(top, ms) /\ CallsMatch(fs, ms) /\ MacrosBalanced(ms)
      /\ Matches(cs, SubSeq(fs, 1, Len(fs) - 1), ms, 0)
  BY <1>0, SubstitutedCall DEF PopFrame
<1>2. gs \in Seq(Frame) /\ gs = [fs EXCEPT ![Len(fs)] = f]
  BY <1>0 DEF WithTop, Parts, FramesOK
<1>3. /\ f.args = top.args /\ f.macro = top.macro /\ f.expanded = top.expanded
      /\ f.isExpanded = top.isExpanded /\ ResultMatches(f, ms[f.macro].tokens)
  BY <1>0 DEF Def
<1>4. ArgsMatch(f)
  BY <1>1, <1>3 DEF CallMatches, ArgsMatch
<1>5. ExpandedMatch(f, ms[f.macro].tokens[f.pos].val)
  <2>1. ExpandedMatch(top, ms[top.macro].tokens[top.pos].val)
    BY <1>1 DEF CallMatches
  <2> QED
    BY <1>1, <1>3, <2>1 DEF ExpandedMatch
<1>6. CallMatches(f, ms)
  BY <1>3, <1>4, <1>5 DEF CallMatches
<1>7. cs = contexts' /\ gs = frames' /\ ms = macros'
  BY <1>0
<1>8. f.phase # "argexp" /\ 0 = IF f.phase = "args" THEN f.depth + 1 ELSE 0
  OBVIOUS
<1> QED
  BY <1>1, <1>2, <1>6, <1>7, <1>8, CallGoesOn

LEMMA AddMatches ==
  ASSUME Parts, Parts', Nesting, Balance, Substituting, NEW toks \in Seq(Token), NEW c \in {1, 2},
         Add(toks, c), Top.pos - 1 + c <= Len(Def.tokens),
         \A h \in [0 .. Len(Def.tokens) -> Nat] :
           Climbs(Def.tokens, h) => Path(toks, h[Top.pos - 1], h[Top.pos - 1 + c]),
         Top.concat /\ Top.result # <<>> /\ toks # <<>> => Weight(Head(toks)) = 0
  PROVE  Balance'
<1>0. PICK top, body, n, r : top = Top /\ body = Def.tokens /\ n = Len(Def.tokens) /\ r = Added(toks)
  OBVIOUS
<1>a. PICK i, s : i = top.pos - 1 /\ s = top.result
  OBVIOUS
<1>1. /\ top \in Frame /\ top.phase = "subst" /\ CallMatches(top, macros)
      /\ body \in Seq(Token) /\ n \in Nat
  BY <1>0, SubstitutedCall, LenProperties
<1>2. ResultMatches(top, body)
  BY <1>0, <1>1 DEF CallMatches, Def
<1>3. PICK h \in [0 .. n -> Nat] :
        h[0] = 0 /\ h[n] = 0 /\ Climbs(body, h) /\ i \in 0 .. n /\ Path(s, 0, h[i])
  BY <1>0, <1>a, <1>2 DEF ResultMatches
<1>4. top.pos \in Nat \ {0} /\ s \in Seq(Token)
  BY <1>1, <1>a DEF Frame
<1>5. i \in Nat /\ i + c \in 0 .. n /\ h[i] \in Nat /\ h[i + c] \in Nat
  <2>1. i + c <= n
    BY <1>0, <1>a
  <2>2. i \in 0 .. n
    BY <1>3
  <2>3. i \in Nat /\ i + c \in 0 .. n
    BY <1>1, <2>1, <2>2
  <2> QED
    BY <1>3, <2>2, <2>3
<1>6. Path(toks, h[i], h[i + c])
  BY <1>0, <1>3, <1>a
<1>7. Path(r, 0, h[i + c])
  <2>1. CASE top.concat /\ toks # <<>> /\ s # <<>>
    <3>1. Weight(Head(toks)) = 0
      BY <1>0, <1>a, <2>1
    <3>2. r = SubSeq(s, 1, Len(s) - 1) \o <<Paste(s[Len(s)], Head(toks))>> \o Tail(toks)
      BY <1>0, <1>a, <2>1 DEF Added
    <3>3. Path(SubSeq(s, 1, Len(s) - 1) \o <<Paste(s[Len(s)], Head(toks))>> \o Tail(toks), 0, h[i + c])
      BY <1>3, <1>4, <1>6, <2>1, <3>1, PathPasted
    <3> QED
      BY <3>2, <3>3
  <2>2. CASE ~(top.concat /\ toks # <<>> /\ s # <<>>)
    <3>1. r = s \o toks
      BY <1>0, <1>a, <2>2 DEF Added
    <3>2. Path(s \o toks, 0, h[i + c])
      BY <1>3, <1>4, <1>6, PathConcat
    <3> QED
      BY <3>1, <3>2
  <2> QED
    BY <2>1, <2>2
<1>8. PICK f : f = [top EXCEPT !.result = r, !.concat = FALSE, !.pos = @ + c]
  OBVIOUS
<1>9. /\ f.phase = "subst" /\ f.args = top.args /\ f.macro = top.macro /\ f.expanded = top.expanded
      /\ f.isExpanded = top.isExpanded /\ f.result = r /\ f.pos = top.pos + c
  BY <1>1, <1>8 DEF Frame
<1>10. f.pos - 1 = i + c
  BY <1>4, <1>9, <1>a
<1>11. ResultMatches(f, body)
  BY <1>0, <1>3, <1>5, <1>7, <1>9, <1>10 DEF ResultMatches
<1>12. frames' = WithTop(f) /\ UNCHANGED <<macros, contexts>>
  BY <1>0, <1>8 DEF Add
<1> QED
  BY <1>0, <1>9, <1>11, <1>12, SubstitutionGoesOn

\* The depth of the body at a token that is no parenthesis, and at any token.
LEMMA BodyClimbs ==
  ASSUME Parts, Substituting, NEW i \in 1 .. Len(Def.tokens),
         NEW h \in [0 .. Len(Def.tokens) -> Nat], Climbs(Def.tokens, h)
  PROVE  /\ BodyAt(i) \in Token /\ BodyAt(i) # EOF
         /\ h[i - 1] \in Nat /\ h[i] \in Nat /\ h[i] = h[i - 1] + Weight(BodyAt(i))
<1>0. PICK body, n : body = Def.tokens /\ n = Len(Def.tokens)
  OBVIOUS
<1>1. body[i] # EOF /\ h[i] = h[i - 1] + Weight(body[i])
  BY <1>0 DEF Climbs
<1>2. n \in Nat
  BY <1>0, SubstitutedTop, LenProperties DEF Macro
<1>3. i - 1 \in 0 .. n /\ i \in 0 .. n
  BY <1>0, <1>2
<1>4. h[i - 1] \in Nat /\ h[i] \in Nat
  BY <1>0, <1>3
<1> QED
  BY <1>0, <1>1, <1>4, BodyToken DEF BodyAt

\* The argument of a parameter, as it was written and expanded.
LEMMA ArgumentPath ==
  ASSUME Parts, Nesting, Balance, Substituting, NEW p \in 1 .. Len(Top.args)
  PROVE  /\ Top.args[p] \in Seq(Token) /\ Top.expanded[p] \in Seq(Token)
         /\ Path(Top.args[p], 0, 0)
         /\ p \in Top.isExpanded => Path(Top.expanded[p], 0, 0)
         /\ p \notin Top.isExpanded => Top.expanded[p] = <<>>
<1>0. PICK S, top, ar, ex : S = Seq(Token) /\ top = Top /\ ar = Top.args /\ ex = Top.expanded
  OBVIOUS
<1>1. /\ top \in Frame /\ top.phase = "subst" /\ CallMatches(top, macros)
      /\ DOMAIN ex = DOMAIN ar /\ DOMAIN ar = 1 .. Len(ar)
  BY <1>0, SubstitutedCall
<1>2. p \in DOMAIN ar /\ p \in DOMAIN ex
  BY <1>0, <1>1
<1>3. ar \in Seq(S) /\ ex \in Seq(S)
  BY <1>0, <1>1 DEF Frame
<1>4. ar[p] \in S /\ ex[p] \in S
  BY <1>2, <1>3, ElementOfSeq, LenProperties
<1>5. Path(ar[p], 0, 0)
  BY <1>0, <1>1, <1>2 DEF CallMatches, ArgsMatch
<1>6. (p \in top.isExpanded => Path(ex[p], 0, 0)) /\ (p \notin top.isExpanded => ex[p] = <<>>)
  BY <1>0, <1>1, <1>2 DEF CallMatches, ExpandedMatch
<1> QED
  BY <1>0, <1>4, <1>5, <1>6

LEMMA SubstParamMatches ==
  ASSUME Parts, Parts', Nesting, Balance, PastesFit, SubstParam PROVE Balance'
<1>0. PICK p, i, body, n : p = BodyAt(Top.pos).val /\ i = Top.pos /\ body = Def.tokens /\ n = Len(Def.tokens)
  OBVIOUS
<1>1. /\ Substituting /\ IsTag(i, "param") /\ p \in 1 .. Len(Top.args)
      /\ \/ IsPasted(i) /\ Add(Top.args[p], 1)
         \/ ~IsPasted(i) /\ p \in Top.isExpanded /\ Add(Top.expanded[p], 1)
  BY <1>0 DEF SubstParam
<1>2. i \in 1 .. n /\ BodyAt(i).tag = "param"
  BY <1>0, <1>1 DEF IsTag
<1>a. i - 1 + 1 = i /\ i <= n
  BY <1>0, <1>2
<1>3. Weight(BodyAt(i)) = 0
  BY <1>2 DEF Weight
<1>4. PICK toks :
        /\ toks \in Seq(Token) /\ Path(toks, 0, 0) /\ Add(toks, 1)
        /\ Top.concat => toks = Top.args[p]
  <2>1. CASE IsPasted(i) /\ Add(Top.args[p], 1)
    BY <1>1, <2>1, ArgumentPath
  <2>2. CASE ~IsPasted(i) /\ p \in Top.isExpanded /\ Add(Top.expanded[p], 1)
    BY <1>1, <2>2, ArgumentPath DEF IsPasted
  <2> QED
    BY <1>1, <2>1, <2>2
<1>5. ASSUME NEW h \in [0 .. n -> Nat], Climbs(body, h)
      PROVE  Path(toks, h[i - 1], h[i - 1 + 1])
  <2>1. h[i - 1] \in Nat /\ h[i] = h[i - 1] + Weight(BodyAt(i))
    BY <1>0, <1>1, <1>2, <1>5, BodyClimbs
  <2>2. PICK x, w : x = h[i - 1] /\ w = Weight(BodyAt(i))
    OBVIOUS
  <2>3. x \in Nat /\ h[i] = x /\ 0 + x = x
    BY <1>3, <2>1, <2>2
  <2>4. Path(toks, 0 + x, 0 + x)
    BY <1>4, <2>3, PathShift
  <2> QED
    BY <1>a, <2>2, <2>3, <2>4
<1>6. Top.concat /\ Top.result # <<>> /\ toks # <<>> => Weight(Head(toks)) = 0
  <2>1. Operand = Top.args[p]
    BY <1>0, <1>1 DEF Operand
  <2> QED
    BY <1>1, <1>4, <2>1 DEF PastesFit
<1> QED
  BY <1>0, <1>1, <1>4, <1>5, <1>6, <1>a, AddMatches

LEMMA SubstStringifyMatches ==
  ASSUME Parts, Parts', Nesting, Balance, SubstStringify PROVE Balance'
<1>0. PICK i, body, n, t, toks :
        /\ i = Top.pos /\ body = Def.tokens /\ n = Len(Def.tokens)
        /\ t = Tag("string") /\ toks = <<t>>
  OBVIOUS
<1>1. Substituting /\ IsTag(i, "hash") /\ Add(toks, 2)
  BY <1>0 DEF SubstStringify
<1>2. i \in 1 .. n /\ BodyAt(i).tag = "hash"
  BY <1>0, <1>1 DEF IsTag
<1>3. body \in Seq(Token) /\ Balanced(body) /\ DOMAIN body = 1 .. n /\ n \in Nat
  BY <1>0, <1>1, SubstitutedCall, LenProperties
<1>4. i < n /\ BodyAt(i + 1).tag = "param"
  BY <1>0, <1>2, <1>3 DEF Balanced, BodyAt
<1>5. i + 1 \in 1 .. n /\ i - 1 + 2 = i + 1 /\ i + 1 - 1 = i /\ i + 1 <= n
  BY <1>2, <1>3, <1>4
<1>6. Weight(BodyAt(i)) = 0 /\ Weight(BodyAt(i + 1)) = 0
  BY <1>2, <1>4 DEF Weight
<1>7. t \in Token /\ t # EOF /\ Weight(t) = 0 /\ toks \in Seq(Token) /\ Head(toks) = t
  <2>1. t \in Token /\ t.tag = "string"
    BY <1>0 DEF Tag, Token, Tags
  <2>2. t # EOF
    BY <2>1 DEF EOF, Tag
  <2>3. Weight(t) = 0
    BY <2>1 DEF Weight
  <2> QED
    BY <1>0, <2>1, <2>2, <2>3
<1>8. ASSUME NEW h \in [0 .. n -> Nat], Climbs(body, h)
      PROVE  Path(toks, h[i - 1], h[i - 1 + 2])
  <2>1. h[i - 1] \in Nat /\ h[i] = h[i - 1] + Weight(BodyAt(i))
    BY <1>0, <1>1, <1>2, <1>8, BodyClimbs
  <2>2. PICK j : j = i + 1
    OBVIOUS
  <2>3. j \in 1 .. n /\ j - 1 = i /\ i - 1 + 2 = j /\ Weight(BodyAt(j)) = 0
    <3>1. Weight(BodyAt(j)) = 0
      BY <1>6, <2>2
    <3>2. i \in 1 .. n /\ n \in Nat /\ i < n
      BY <1>2, <1>3, <1>4
    <3>3. j \in 1 .. n /\ j - 1 = i /\ i - 1 + 2 = j
      BY <2>2, <3>2
    <3> QED
      BY <3>1, <3>3
  <2>4. h[j] = h[j - 1] + Weight(BodyAt(j)) /\ h[j - 1] \in Nat
    BY <1>0, <1>1, <1>8, <2>3, BodyClimbs
  <2>5. PICK x, y, z : x = h[i - 1] /\ y = h[i] /\ z = h[j]
    OBVIOUS
  <2>6. x \in Nat /\ y = x + 0 /\ z = y + 0
    BY <1>6, <2>1, <2>3, <2>4, <2>5
  <2>7. z = x /\ x + Weight(t) = x
    BY <1>7, <2>6
  <2>8. Path(<<t>>, x, x + Weight(t))
    BY <1>7, <2>6, <2>7, PathOfToken
  <2> QED
    BY <1>0, <2>3, <2>5, <2>7, <2>8
<1>9. i - 1 + 2 <= n
  BY <1>5
<1> QED
  BY <1>0, <1>1, <1>7, <1>8, <1>9, AddMatches

LEMMA SubstPlainMatches ==
  ASSUME Parts, Parts', Nesting, Balance, PastesFit, SubstPlain PROVE Balance'
<1>0. PICK i, body, n, t, toks :
        /\ i = Top.pos /\ body = Def.tokens /\ n = Len(Def.tokens)
        /\ t = BodyAt(Top.pos) /\ toks = <<t>>
  OBVIOUS
<1>1. Substituting /\ i <= n /\ t.tag # "param" /\ Add(toks, 1)
  BY <1>0 DEF SubstPlain
<1>2. i \in 1 .. n /\ n \in Nat /\ i - 1 + 1 = i
  <2>1. i \in Nat \ {0}
    BY <1>0, <1>1, SubstitutedTop DEF Frame
  <2>2. n \in Nat
    BY <1>0, <1>1, SubstitutedCall, LenProperties
  <2> QED
    BY <1>1, <2>1, <2>2
<1>3. t \in Token /\ toks \in Seq(Token) /\ Head(toks) = t
  BY <1>0, <1>1, <1>2, BodyToken
<1>4. ASSUME NEW h \in [0 .. n -> Nat], Climbs(body, h)
      PROVE  Path(toks, h[i - 1], h[i - 1 + 1])
  <2>1. t # EOF /\ h[i - 1] \in Nat /\ h[i] \in Nat /\ h[i] = h[i - 1] + Weight(t)
    BY <1>0, <1>1, <1>2, <1>4, BodyClimbs
  <2>2. PICK x, y : x = h[i - 1] /\ y = h[i]
    OBVIOUS
  <2>3. Path(<<t>>, x, x + Weight(t))
    BY <1>3, <2>1, <2>2, PathOfToken
  <2> QED
    BY <1>0, <1>2, <2>1, <2>2, <2>3
<1>5. Top.concat /\ Top.result # <<>> /\ toks # <<>> => Weight(Head(toks)) = 0
  <2>1. Operand = toks
    BY <1>0, <1>1 DEF Operand, IsTag
  <2> QED
    BY <1>1, <2>1 DEF PastesFit
<1>6. i - 1 + 1 <= n
  BY <1>1, <1>2
<1> QED
  BY <1>0, <1>1, <1>3, <1>4, <1>5, <1>6, AddMatches

\* A token of the body that adds nothing and is no parenthesis.
LEMMA FlatTokenPassed ==
  ASSUME Parts, Substituting, ResultMatches(Top, Def.tokens), Top.pos \in 1 .. Len(Def.tokens),
         BodyAt(Top.pos).tag \in {"param", "concat"},
         NEW f, f.result = Top.result, f.pos = Top.pos + 1
  PROVE  ResultMatches(f, Def.tokens)
<1>0. PICK i, body, n, s : i = Top.pos /\ body = Def.tokens /\ n = Len(Def.tokens) /\ s = Top.result
  OBVIOUS
<1>1. PICK h \in [0 .. n -> Nat] : h[0] = 0 /\ h[n] = 0 /\ Climbs(body, h) /\ Path(s, 0, h[i - 1])
  BY <1>0 DEF ResultMatches
<1>2. i \in 1 .. n /\ n \in Nat
  BY <1>0, SubstitutedTop, LenProperties DEF Macro
<1>3. h[i - 1] \in Nat /\ h[i] = h[i - 1] + Weight(BodyAt(i))
  BY <1>0, <1>1, <1>2, BodyClimbs
<1>4. Weight(BodyAt(i)) = 0
  BY <1>0 DEF Weight
<1>5. h[i] = h[i - 1]
  BY <1>3, <1>4
<1>6. f.pos - 1 = i /\ i \in 0 .. n /\ f.result = s
  BY <1>0, <1>2
<1>7. Path(f.result, 0, h[f.pos - 1]) /\ f.pos - 1 \in 0 .. n
  BY <1>1, <1>5, <1>6
<1> QED
  BY <1>0, <1>1, <1>7 DEF ResultMatches

LEMMA SubstMissingMatches ==
  ASSUME Parts, Parts', Nesting, Balance, SubstMissing PROVE Balance'
<1>0. PICK i, body, n : i = Top.pos /\ body = Def.tokens /\ n = Len(Def.tokens)
  OBVIOUS
<1>1. /\ Substituting /\ IsTag(i, "param") /\ UNCHANGED <<macros, contexts>>
      /\ frames' = WithTop([Top EXCEPT !.pos = @ + 1])
  BY <1>0 DEF SubstMissing
<1>2. i \in 1 .. n /\ BodyAt(i).tag = "param"
  BY <1>0, <1>1 DEF IsTag
<1>3. Top \in Frame /\ Top.phase = "subst" /\ ResultMatches(Top, body)
  BY <1>0, <1>1, SubstitutedCall DEF CallMatches, Def
<1>4. PICK f : f = [Top EXCEPT !.pos = @ + 1]
  OBVIOUS
<1>5. /\ f.phase = "subst" /\ f.args = Top.args /\ f.macro = Top.macro /\ f.expanded = Top.expanded
      /\ f.isExpanded = Top.isExpanded /\ f.result = Top.result /\ f.pos = i + 1
  BY <1>0, <1>3, <1>4 DEF Frame
<1>6. ResultMatches(f, body)
  BY <1>0, <1>1, <1>2, <1>3, <1>5, FlatTokenPassed
<1> QED
  BY <1>0, <1>1, <1>4, <1>5, <1>6, SubstitutionGoesOn

LEMMA SubstConcatMatches ==
  ASSUME Parts, Parts', Nesting, Balance, SubstConcat PROVE Balance'
<1>0. PICK i, body, n : i = Top.pos /\ body = Def.tokens /\ n = Len(Def.tokens)
  OBVIOUS
<1>1. /\ Substituting /\ IsTag(i, "concat") /\ UNCHANGED <<macros, contexts>>
      /\ frames' = WithTop([Top EXCEPT !.concat = TRUE, !.pos = @ + 1])
  BY <1>0 DEF SubstConcat
<1>2. i \in 1 .. n /\ BodyAt(i).tag = "concat"
  BY <1>0, <1>1 DEF IsTag
<1>3. Top \in Frame /\ Top.phase = "subst" /\ ResultMatches(Top, body)
  BY <1>0, <1>1, SubstitutedCall DEF CallMatches, Def
<1>4. PICK f : f = [Top EXCEPT !.concat = TRUE, !.pos = @ + 1]
  OBVIOUS
<1>5. /\ f.phase = "subst" /\ f.args = Top.args /\ f.macro = Top.macro /\ f.expanded = Top.expanded
      /\ f.isExpanded = Top.isExpanded /\ f.result = Top.result /\ f.pos = i + 1
  BY <1>0, <1>3, <1>4 DEF Frame
<1>6. ResultMatches(f, body)
  BY <1>0, <1>1, <1>2, <1>3, <1>5, FlatTokenPassed
<1> QED
  BY <1>0, <1>1, <1>4, <1>5, <1>6, SubstitutionGoesOn

\* The innermost call, replaced, is the outer calls and the new one.
LEMMA ReplacedIsAppended ==
  ASSUME NEW fs \in Seq(Frame), fs # <<>>, NEW f, NEW gs \in Seq(Frame), gs = [fs EXCEPT ![Len(fs)] = f]
  PROVE  f \in Frame /\ gs = Append(SubSeq(fs, 1, Len(fs) - 1), f)
<1>0. PICK n, es, hs : n = Len(fs) /\ es = SubSeq(fs, 1, Len(fs) - 1) /\ hs = Append(es, f)
  OBVIOUS
<1>1. /\ DOMAIN gs = 1 .. n /\ Len(gs) = n /\ n \in 1 .. n /\ n \in Nat
      /\ gs[n] = f /\ \A k \in 1 .. n : k < n => gs[k] = fs[k]
  BY <1>0, TopReplaced
<1>2. f \in Frame
  BY <1>1, ElementOfSeq
<1>3. es \in Seq(Frame) /\ Len(es) = n - 1 /\ \A k \in 1 .. n - 1 : es[k] = fs[k]
  BY <1>0, FrontOfSeq
<1>4. /\ hs \in Seq(Frame) /\ Len(hs) = Len(es) + 1 /\ hs[Len(hs)] = f
      /\ \A k \in 1 .. Len(hs) : k # Len(hs) => k \in 1 .. Len(es) /\ hs[k] = es[k]
  BY <1>0, <1>2, <1>3, LastAppended
<1>5. Len(hs) = n
  BY <1>1, <1>3, <1>4
<1>6. \A k \in 1 .. n : gs[k] = hs[k]
  <2> SUFFICES ASSUME NEW k \in 1 .. n PROVE gs[k] = hs[k]
    OBVIOUS
  <2>1. CASE k = n
    BY <1>1, <1>4, <1>5, <2>1
  <2>2. CASE k # n
    <3>1. k < n /\ k \in 1 .. n - 1
      BY <1>1, <2>2
    <3>2. gs[k] = fs[k] /\ es[k] = fs[k] /\ hs[k] = es[k]
      BY <1>1, <1>3, <1>4, <1>5, <3>1
    <3> QED
      BY <3>2
  <2> QED
    BY <2>1, <2>2
<1>7. gs = hs
  BY <1>1, <1>4, <1>5, <1>6, SeqEqual
<1> QED
  BY <1>0, <1>2, <1>7

LEMMA ExpandArgMatches ==
  ASSUME Parts, Parts', Nesting, Balance, ExpandArg PROVE Balance'
<1>a. PICK p, arg, toks, b, m, f :
        /\ p = BodyAt(Top.pos).val /\ arg = Top.args[p] /\ toks = Append(arg, STOP)
        /\ b = Buffer(NoMacro, toks) /\ m = Len(contexts) + 1
        /\ f = [Top EXCEPT !.phase = "argexp", !.base = m]
  OBVIOUS
<1>b. PICK fs, gs, es, cs, ds, ms, top :
        /\ fs = frames /\ gs = frames' /\ es = PopFrame /\ cs = contexts /\ ds = contexts'
        /\ ms = macros /\ top = Top
  OBVIOUS
<1>1. /\ Substituting /\ p \in 1 .. Len(Top.args) /\ p \notin Top.isExpanded
      /\ ds = Append(cs, b) /\ frames' = WithTop(f) /\ UNCHANGED macros
  BY <1>a, <1>b DEF ExpandArg, Pushed
<1>2. /\ fs \in Seq(Frame) /\ fs # <<>> /\ top = fs[Len(fs)] /\ top \in Frame
      /\ top.phase = "subst" /\ CallMatches(top, ms) /\ CallsMatch(fs, ms) /\ MacrosBalanced(ms)
      /\ Matches(cs, es, ms, 0)
  BY <1>1, <1>b, SubstitutedCall
<1>3. /\ arg \in Seq(Token) /\ Path(arg, 0, 0) /\ top.expanded[p] = <<>>
  BY <1>1, <1>a, <1>b, ArgumentPath
<1>4. /\ es = SubSeq(fs, 1, Len(fs) - 1) /\ gs = [fs EXCEPT ![Len(fs)] = f] /\ gs \in Seq(Frame)
      /\ cs \in Seq(Context) /\ cs # <<>> /\ Nested(cs, fs)
  BY <1>1, <1>b DEF PopFrame, WithTop, Parts, FramesOK, StackOK, Nesting
<1>5. Nested(cs, es) /\ AllExpand(es) /\ es \in Seq(Frame)
  BY <1>2, <1>4, NestPop, FrontOfSeq DEF IsExpanding
<1>6. /\ f.phase = "argexp" /\ f.base = m /\ f.args = top.args /\ f.macro = top.macro
      /\ f.expanded = top.expanded /\ f.isExpanded = top.isExpanded /\ f.result = top.result
      /\ f.pos = top.pos
  BY <1>2, <1>a, <1>b DEF Frame
<1>7. p = ms[f.macro].tokens[f.pos].val
  BY <1>6, <1>a, <1>b DEF BodyAt, Def
<1>8. toks \in Seq(Token) /\ Path(toks, 0, 0)
  <2>1. STOP \in Token /\ STOP # EOF /\ Weight(STOP) = 0
    BY DEF STOP, EOF, Tag, Token, Tags, Weight
  <2>2. 0 + Weight(STOP) = 0
    BY <2>1
  <2>3. Path(Append(arg, STOP), 0, 0 + Weight(STOP))
    BY <1>3, <2>1, <2>2, PathAppend
  <2> QED
    BY <1>3, <1>a, <2>1, <2>2, <2>3, AppendProperties
<1>9. b \in Context /\ b.toks = toks
  BY <1>8, <1>a DEF Buffer, Context
<1>10. f \in Frame /\ gs = Append(es, f)
  BY <1>2, <1>4, ReplacedIsAppended
<1>11. Matches(ds, gs, ms, 0)
  <2>1. Gathered(f, ms) = <<>> /\ f.base = Len(cs) + 1
    BY <1>3, <1>6, <1>7, <1>a, <1>b DEF Gathered
  <2>2. Path(b.toks, 0, 0)
    BY <1>8, <1>9
  <2>3. Matches(Append(cs, b), Append(es, f), ms, 0)
    BY <1>2, <1>4, <1>5, <1>9, <1>10, <2>1, <2>2, MatchesArgument
  <2> QED
    BY <1>1, <1>10, <2>3
<1>12. Outer(gs) = gs /\ Open(gs) = 0
  BY <1>2, <1>4, <1>6, OuterReplaced
<1>13. CallMatches(f, ms)
  <2>1. ArgsMatch(f)
    BY <1>2, <1>6 DEF CallMatches, ArgsMatch
  <2>2. ExpandedMatch(top, ms[top.macro].tokens[top.pos].val)
    BY <1>2 DEF CallMatches
  <2>3. p \notin f.isExpanded
    BY <1>1, <1>6, <1>b
  <2>4. ExpandedMatch(f, p)
    BY <1>2, <1>6, <2>2, <2>3 DEF ExpandedMatch
  <2>5. ResultMatches(f, ms[f.macro].tokens)
    <3>1. ResultMatches(top, ms[top.macro].tokens)
      BY <1>2 DEF CallMatches
    <3> QED
      BY <1>6, <3>1, ResultKept
  <2> QED
    BY <1>7, <2>1, <2>4, <2>5 DEF CallMatches
<1>14. CallsMatch(gs, ms)
  BY <1>2, <1>4, <1>13, CallsMatchKept
<1>15. Matches(ds, Outer(gs), ms, Open(gs))
  BY <1>11, <1>12
<1>16. ds = contexts' /\ gs = frames' /\ ms = macros'
  BY <1>1, <1>b
<1> QED
  BY <1>2, <1>14, <1>15, <1>16, BalanceMade

LEMMA PushExpansionMatches ==
  ASSUME Parts, Nesting, Balance, PushExpansion PROVE Balance'
<1>0. PICK top, b, fs, es, cs, ds, ms :
        /\ top = Top /\ b = Buffer(Top.macro, Top.result) /\ fs = frames /\ es = PopFrame
        /\ cs = contexts /\ ds = contexts' /\ ms = macros
  OBVIOUS
<1>a. PICK body, n : body = Def.tokens /\ n = Len(Def.tokens)
  OBVIOUS
<1>1. /\ Substituting /\ top.pos > n /\ ds = Append(cs, b) /\ es = frames' /\ UNCHANGED macros
  BY <1>0, <1>a DEF PushExpansion
<1>2. /\ fs \in Seq(Frame) /\ fs # <<>> /\ top = fs[Len(fs)] /\ top \in Frame
      /\ top.phase = "subst" /\ CallMatches(top, ms) /\ CallsMatch(fs, ms) /\ MacrosBalanced(ms)
      /\ Matches(cs, es, ms, 0) /\ body \in Seq(Token)
  BY <1>0, <1>1, <1>a, SubstitutedCall
<1>3. /\ es = SubSeq(fs, 1, Len(fs) - 1) /\ cs \in Seq(Context) /\ cs # <<>> /\ Nested(cs, fs)
  BY <1>0 DEF PopFrame, Parts, StackOK, Nesting
<1>4. Nested(cs, es) /\ AllExpand(es) /\ es \in Seq(Frame)
  BY <1>2, <1>3, NestPop, FrontOfSeq DEF IsExpanding
<1>5. b \in Context /\ b.toks = top.result
  BY <1>0, <1>2 DEF Buffer, Context, Frame
<1>6. Path(b.toks, 0, 0)
  <2>1. ResultMatches(top, body)
    BY <1>0, <1>2, <1>a DEF CallMatches, Def
  <2>2. PICK h : h[n] = 0 /\ top.pos - 1 \in 0 .. n /\ Path(top.result, 0, h[top.pos - 1])
    BY <1>a, <2>1 DEF ResultMatches
  <2>3. top.pos \in Nat \ {0} /\ n \in Nat
    BY <1>2, <1>a, LenProperties DEF Frame
  <2>4. top.pos - 1 = n
    BY <1>1, <2>2, <2>3
  <2> QED
    BY <1>5, <2>2, <2>4
<1>7. Matches(ds, es, ms, 0)
  BY <1>1, <1>2, <1>3, <1>4, <1>5, <1>6, MatchesPush
<1>8. Outer(es) = es /\ Open(es) = 0
  BY <1>4, OuterExpanding
<1>9. Matches(ds, Outer(es), ms, Open(es)) /\ CallsMatch(es, ms)
  BY <1>2, <1>3, <1>7, <1>8, CallsMatchKept
<1>10. ds = contexts' /\ es = frames' /\ ms = macros'
  BY <1>0, <1>1
<1> QED
  BY <1>2, <1>9, <1>10, BalanceMade

LEMMA InitMatches == ASSUME BalancedMacros PROVE Init => Balance
<1> SUFFICES ASSUME Init PROVE Balance
  OBVIOUS
<1>1. PICK p \in Programs : macros = p[1]
  BY DEF Init
<1>2. frames = <<>>
  BY DEF Init
<1>3. MacrosBalanced(macros)
  BY <1>1 DEF MacrosBalanced, BalancedMacros
<1>4. Matches(contexts, Outer(frames), macros, Open(frames))
  BY <1>2 DEF Outer, Matches
<1>5. CallsMatch(frames, macros)
  BY <1>2 DEF CallsMatch
<1> QED
  BY <1>3, <1>4, <1>5 DEF Balance

LEMMA StepMatches ==
  ASSUME BalancedMacros, Parts, Parts', Nesting, Balance, PastesFit, [Next]_vars PROVE Balance'
<1>1. CASE UNCHANGED vars
  BY <1>1 DEF vars, Balance
<1>2. CASE Next
  BY <1>2, ExpandCallbackMatches, ExpandObjectLikeMatches, ExpandFunctionLikeMatches,
     ArgumentTokenMatches, ReturnTokenMatches, DefineMatches, UndefMatches, IncludeMatches,
     EndOfArgsMatches, NextArgMatches, ArgTokenMatches, SubstMissingMatches, SubstParamMatches,
     ExpandArgMatches, SubstConcatMatches, SubstStringifyMatches, SubstPlainMatches,
     PushExpansionMatches, Zenon DEF Next
<1> QED
  BY <1>1, <1>2

-----------------------------------------------------------------------------
(* Where every call ends, for the macros a program is likely to have. *)

\* If the parentheses of every macro's body match, and # comes before a parameter
\* there as verify_macro demands, then as long as ## pastes no parenthesis, no
\* call takes the marker that ends the argument in which it stands, whatever the
\* files hold (parse_macro_args, line 433): each text of the context stack leaves
\* the parentheses as it found them, and so does an argument up to its marker,
\* which a call that is open can not reach.
THEOREM BalancedArgumentsEnd ==
  ASSUME BalancedMacros
  PROVE  Spec /\ []PastesFit => []ArgumentsEnd
<1>1. Init => Nesting /\ ArgumentsEnd /\ Balance
  <2>1. Init => ArgumentsEnd
    BY DEF Init, ArgumentsEnd
  <2> QED
    BY <2>1, InitNests, InitMatches
<1>2. /\ Parts /\ Parts' /\ PastesFit /\ Nesting /\ ArgumentsEnd /\ Balance /\ [Next]_vars
      => Nesting' /\ ArgumentsEnd' /\ Balance'
  <2> SUFFICES ASSUME Parts, Parts', PastesFit, Nesting, ArgumentsEnd, Balance, [Next]_vars
               PROVE  Nesting' /\ ArgumentsEnd' /\ Balance'
    OBVIOUS
  <2>1. ArgumentsEnd'
    BY StepEndsArguments
  <2>2. Nesting'
    BY <2>1, StepNests
  <2>3. Balance'
    BY StepMatches
  <2> QED
    BY <2>1, <2>2, <2>3
<1>3. Parts <=> IInv
  BY PartsAreIInv
<1> QED
  BY <1>1, <1>2, <1>3, Invariance, PTL DEF Spec

\* With such macros no macro is ever expanded inside its own expansion
\* (expand_token, line 557), not even while an argument is expanded, whatever the
\* files hold, as long as ## pastes no parenthesis.
THEOREM BalancedMacrosStayOutOfThemselves ==
  ASSUME BalancedMacros
  PROVE  Spec /\ []PastesFit => []NoSelfExpansion
<1>1. Spec /\ []PastesFit => []ArgumentsEnd
  BY BalancedArgumentsEnd
<1>2. Spec /\ []ArgumentsEnd => []NoSelfExpansion
  BY NoMacroInItself
<1> QED
  BY <1>1, <1>2, PTL

=============================================================================
