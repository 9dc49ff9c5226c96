--------------------------- MODULE IncludesProofs ---------------------------
(***************************************************************************)
(* A file that begins with #pragma once is never open twice, and no file   *)
(* is opened from skipped text, for all files, directories and contents.   *)
(***************************************************************************)
EXTENDS Includes, SeqLemmas

\* The window holds the tokens before the lexer's position.
WindowOK(c) ==
  /\ c \in Context /\ c.next >= 3
  /\ c.ahead[1].tag = Lexed(c.file, c.next - 2).tag
  /\ c.ahead[2].tag = Lexed(c.file, c.next - 1).tag
  /\ c.next = 3 => c.ahead[1].isFirst

WindowsOK(ch) == ch \in Seq(Context) /\ \A k \in 1 .. Len(ch) : WindowOK(ch[k])

NeverTwice(ch) ==
  \A j, k \in 1 .. Len(ch) :
    ch[j].file = ch[k].file /\ IsGuarded(ch[j].file) => j = k

\* The guarded files among the first n of a chain are marked.
Marked(ch, n, marks) ==
  \A k \in 1 .. n : IsGuarded(ch[k].file) => ch[k].file \in marks

\* The innermost file has just been opened and its guard is being read.
InGuard ==
  /\ chain # <<>>
  /\ \/ mode = "text" /\ Top.next = 3
     \/ mode = "directive" /\ Top.next = 4
  /\ IsGuarded(Top.file) /\ Top.isActive
  /\ Marked(chain, Len(chain) - 1, once)

Marks == Marked(chain, Len(chain), once) \/ InGuard

Includers(ch) == \A k \in 1 .. Len(ch) - 1 : ch[k].isActive

\* While an #include is read, and until it takes effect, its file is active; while
\* the name of an #elifdef is read, its file has the group.
IsOpening(m, p) == m \in {"include", "name"} \/ p.tag = "open"
OpeningOK == IsOpening(mode, pending) => Top.isActive
BranchOK  == mode \in {"elifdef", "elifndef"} => Top.conds # <<>>

\* Only a directive whose name has been read is waiting to take effect.
Idle(m, p) == m \notin {"rest", "lineName"} => p = Nothing

IInv ==
  /\ TypeOK /\ WindowsOK(chain) /\ NeverTwice(chain) /\ Marks
  /\ Includers(chain) /\ OpeningOK /\ BranchOK /\ Idle(mode, pending)

-----------------------------------------------------------------------------
(* Reading a token. *)

LEMMA LexedIsToken ==
  ASSUME TypeOK, NEW f \in Files, NEW n \in Nat \ {0}
  PROVE  Lexed(f, n) \in Token
<1>1. disk[f] \in Seq(Token)
  BY DEF TypeOK
<1>2. CASE n <= Len(disk[f])
  <2>1. disk[f][n] \in Token
    BY <1>1, <1>2
  <2> QED
    BY <1>2, <2>1 DEF Lexed
<1>3. CASE ~(n <= Len(disk[f]))
  BY <1>3 DEF Lexed, EOF, Tag, Tags, Token, ValueOK
<1> QED
  BY <1>2, <1>3

LEMMA StampedIsToken ==
  ASSUME NEW t, t.tag \in Tags, t.val \in Nat \cup Names, ValueOK(t),
         NEW n \in Nat, NEW b \in BOOLEAN
  PROVE  /\ Stamped(t, n, b) \in StampedToken
         /\ Stamped(t, n, b).tag = t.tag /\ Stamped(t, n, b).isFirst = b
BY DEF Stamped, StampedToken, ValueOK

\* A context with a new position, window and line.
At(c, n, a, l) == [c EXCEPT !.next = n, !.ahead = a, !.line = l]

LEMMA AtIsContext ==
  ASSUME NEW c \in Context, NEW n \in Nat \ {0},
         NEW a \in StampedToken \X StampedToken, NEW l \in Nat
  PROVE  LET d == At(c, n, a, l)
         IN d \in Context /\ d.file = c.file /\ d.next = n /\ d.ahead = a /\ d.isActive = c.isActive /\ d.conds = c.conds
<1> DEFINE Places  == Nat \ {0}
           Windows == StampedToken \X StampedToken
           Stacks  == Seq(Cond)
           Records == [file : Files, next : Places, ahead : Windows, line : Nat,
                       isActive : BOOLEAN, conds : Stacks, skipped : Nat]
           d == [c EXCEPT !.next = n, !.ahead = a, !.line = l]
<1>1. c \in Records /\ Context = Records
  BY DEF Context
<1>2. n \in Places /\ a \in Windows
  OBVIOUS
<1> HIDE DEF Places, Windows, Stacks
<1>3. d \in Records
  BY <1>1, <1>2
<1>4. d.file = c.file /\ d.next = n /\ d.ahead = a /\ d.isActive = c.isActive /\ d.conds = c.conds
  BY <1>1, <1>2
<1>5. At(c, n, a, l) = d
  BY DEF At
<1> QED
  BY <1>1, <1>3, <1>4, <1>5

\* A context with a new window and line.
Shown(c, a, l) == [c EXCEPT !.ahead = a, !.line = l]

LEMMA ShownIsContext ==
  ASSUME NEW c \in Context, NEW a \in StampedToken \X StampedToken, NEW l \in Nat
  PROVE  LET d == Shown(c, a, l)
         IN d \in Context /\ d.file = c.file /\ d.next = c.next /\ d.ahead = a /\ d.isActive = c.isActive /\ d.conds = c.conds
<1> DEFINE Places  == Nat \ {0}
           Windows == StampedToken \X StampedToken
           Stacks  == Seq(Cond)
           Records == [file : Files, next : Places, ahead : Windows, line : Nat,
                       isActive : BOOLEAN, conds : Stacks, skipped : Nat]
           d == [c EXCEPT !.ahead = a, !.line = l]
<1>1. c \in Records /\ Context = Records
  BY DEF Context
<1>2. a \in Windows
  OBVIOUS
<1> HIDE DEF Places, Windows, Stacks
<1>3. d \in Records
  BY <1>1, <1>2
<1>4. d.file = c.file /\ d.next = c.next /\ d.ahead = a /\ d.isActive = c.isActive /\ d.conds = c.conds
  BY <1>1, <1>2
<1>5. Shown(c, a, l) = d
  BY DEF Shown
<1> QED
  BY <1>1, <1>3, <1>4, <1>5

\* A context with other groups.
Grouped(c, g, b) == [c EXCEPT !.conds = g, !.isActive = b]

LEMMA GroupedIsContext ==
  ASSUME NEW c \in Context, NEW g \in Seq(Cond), NEW b \in BOOLEAN
  PROVE  LET d == Grouped(c, g, b)
         IN d \in Context /\ d.file = c.file /\ d.next = c.next /\ d.ahead = c.ahead
<1> DEFINE Places  == Nat \ {0}
           Windows == StampedToken \X StampedToken
           Stacks  == Seq(Cond)
           Records == [file : Files, next : Places, ahead : Windows, line : Nat,
                       isActive : BOOLEAN, conds : Stacks, skipped : Nat]
           d == [c EXCEPT !.conds = g, !.isActive = b]
<1>1. c \in Records /\ Context = Records
  BY DEF Context
<1>2. g \in Stacks
  OBVIOUS
<1> HIDE DEF Places, Windows, Stacks
<1>3. d \in Records
  BY <1>1, <1>2
<1>4. d.file = c.file /\ d.next = c.next /\ d.ahead = c.ahead
  BY <1>1, <1>2
<1>5. Grouped(c, g, b) = d
  BY DEF Grouped
<1> QED
  BY <1>1, <1>3, <1>4, <1>5

\* A context with another number of skipped groups.
Counted(c, n) == [c EXCEPT !.skipped = n]

LEMMA CountedIsContext ==
  ASSUME NEW c \in Context, NEW n \in Nat
  PROVE  LET d == Counted(c, n)
         IN d \in Context /\ d.file = c.file /\ d.next = c.next /\ d.ahead = c.ahead
<1> DEFINE Places  == Nat \ {0}
           Windows == StampedToken \X StampedToken
           Stacks  == Seq(Cond)
           Records == [file : Files, next : Places, ahead : Windows, line : Nat,
                       isActive : BOOLEAN, conds : Stacks, skipped : Nat]
           d == [c EXCEPT !.skipped = n]
<1>1. c \in Records /\ Context = Records
  BY DEF Context
<1> HIDE DEF Places, Windows, Stacks
<1>2. d \in Records
  BY <1>1
<1>3. d.file = c.file /\ d.next = c.next /\ d.ahead = c.ahead
  BY <1>1
<1>4. Counted(c, n) = d
  BY DEF Counted
<1> QED
  BY <1>1, <1>2, <1>3, <1>4

\* The contexts that Advance may be given: its window need not be filled yet.
LEMMA AdvanceIsContext ==
  ASSUME TypeOK, NEW c \in Context
  PROVE  /\ Advance(c) \in Context
         /\ Advance(c).file = c.file /\ Advance(c).next = c.next + 1
         /\ Advance(c).isActive = c.isActive /\ Advance(c).conds = c.conds
         /\ Advance(c).ahead[1] = c.ahead[2]
         /\ Advance(c).ahead[2].tag = Lexed(c.file, c.next).tag
         /\ Advance(c).ahead[2].isFirst = (c.next = 1 \/ Lexed(c.file, c.next - 1).tag = "nl")
<1>1. /\ c.file \in Files /\ c.next \in Nat \ {0} /\ c.line \in Nat
      /\ c.isActive \in BOOLEAN /\ c.conds \in Seq(Cond) /\ c.skipped \in Nat
      /\ c.ahead[2] \in StampedToken /\ c.ahead \in StampedToken \X StampedToken
  BY DEF Context
<1> DEFINE isFirst == c.next = 1 \/ Lexed(c.file, c.next - 1).tag = "nl"
           token   == Stamped(Lexed(c.file, c.next), c.line, isFirst)
           front   == c.ahead[2]
           line    == IF front.tag = "nl" THEN c.line + 1 ELSE c.line
           window  == <<front, token>>
           next    == c.next + 1
           new     == [c EXCEPT !.next = next, !.ahead = window, !.line = line]
<1>2. Advance(c) = new
  BY DEF Advance
<1>3. token \in StampedToken /\ token.tag = Lexed(c.file, c.next).tag /\ token.isFirst = isFirst
  <2> DEFINE t == Lexed(c.file, c.next)
  <2>1. t \in Token
    BY <1>1, LexedIsToken
  <2> HIDE DEF t, isFirst
  <2>2. t.tag \in Tags /\ t.val \in Nat \cup Names /\ ValueOK(t)
    BY <2>1 DEF Token
  <2>3. isFirst \in BOOLEAN
    BY DEF isFirst
  <2> QED
    BY <1>1, <2>2, <2>3, StampedIsToken DEF t
<1>4. front \in StampedToken /\ line \in Nat
  BY <1>1
<1> HIDE DEF token, front, line
<1>5. window \in StampedToken \X StampedToken
  BY <1>3, <1>4
<1>6. window[1] = front /\ window[2] = token
  OBVIOUS
<1> HIDE DEF window
<1>7. next \in Nat \ {0}
  BY <1>1
<1> HIDE DEF next, isFirst
<1>8. /\ new \in Context
      /\ new.file = c.file /\ new.next = next /\ new.ahead = window
      /\ new.isActive = c.isActive /\ new.conds = c.conds
  <2>1. new = At(c, next, window, line)
    BY DEF At
  <2> HIDE DEF new
  <2> QED
    BY <1>4, <1>5, <1>7, <2>1, AtIsContext, SMTT(20)
<1> HIDE DEF new
<1>9. /\ new \in Context
      /\ new.file = c.file /\ new.next = c.next + 1
      /\ new.isActive = c.isActive /\ new.conds = c.conds
      /\ new.ahead[1] = c.ahead[2]
      /\ new.ahead[2].tag = Lexed(c.file, c.next).tag
      /\ new.ahead[2].isFirst = isFirst
  BY <1>3, <1>6, <1>8 DEF front, next
<1> QED
  BY <1>2, <1>9, Zenon DEF isFirst

LEMMA AdvanceKeepsWindow ==
  ASSUME TypeOK, NEW c, WindowOK(c)
  PROVE  WindowOK(Advance(c))
<1>1. c \in Context /\ c.next >= 3 /\ c.next \in Nat
  BY DEF WindowOK, Context
<1>2. /\ Advance(c) \in Context /\ Advance(c).file = c.file /\ Advance(c).next = c.next + 1
      /\ Advance(c).ahead[1] = c.ahead[2]
      /\ Advance(c).ahead[2].tag = Lexed(c.file, c.next).tag
  BY <1>1, AdvanceIsContext
<1>3. c.next + 1 - 2 = c.next - 1 /\ c.next + 1 - 1 = c.next /\ c.next + 1 # 3
  BY <1>1
<1> QED
  BY <1>1, <1>2, <1>3 DEF WindowOK

\* A file that has just been opened has its first two tokens in the window.
LEMMA OpenedWindow ==
  ASSUME TypeOK, NEW f \in Files
  PROVE  WindowOK(Opened(f)) /\ Opened(f).file = f /\ Opened(f).next = 3 /\ Opened(f).isActive
<1> DEFINE invalid == Stamped(Tag("error"), 0, FALSE)
           c == [file |-> f, next |-> 1, ahead |-> <<invalid, invalid>>, line |-> 1,
                 isActive |-> TRUE, conds |-> <<>>, skipped |-> 0]
<1>1. invalid \in StampedToken
  BY DEF Stamped, Tag, Tags, StampedToken, ValueOK
<1> HIDE DEF invalid
<1>2. c \in Context /\ c.next = 1 /\ c.file = f /\ c.isActive
  BY <1>1 DEF Context
<1>3. Opened(f) = Advance(Advance(c))
  BY DEF Opened, invalid
<1> HIDE DEF c
<1>4. /\ Advance(c) \in Context /\ Advance(c).file = f /\ Advance(c).next = 2 /\ Advance(c).isActive
      /\ Advance(c).ahead[2].tag = Lexed(f, 1).tag /\ Advance(c).ahead[2].isFirst
  <2>1. /\ Advance(c) \in Context
        /\ Advance(c).file = c.file /\ Advance(c).next = c.next + 1
        /\ Advance(c).isActive = c.isActive
        /\ Advance(c).ahead[2].tag = Lexed(c.file, c.next).tag
        /\ Advance(c).ahead[2].isFirst = (c.next = 1 \/ Lexed(c.file, c.next - 1).tag = "nl")
    BY <1>2, AdvanceIsContext
  <2>2. 1 + 1 = 2
    OBVIOUS
  <2> QED
    BY <1>2, <2>1, <2>2, Zenon
<1> DEFINE d == Advance(c)
<1> HIDE DEF d
<1>5. /\ d \in Context /\ d.file = f /\ d.next = 2 /\ d.isActive
      /\ d.ahead[2].tag = Lexed(f, 1).tag /\ d.ahead[2].isFirst
  BY <1>4 DEF d
<1>6. /\ Advance(d) \in Context /\ Advance(d).file = f /\ Advance(d).next = 3 /\ Advance(d).isActive
      /\ Advance(d).ahead[1] = d.ahead[2] /\ Advance(d).ahead[2].tag = Lexed(f, 2).tag
  BY <1>5, AdvanceIsContext
<1>7. Opened(f) = Advance(d)
  BY <1>3 DEF d
<1>8. 3 - 2 = 1 /\ 3 - 1 = 2 /\ 3 >= 3
  OBVIOUS
<1>9. WindowOK(Advance(d))
  BY <1>5, <1>6, <1>8 DEF WindowOK
<1> QED
  BY <1>6, <1>7, <1>9, Zenon

\* The file that the next token comes from, and what the read does to the chain.
LEMMA SourceIsOpen ==
  ASSUME NEW ch \in Seq(Context), ch # <<>>
  PROVE  /\ Source(ch) \in 1 .. Len(ch)
         /\ ~IsExhausted(ch[Len(ch)]) => Source(ch) = Len(ch)
<1> DEFINE n == Len(ch)
           S == {k \in 1 .. n : ~IsExhausted(ch[k])}
<1>1. n \in Nat \ {0} /\ DOMAIN ch = 1 .. n
  BY EmptySeq, LenProperties
<1>2. CASE S = {}
  <2>1. Source(ch) = 1
    BY <1>1, <1>2 DEF Source
  <2>2. IsExhausted(ch[n])
    BY <1>1, <1>2
  <2> QED
    BY <1>1, <2>1, <2>2
<1>3. CASE S # {}
  <2> DEFINE Last(k) == ~IsExhausted(ch[k]) /\ \A l \in k + 1 .. n : IsExhausted(ch[l])
  <2>1. Source(ch) = CHOOSE k \in 1 .. n : Last(k)
    BY <1>1, <1>3 DEF Source
  <2>2. PICK m \in S : \A k \in S : k <= m
    <3>1. S \in SUBSET (1 .. n)
      OBVIOUS
    <3> HIDE DEF S, n
    <3> QED
      BY <1>1, <1>3, <3>1, LargestElement
  <2>3. m \in 1 .. n /\ Last(m)
    <3>1. \A l \in m + 1 .. n : l \in 1 .. n /\ ~(l <= m)
      BY <1>1
    <3> QED
      BY <2>2, <3>1
  <2> DEFINE k == Source(ch)
  <2> HIDE DEF Last
  <2>4. k \in 1 .. n /\ Last(k)
    BY <2>1, <2>3
  <2> HIDE DEF k, n
  <2>5. ~IsExhausted(ch[n]) => k = n
    <3>1. SUFFICES ASSUME ~IsExhausted(ch[n]), k # n PROVE FALSE
      OBVIOUS
    <3>2. n \in k + 1 .. n
      BY <1>1, <2>4, <3>1
    <3> QED
      BY <2>4, <3>1, <3>2 DEF Last
  <2> QED
    BY <2>4, <2>5 DEF k, n
<1> QED
  BY <1>2, <1>3

LEMMA ReadFacts ==
  ASSUME TypeOK, NEW ch, WindowsOK(ch), ch # <<>>
  PROVE  /\ AfterRead(ch) \in Seq(Context)
         /\ Len(AfterRead(ch)) = Source(ch) /\ Source(ch) \in 1 .. Len(ch)
         /\ \A k \in 1 .. Source(ch) - 1 : AfterRead(ch)[k] = ch[k]
         /\ AfterRead(ch)[Source(ch)] =
              IF IsExhausted(ch[Source(ch)]) THEN ch[Source(ch)] ELSE Advance(ch[Source(ch)])
<1> DEFINE k    == Source(ch)
           last == IF IsExhausted(ch[k]) THEN ch[k] ELSE Advance(ch[k])
           head == SubSeq(ch, 1, k - 1)
<1>1. ch \in Seq(Context) /\ k \in 1 .. Len(ch) /\ Len(ch) \in Nat
  BY SourceIsOpen DEF WindowsOK
<1>2. AfterRead(ch) = head \o <<last>>
  BY DEF AfterRead
<1> HIDE DEF k
<1>3. ch[k] \in Context
  BY <1>1
<1>4. last \in Context
  BY <1>3, AdvanceIsContext
<1>5. /\ head \in Seq(Context) /\ Len(head) = k - 1
      /\ \A j \in 1 .. k - 1 : head[j] = ch[j]
  <2>1. k - 1 \in Nat /\ k - 1 <= Len(ch) /\ \A j \in 1 .. k - 1 : j \in 1 .. Len(ch)
    BY <1>1
  <2>2. \A j \in 1 .. k - 1 : ch[j] \in Context
    BY <1>1, <2>1
  <2>3. k - 1 - 1 + 1 = k - 1 /\ \A j \in 1 .. k - 1 : 1 + j - 1 = j
    BY <1>1
  <2> QED
    BY <2>1, <2>2, <2>3, SubSeqProperties
<1> HIDE DEF head, last
<1>6. /\ head \o <<last>> \in Seq(Context)
      /\ Len(head \o <<last>>) = k
      /\ \A j \in 1 .. k - 1 : (head \o <<last>>)[j] = ch[j]
      /\ (head \o <<last>>)[k] = last
  BY <1>1, <1>4, <1>5
<1> QED
  BY <1>1, <1>2, <1>6 DEF k, last

\* The chain that is read from is a prefix of the one before, and its files are
\* the same.
SameFiles(ch, r) ==
  /\ Len(r) \in 1 .. Len(ch)
  /\ \A k \in 1 .. Len(r) : r[k].file = ch[k].file

\* Its files are as active as before, and have the same groups.
SameGroups(ch, r) ==
  \A k \in 1 .. Len(r) : r[k].isActive = ch[k].isActive /\ r[k].conds = ch[k].conds

LEMMA ReadKeeps ==
  ASSUME TypeOK, NEW ch, WindowsOK(ch), ch # <<>>
  PROVE  /\ WindowsOK(AfterRead(ch)) /\ AfterRead(ch) # <<>>
         /\ SameFiles(ch, AfterRead(ch)) /\ SameGroups(ch, AfterRead(ch))
<1> DEFINE r == AfterRead(ch)
           s == Source(ch)
<1>1. /\ r \in Seq(Context) /\ Len(r) = s /\ s \in 1 .. Len(ch)
      /\ \A k \in 1 .. s - 1 : r[k] = ch[k]
      /\ r[s] = IF IsExhausted(ch[s]) THEN ch[s] ELSE Advance(ch[s])
  BY ReadFacts
<1> HIDE DEF r, s
<1>2. Len(ch) \in Nat /\ \A k \in 1 .. Len(ch) : WindowOK(ch[k])
  BY DEF WindowsOK
<1>3. /\ WindowOK(r[s]) /\ r[s].file = ch[s].file
      /\ r[s].isActive = ch[s].isActive /\ r[s].conds = ch[s].conds
  <2>1. WindowOK(ch[s])
    BY <1>1, <1>2
  <2>2. WindowOK(Advance(ch[s]))
    BY <2>1, AdvanceKeepsWindow
  <2>3. /\ Advance(ch[s]).file = ch[s].file /\ Advance(ch[s]).isActive = ch[s].isActive
        /\ Advance(ch[s]).conds = ch[s].conds
    BY <2>1, AdvanceIsContext DEF WindowOK
  <2> QED
    BY <1>1, <2>1, <2>2, <2>3
<1>4. \A k \in 1 .. s : k = s \/ (k \in 1 .. s - 1 /\ k \in 1 .. Len(ch))
  BY <1>1, <1>2
<1>5. WindowsOK(r)
  BY <1>1, <1>2, <1>3, <1>4 DEF WindowsOK
<1>6. r # <<>> /\ SameFiles(ch, r) /\ SameGroups(ch, r)
  BY <1>1, <1>2, <1>3, <1>4, EmptySeq DEF SameFiles, SameGroups
<1> QED
  BY <1>5, <1>6 DEF r

\* While the innermost file has tokens left, a read advances it alone.
LEMMA ReadTop ==
  ASSUME TypeOK, NEW ch, WindowsOK(ch), ch # <<>>,
         ch[Len(ch)].ahead[1].tag # "eof"
  PROVE  /\ Peek(ch) = ch[Len(ch)].ahead[1]
         /\ Len(AfterRead(ch)) = Len(ch)
         /\ AfterRead(ch)[Len(ch)] = Advance(ch[Len(ch)])
<1>1. Source(ch) = Len(ch)
  BY SourceIsOpen DEF IsExhausted, WindowsOK
<1> QED
  BY <1>1, ReadFacts DEF IsExhausted, Peek

LEMMA PeekIsToken ==
  ASSUME TypeOK, NEW ch, WindowsOK(ch), ch # <<>>
  PROVE  Peek(ch) \in StampedToken
<1>1. Source(ch) \in 1 .. Len(ch)
  BY SourceIsOpen DEF WindowsOK
<1>2. ch[Source(ch)] \in Context
  BY <1>1 DEF WindowsOK, WindowOK
<1> QED
  BY <1>2 DEF Peek, Context

\* Files that include others stay active, and so does one that is opening another.
LEMMA SameGroupsKeep ==
  ASSUME NEW ch, NEW r, SameFiles(ch, r), SameGroups(ch, r), Len(ch) \in Nat, Includers(ch)
  PROVE  Includers(r) /\ (Innermost(ch).isActive => Innermost(r).isActive)
<1>1. Len(r) \in 1 .. Len(ch) /\ \A k \in 1 .. Len(r) : r[k].isActive = ch[k].isActive
  BY DEF SameFiles, SameGroups
<1>2. Includers(r)
  BY <1>1 DEF Includers
<1>3. Len(r) \in 1 .. Len(ch) - 1 \/ Len(r) = Len(ch)
  BY <1>1
<1>4. Innermost(r).isActive = ch[Len(r)].isActive
  BY <1>1 DEF Innermost
<1> QED
  BY <1>2, <1>3, <1>4 DEF Includers, Innermost

LEMMA SameFilesKeep ==
  ASSUME NEW ch, NEW r, SameFiles(ch, r), Len(ch) \in Nat, NEW marks, NEW more, marks \subseteq more
  PROVE  /\ NeverTwice(ch) => NeverTwice(r)
         /\ Marked(ch, Len(ch), marks) => Marked(r, Len(r), more)
BY DEF SameFiles, NeverTwice, Marked

-----------------------------------------------------------------------------
(* A file that is guarded and has just been opened. *)

LEMMA GuardRead ==
  ASSUME TypeOK, NEW c, WindowOK(c), IsGuarded(c.file)
  PROVE  /\ c.next = 3 => c.ahead[1].tag = "hash" /\ c.ahead[1].isFirst
         /\ c.next = 4 => c.ahead[1].tag = "pragma"
         /\ c.next = 5 => c.ahead[1].tag = "once"
<1>1. /\ Len(disk[c.file]) >= 4
      /\ disk[c.file][1] = Tag("hash") /\ disk[c.file][2] = Tag("pragma")
      /\ disk[c.file][3] = Tag("once")
  BY DEF IsGuarded, Guard
<1>2. c.file \in Files /\ Len(disk[c.file]) \in Nat
  BY DEF WindowOK, Context, TypeOK
<1>3. /\ Lexed(c.file, 1).tag = "hash" /\ Lexed(c.file, 2).tag = "pragma"
      /\ Lexed(c.file, 3).tag = "once"
  BY <1>1, <1>2 DEF Lexed, Tag
<1>4. 3 - 2 = 1 /\ 4 - 2 = 2 /\ 5 - 2 = 3
  OBVIOUS
<1>5. c.ahead[1].tag = Lexed(c.file, c.next - 2).tag /\ (c.next = 3 => c.ahead[1].isFirst)
  BY DEF WindowOK
<1> QED
  BY <1>3, <1>4, <1>5

\* The guard is read in two steps, Hash and Pragma, that no other can replace.
LEMMA InGuardReads ==
  ASSUME IInv, InGuard
  PROVE  /\ Peek(chain) = Top.ahead[1]
         /\ Len(AfterRead(chain)) = Len(chain)
         /\ AfterRead(chain)[Len(chain)] = Advance(Top)
         /\ mode = "text" => Peek(chain).tag = "hash" /\ Peek(chain).isFirst
         /\ mode = "directive" => Named({"pragma"}, TRUE)
<1>1. chain # <<>> /\ WindowsOK(chain) /\ TypeOK /\ IsGuarded(Top.file) /\ Top.isActive
  BY DEF IInv, InGuard
<1>2. WindowOK(Top)
  BY <1>1, EmptySeq DEF WindowsOK, Top, Innermost
<1>3. \/ mode = "text" /\ Top.ahead[1].tag = "hash" /\ Top.ahead[1].isFirst
      \/ mode = "directive" /\ Top.ahead[1].tag = "pragma"
  BY <1>1, <1>2, GuardRead DEF InGuard
<1>4. Top.ahead[1].tag # "eof"
  BY <1>3
<1>5. /\ Peek(chain) = Top.ahead[1]
      /\ Len(AfterRead(chain)) = Len(chain)
      /\ AfterRead(chain)[Len(chain)] = Advance(Top)
  BY <1>1, <1>4, ReadTop DEF Top, Innermost
<1>6. Innermost(AfterRead(chain)).isActive = TRUE
  <2>1. Advance(Top).isActive = Top.isActive
    BY <1>1, <1>2, AdvanceIsContext DEF WindowOK
  <2>2. Top.isActive \in BOOLEAN
    BY <1>2 DEF WindowOK, Context
  <2> QED
    BY <1>1, <1>5, <2>1, <2>2 DEF Innermost
<1> QED
  BY <1>3, <1>5, <1>6 DEF Named

-----------------------------------------------------------------------------
(* The steps.  Most of them read one token and change nothing else that the
   invariant speaks of. *)

LEMMA Kept ==
  ASSUME disk' = disk, WindowsOK(chain'), NeverTwice(chain'), Includers(chain'),
         Idle(mode', pending'),
         IsOpening(mode', pending') => Innermost(chain').isActive,
         mode' \in {"elifdef", "elifndef"} => Innermost(chain').conds # <<>>
  PROVE  /\ WindowsOK(chain)' /\ NeverTwice(chain)'
         /\ Includers(chain)' /\ OpeningOK' /\ BranchOK' /\ Idle(mode, pending)'
<1>1. WindowsOK(chain)'
  BY DEF WindowsOK, WindowOK, Lexed
<1>2. NeverTwice(chain)'
  BY DEF NeverTwice, IsGuarded
<1>3. Includers(chain)'
  BY DEF Includers
<1>4. OpeningOK' /\ BranchOK'
  BY DEF OpeningOK, BranchOK, IsOpening, Top, Innermost
<1>5. Idle(mode, pending)'
  BY DEF Idle, Nothing
<1> QED
  BY <1>1, <1>2, <1>3, <1>4, <1>5

\* While nothing waits to take effect, no file is being opened.
LEMMA IdleStep ==
  ASSUME IInv, mode \notin {"rest", "lineName"}, pending' = pending
  PROVE  /\ pending' = Nothing /\ Idle(mode', pending')
         /\ mode' \notin {"include", "name"} => ~IsOpening(mode', pending')
BY DEF IInv, Idle, IsOpening, Nothing

LEMMA Step ==
  ASSUME IInv, chain # <<>>, Marked(chain, Len(chain), once),
         WindowsOK(chain'), chain' # <<>>, SameFiles(chain, chain'), Includers(chain'),
         Idle(mode', pending'),
         IsOpening(mode', pending') => Innermost(chain').isActive,
         mode' \in {"elifdef", "elifndef"} => Innermost(chain').conds # <<>>,
         disk' = disk, unit' = unit,
         once \subseteq once', once' \subseteq Files, defined' \subseteq Token,
         mode' \in Modes, mode' # "closed", pending' \in Effect,
         name' \in Seq(StampedToken), output' \in Seq(StampedToken)
  PROVE  IInv'
<1>1. TypeOK /\ WindowsOK(chain) /\ NeverTwice(chain)
  BY DEF IInv
<1>2. NeverTwice(chain') /\ Marked(chain', Len(chain'), once')
  BY <1>1, SameFilesKeep DEF WindowsOK
<1>3. Marked(chain, Len(chain), once)'
  BY <1>2 DEF Marked, IsGuarded
<1>4. TypeOK'
  BY <1>1 DEF TypeOK, WindowsOK
<1> QED
  BY <1>2, <1>3, <1>4, Kept DEF IInv, Marks

LEMMA ReadStep ==
  ASSUME IInv, chain # <<>>, Marked(chain, Len(chain), once),
         chain' = AfterRead(chain), Idle(mode', pending'),
         IsOpening(mode', pending') => IsOpening(mode, pending) \/ Innermost(chain').isActive,
         mode' \in {"elifdef", "elifndef"} => Innermost(chain').conds # <<>>,
         disk' = disk, unit' = unit,
         once \subseteq once', once' \subseteq Files, defined' \subseteq Token,
         mode' \in Modes, mode' # "closed", pending' \in Effect,
         name' \in Seq(StampedToken), output' \in Seq(StampedToken)
  PROVE  IInv'
<1>1. TypeOK /\ WindowsOK(chain) /\ Includers(chain) /\ OpeningOK
  BY DEF IInv
<1>2. /\ WindowsOK(chain') /\ chain' # <<>>
      /\ SameFiles(chain, chain') /\ SameGroups(chain, chain')
  BY <1>1, ReadKeeps
<1>3. Includers(chain') /\ (Innermost(chain).isActive => Innermost(chain').isActive)
  BY <1>1, <1>2, SameGroupsKeep DEF WindowsOK
<1>4. IsOpening(mode', pending') => Innermost(chain').isActive
  BY <1>1, <1>3 DEF OpeningOK, Top
<1> QED
  BY <1>2, <1>3, <1>4, Step

\* Only Hash and Pragma are possible while a guard is being read.
LEMMA AllMarked ==
  ASSUME IInv, mode # "closed",
         \/ mode \notin {"text", "directive"}
         \/ mode = "text" /\ ~(Peek(chain).tag = "hash" /\ Peek(chain).isFirst)
         \/ mode = "directive" /\ ~Named({"pragma"}, TRUE)
  PROVE  chain # <<>> /\ Marked(chain, Len(chain), once)
<1>1. chain # <<>>
  BY DEF IInv, TypeOK
<1>2. ~InGuard
  <2>1. CASE mode \notin {"text", "directive"}
    BY <2>1 DEF InGuard
  <2>2. CASE mode \in {"text", "directive"}
    BY <2>2, InGuardReads
  <2> QED
    BY <2>1, <2>2
<1> QED
  BY <1>1, <1>2 DEF IInv, Marks

LEMMA InitOK == Init => IInv
<1> SUFFICES ASSUME Init PROVE IInv
  OBVIOUS
<1>1. TypeOK
  <2>1. disk \in [Files -> Seq(Token)]
    BY IncludesAssumption DEF Init
  <2>2. Len(Units) \in Nat
    BY IncludesAssumption
  <2>3. chain = <<>> /\ mode = "closed" /\ name = <<>> /\ output = <<>> /\ pending = Nothing
    BY DEF Init
  <2> QED
    BY <2>1, <2>2, <2>3 DEF Init, TypeOK, Modes, Effect
<1>2. Len(chain) = 0 /\ 1 .. 0 = {}
  BY DEF Init
<1> QED
  BY <1>1, <1>2 DEF IInv, Init, TypeOK, WindowsOK, NeverTwice, Marks, Marked, Includers,
     OpeningOK, IsOpening, Nothing, BranchOK, Idle

LEMMA StartOK == ASSUME IInv, Start PROVE IInv'
<1> DEFINE f == Units[unit + 1]
           c == Opened(f)
<1>1. TypeOK /\ disk' = disk /\ chain' = <<c>> /\ mode' = "text" /\ unit' = unit + 1
      /\ once' = {} /\ defined' = {}
      /\ name' = name /\ pending' = pending /\ output' = <<>> /\ unit < Len(Units)
  BY DEF IInv, Start
<1>2. f \in Files /\ unit + 1 \in 0 .. Len(Units)
  <2>1. unit \in Nat /\ Len(Units) \in Nat
    BY <1>1, IncludesAssumption DEF TypeOK
  <2>2. unit + 1 \in 1 .. Len(Units)
    BY <1>1, <2>1
  <2> QED
    BY <2>2, IncludesAssumption, ElementOfSeq
<1> HIDE DEF f
<1>3. WindowOK(c) /\ c.file = f /\ c.next = 3 /\ c.isActive
  BY <1>1, <1>2, OpenedWindow
<1> HIDE DEF c
<1>4. c \in Context
  BY <1>3 DEF WindowOK
<1>5. chain' \in Seq(Context) /\ Len(chain') = 1 /\ chain'[1] = c /\ chain' # <<>>
  BY <1>1, <1>4
<1>6. 1 .. 1 = {1} /\ 1 .. 1 - 1 = {}
  OBVIOUS
<1>7. WindowsOK(chain') /\ NeverTwice(chain') /\ Includers(chain') /\ Innermost(chain') = c
  BY <1>3, <1>5, <1>6 DEF WindowsOK, NeverTwice, Includers, Innermost
<1>8. TypeOK'
  BY <1>1, <1>2, <1>5 DEF TypeOK, Modes
<1>9. Marks'
  BY <1>1, <1>3, <1>5, <1>6 DEF Marks, Marked, InGuard, Top, Innermost
<1>10. Idle(mode', pending')
  BY <1>1 DEF IInv, Idle, Start
<1> QED
  BY <1>1, <1>3, <1>7, <1>8, <1>9, <1>10, Kept DEF IInv

LEMMA CloseOK == ASSUME IInv, Close PROVE IInv'
<1>1. TypeOK /\ chain' = <<>> /\ mode' = "closed" /\ UNCHANGED <<disk, unit, once, defined, name, pending, output>>
  BY DEF IInv, Close
<1>2. TypeOK'
  BY <1>1 DEF TypeOK, Modes
<1>3. Len(chain') = 0 /\ 1 .. 0 = {}
  BY <1>1
<1>4. pending' = Nothing
  BY <1>1 DEF IInv, Idle, Close
<1>5. OpeningOK' /\ BranchOK' /\ Idle(mode, pending)'
  BY <1>1, <1>4 DEF OpeningOK, IsOpening, BranchOK, Idle, Nothing
<1> QED
  BY <1>1, <1>2, <1>3, <1>5 DEF IInv, TypeOK, WindowsOK, NeverTwice, Marks, Marked, Includers

LEMMA TextOK == ASSUME IInv, Text PROVE IInv'
<1>1. /\ mode = "text" /\ ~(Peek(chain).tag = "hash" /\ Peek(chain).isFirst)
      /\ chain' = AfterRead(chain) /\ UNCHANGED <<disk, unit, once, defined, mode, name, pending>>
      /\ output' \in {output, Append(output, Peek(chain))}
  BY DEF Text
<1>2. chain # <<>> /\ Marked(chain, Len(chain), once)
  BY <1>1, AllMarked
<1>3. TypeOK /\ Peek(chain) \in StampedToken
  BY <1>2, PeekIsToken DEF IInv
<1>4. output' \in Seq(StampedToken)
  <2>1. output \in Seq(StampedToken)
    BY <1>3 DEF TypeOK
  <2>2. Append(output, Peek(chain)) \in Seq(StampedToken)
    BY <1>3, <2>1
  <2> QED
    BY <1>1, <2>1, <2>2
<1>5. Idle(mode', pending') /\ ~IsOpening(mode', pending')
  BY <1>1, IdleStep
<1> QED
  BY <1>1, <1>2, <1>3, <1>4, <1>5, ReadStep DEF TypeOK

\* When the guard of a file is being read, its hash leaves its directive to read.
LEMMA HashOK == ASSUME IInv, Hash PROVE IInv'
<1>1. /\ mode = "text" /\ mode' = "directive" /\ chain' = AfterRead(chain)
      /\ UNCHANGED <<disk, unit, once, defined, name, pending, output>>
  BY DEF Hash
<1>2. /\ TypeOK /\ WindowsOK(chain) /\ NeverTwice(chain) /\ Includers(chain)
      /\ chain # <<>> /\ Len(chain) \in Nat
  BY <1>1 DEF IInv, TypeOK
<1>3. Idle(mode', pending') /\ ~IsOpening(mode', pending')
  BY <1>1, IdleStep
<1>4. CASE Marked(chain, Len(chain), once)
  BY <1>1, <1>2, <1>3, <1>4, ReadStep DEF TypeOK, Modes
<1>5. CASE ~Marked(chain, Len(chain), once)
  <2>1. InGuard
    BY <1>5 DEF IInv, Marks
  <2>2. /\ Top.next = 3 /\ IsGuarded(Top.file) /\ Top.isActive
        /\ Marked(chain, Len(chain) - 1, once)
    BY <1>1, <2>1 DEF InGuard
  <2>3. /\ WindowsOK(chain') /\ chain' # <<>>
        /\ SameFiles(chain, chain') /\ SameGroups(chain, chain')
        /\ Len(chain') = Len(chain) /\ chain'[Len(chain')] = Advance(Top)
    BY <1>1, <1>2, <2>1, ReadKeeps, InGuardReads
  <2>4. /\ chain'[Len(chain')].next = 4 /\ chain'[Len(chain')].file = Top.file
        /\ chain'[Len(chain')].isActive
    <3>1. Top \in Context
      BY <1>2 DEF TypeOK, Top, Innermost
    <3>2. /\ Advance(Top).next = Top.next + 1 /\ Advance(Top).file = Top.file
          /\ Advance(Top).isActive = Top.isActive
      BY <1>2, <3>1, AdvanceIsContext
    <3> QED
      BY <2>2, <2>3, <3>2
  <2>5. NeverTwice(chain') /\ Includers(chain')
    BY <1>2, <2>3, SameFilesKeep, SameGroupsKeep
  <2>6. \A k \in 1 .. Len(chain') - 1 : IsGuarded(chain'[k].file) => chain'[k].file \in once
    BY <1>2, <2>2, <2>3 DEF SameFiles, Marked
  <2>7. InGuard'
    BY <1>1, <2>2, <2>3, <2>4, <2>6 DEF InGuard, Marked, IsGuarded, Top, Innermost
  <2>8. TypeOK'
    BY <1>1, <1>2, <2>3 DEF TypeOK, WindowsOK, Modes
  <2> QED
    BY <1>1, <1>3, <2>3, <2>5, <2>7, <2>8, Kept DEF IInv, Marks
<1> QED
  BY <1>4, <1>5

\* A directive that reads its name only, and is not #pragma in active text.
LEMMA NameStep ==
  ASSUME IInv, mode = "directive", ~Named({"pragma"}, TRUE), chain' = AfterRead(chain),
         mode' \in Modes \ {"closed"},
         mode' \in {"include", "name"} => Innermost(AfterRead(chain)).isActive,
         mode' \in {"elifdef", "elifndef"} => Innermost(AfterRead(chain)).conds # <<>>,
         UNCHANGED <<disk, unit, once, defined, name, pending, output>>
  PROVE  IInv'
<1>1. chain # <<>> /\ Marked(chain, Len(chain), once)
  BY AllMarked
<1>2. Idle(mode', pending') /\ (IsOpening(mode', pending') => Innermost(chain').isActive)
  BY IdleStep
<1> QED
  BY <1>1, <1>2, ReadStep DEF IInv, TypeOK

LEMMA InvalidOK == ASSUME IInv, Invalid \/ Ignored PROVE IInv'
<1>1. ~Named({"pragma"}, TRUE)
  BY DEF Invalid, Ignored, Named, Directives
<1> QED
  BY <1>1, NameStep DEF Invalid, Ignored, Named, Modes

LEMMA DirectiveOK ==
  ASSUME IInv, Include \/ Line \/ Message \/ DefineName \/ UndefName
  PROVE  IInv'
<1>1. PICK tag \in {"include", "line", "message", "define", "undef"},
           next \in {"include", "line", "rest", "define", "undef"} : Directive(tag, next)
  BY DEF Include, Line, Message, DefineName, UndefName
<1>2. ~Named({"pragma"}, TRUE) /\ Innermost(AfterRead(chain)).isActive
  BY <1>1 DEF Directive, Named
<1>3. next \in Modes \ {"closed"} /\ next \notin {"elifdef", "elifndef"}
  BY DEF Modes
<1> QED
  BY <1>1, <1>2, <1>3, NameStep DEF Directive, Named

\* The end of a guard: the file is marked before its next line is read.
LEMMA PragmaOK == ASSUME IInv, Pragma PROVE IInv'
<1> DEFINE ch == AfterRead(chain)
<1>1. /\ mode = "directive" /\ Named({"pragma"}, TRUE) /\ mode' = "rest"
      /\ IF Peek(ch).tag = "once"
         THEN once' = once \cup {ch[Len(ch)].file} /\ chain' = AfterRead(ch)
         ELSE once' = once /\ chain' = ch
      /\ UNCHANGED <<disk, unit, defined, name, pending, output>>
  BY DEF Pragma, Named
<1>2. /\ TypeOK /\ WindowsOK(chain) /\ NeverTwice(chain) /\ Includers(chain)
      /\ chain # <<>> /\ Len(chain) \in Nat
  BY <1>1 DEF IInv, TypeOK
<1>3. WindowsOK(ch) /\ ch # <<>> /\ SameFiles(chain, ch) /\ Includers(ch) /\ Len(ch) \in Nat
  <2>1. WindowsOK(ch) /\ ch # <<>> /\ SameFiles(chain, ch) /\ SameGroups(chain, ch)
    BY <1>2, ReadKeeps
  <2>2. Includers(ch) /\ Len(ch) \in Nat
    BY <1>2, <2>1, SameGroupsKeep DEF WindowsOK
  <2> QED
    BY <2>1, <2>2
<1>4. /\ WindowsOK(AfterRead(ch)) /\ AfterRead(ch) # <<>>
      /\ SameFiles(ch, AfterRead(ch)) /\ Includers(AfterRead(ch))
  <2> HIDE DEF ch
  <2>1. /\ WindowsOK(AfterRead(ch)) /\ AfterRead(ch) # <<>>
        /\ SameFiles(ch, AfterRead(ch)) /\ SameGroups(ch, AfterRead(ch))
    BY <1>2, <1>3, ReadKeeps
  <2> QED
    BY <1>3, <2>1, SameGroupsKeep
<1> HIDE DEF ch
<1>5. WindowsOK(chain') /\ chain' # <<>> /\ SameFiles(chain, chain') /\ Includers(chain')
  BY <1>1, <1>2, <1>3, <1>4 DEF SameFiles
<1>6. once \subseteq once' /\ once' \subseteq Files
  <2>1. ch[Len(ch)] \in Context
    BY <1>3, EmptySeq DEF WindowsOK
  <2>2. ch[Len(ch)].file \in Files
    BY <2>1 DEF Context
  <2> QED
    BY <1>1, <1>2, <2>2 DEF TypeOK
<1>7. Marked(chain, Len(chain), once')
  <2>1. CASE InGuard
    <3>1. Len(ch) = Len(chain) /\ ch[Len(ch)] = Advance(Top)
      BY <2>1, InGuardReads DEF ch
    <3>2. Top \in Context /\ Top.next = 4 /\ IsGuarded(Top.file)
      BY <1>1, <1>2, <2>1 DEF InGuard, TypeOK, Top, Innermost
    <3>3. ch[Len(ch)].next = 5 /\ ch[Len(ch)].file = Top.file
      <4>1. Advance(Top).next = Top.next + 1 /\ Advance(Top).file = Top.file
        BY <1>2, <3>2, AdvanceIsContext
      <4> QED
        BY <3>1, <3>2, <4>1
    <3>4. WindowOK(ch[Len(ch)])
      BY <1>2, <1>3, <3>1 DEF WindowsOK, SameFiles
    <3>5. ch[Len(ch)].ahead[1].tag = "once"
      BY <1>2, <3>2, <3>3, <3>4, GuardRead
    <3>6. Peek(ch) = ch[Len(ch)].ahead[1]
      BY <1>2, <1>3, <3>5, ReadTop
    <3>7. once' = once \cup {Top.file}
      BY <1>1, <3>3, <3>5, <3>6
    <3> QED
      BY <1>2, <2>1, <3>7 DEF InGuard, Marked, Top, Innermost
  <2>2. CASE ~InGuard
    BY <1>6, <2>2 DEF IInv, Marks, Marked
  <2> QED
    BY <2>1, <2>2
<1>8. NeverTwice(chain') /\ Marked(chain', Len(chain'), once')
  BY <1>2, <1>5, <1>7, SameFilesKeep
<1>9. Marked(chain, Len(chain), once)'
  BY <1>1, <1>8 DEF Marked, IsGuarded
<1>10. TypeOK'
  BY <1>1, <1>2, <1>5, <1>6 DEF TypeOK, WindowsOK, Modes
<1>11. Idle(mode', pending') /\ ~IsOpening(mode', pending')
  BY <1>1, IdleStep
<1> QED
  BY <1>1, <1>5, <1>8, <1>9, <1>10, <1>11, Kept DEF IInv, Marks

-----------------------------------------------------------------------------
(* The groups of the innermost file. *)

\* Another window, numbers or groups for the innermost file leave the others alone.
LEMMA InnermostReplaced ==
  ASSUME NEW ch, WindowsOK(ch), ch # <<>>, NEW c \in Context,
         c.file = Innermost(ch).file, c.next = Innermost(ch).next,
         c.ahead[1].tag = Innermost(ch).ahead[1].tag,
         c.ahead[2].tag = Innermost(ch).ahead[2].tag,
         c.ahead[1].isFirst = Innermost(ch).ahead[1].isFirst
  PROVE  /\ WindowsOK(WithInnermost(ch, c)) /\ WithInnermost(ch, c) # <<>>
         /\ SameFiles(ch, WithInnermost(ch, c)) /\ Innermost(WithInnermost(ch, c)) = c
         /\ Includers(ch) => Includers(WithInnermost(ch, c))
<1> DEFINE top == Innermost(ch)
           r   == [ch EXCEPT ![Len(ch)] = c]
<1>1. WithInnermost(ch, c) = r
  BY DEF WithInnermost
<1>2. /\ ch \in Seq(Context) /\ Len(ch) \in Nat \ {0}
      /\ \A k \in 1 .. Len(ch) : WindowOK(ch[k])
  BY EmptySeq DEF WindowsOK
<1>3. WindowOK(top)
  BY <1>2 DEF Innermost
<1>4. WindowOK(c)
  BY <1>3 DEF WindowOK
<1>5. /\ r \in Seq(Context) /\ Len(r) = Len(ch)
      /\ \A k \in 1 .. Len(ch) : r[k] = IF k = Len(ch) THEN c ELSE ch[k]
  BY <1>2
<1> HIDE DEF r
<1>6. WindowsOK(r) /\ r # <<>> /\ Innermost(r) = c
  BY <1>2, <1>4, <1>5, EmptySeq DEF WindowsOK, Innermost
<1>7. SameFiles(ch, r)
  BY <1>2, <1>5 DEF SameFiles, Innermost
<1>8. Includers(ch) => Includers(r)
  <2>1. \A k \in 1 .. Len(ch) - 1 : k \in 1 .. Len(ch) /\ k # Len(ch)
    BY <1>2
  <2> QED
    BY <1>5, <2>1 DEF Includers
<1> QED
  BY <1>1, <1>6, <1>7, <1>8

LEMMA AfterNameKeeps ==
  ASSUME TypeOK, NEW ch, WindowsOK(ch), ch # <<>>
  PROVE  /\ WindowsOK(AfterName(ch)) /\ AfterName(ch) # <<>>
         /\ SameFiles(ch, AfterName(ch)) /\ SameGroups(ch, AfterName(ch))
<1>1. SameFiles(ch, ch) /\ SameGroups(ch, ch)
  BY EmptySeq DEF SameFiles, SameGroups, WindowsOK
<1> QED
  BY <1>1, ReadKeeps DEF AfterName

\* What parse_ident takes for a name is the contents of a token.
LEMMA ContentsAreToken ==
  ASSUME NEW t \in StampedToken
  PROVE  Contents(t) \in Token
BY DEF Contents, StampedToken, Token, ValueOK

\* A directive that gives the innermost file other groups when it has read its name.
LEMMA GroupStep ==
  ASSUME IInv, chain # <<>>, Marked(chain, Len(chain), once), mode \notin {"rest", "lineName"},
         NEW r, WindowsOK(r), r # <<>>, SameFiles(chain, r), SameGroups(chain, r),
         NEW c \in Context, c.file = Innermost(r).file, c.next = Innermost(r).next,
         c.ahead = Innermost(r).ahead,
         chain' = WithInnermost(r, c), mode' = "rest",
         UNCHANGED <<disk, unit, once, defined, name, pending, output>>
  PROVE  IInv'
<1>1. TypeOK /\ WindowsOK(chain) /\ Includers(chain) /\ Len(chain) \in Nat
  BY DEF IInv, WindowsOK
<1>2. Includers(r)
  BY <1>1, SameGroupsKeep
<1>3. /\ WindowsOK(chain') /\ chain' # <<>> /\ SameFiles(r, chain') /\ Includers(chain')
  BY <1>2, InnermostReplaced
<1>4. SameFiles(chain, chain')
  BY <1>1, <1>3 DEF SameFiles
<1>5. Idle(mode', pending') /\ ~IsOpening(mode', pending')
  BY IdleStep
<1> QED
  BY <1>1, <1>3, <1>4, <1>5, Step DEF TypeOK, Modes

\* What the directives write to a file.
LEMMA GroupsAreContext ==
  ASSUME NEW c \in Context, NEW b \in BOOLEAN, NEW e \in BOOLEAN
  PROVE  /\ \E g \in Seq(Cond), a \in BOOLEAN : BeginGroup(c, b) = Grouped(c, g, a)
         /\ c.conds # <<>> =>
              \E g \in Seq(Cond), a \in BOOLEAN : BeginBranch(c, b, e) = Grouped(c, g, a)
         /\ \E g \in Seq(Cond), a \in BOOLEAN : EndGroup(c) = Grouped(c, g, a)
<1>1. c.conds \in Seq(Cond) /\ c.isActive \in BOOLEAN
  BY DEF Context
<1> DEFINE conds == c.conds
<1>2. \E g \in Seq(Cond), a \in BOOLEAN : BeginGroup(c, b) = Grouped(c, g, a)
  <2> DEFINE g == Append(c.conds, [wasActive |-> b, wasLastElse |-> FALSE])
             a == c.isActive /\ b
  <2>1. g \in Seq(Cond) /\ a \in BOOLEAN
    BY <1>1 DEF Cond
  <2>2. BeginGroup(c, b) = Grouped(c, g, a)
    BY DEF BeginGroup, Grouped
  <2> HIDE DEF g, a
  <2> QED
    BY <2>1, <2>2
<1>3. ASSUME c.conds # <<>>
      PROVE  \E g \in Seq(Cond), a \in BOOLEAN : BeginBranch(c, b, e) = Grouped(c, g, a)
  <2> DEFINE last == [wasActive |-> c.conds[Len(c.conds)].wasActive \/ b, wasLastElse |-> e]
             g    == [c.conds EXCEPT ![Len(c.conds)] = last]
  <2>1. last \in Cond
    BY <1>1 DEF Cond
  <2>2. BeginBranch(c, b, e) = Grouped(c, g, b)
    BY DEF BeginBranch, Grouped
  <2> HIDE DEF last
  <2>3. ASSUME NEW stack \in Seq(Cond), stack # <<>>, NEW d \in Cond
        PROVE  [stack EXCEPT ![Len(stack)] = d] \in Seq(Cond)
    <3>1. Len(stack) \in 1 .. Len(stack)
      BY <2>3, EmptySeq
    <3> QED
      BY <2>3, <3>1
  <2>4. g \in Seq(Cond)
    BY <1>1, <1>3, <2>1, <2>3
  <2> HIDE DEF g
  <2> QED
    BY <2>2, <2>4
<1>4. \E g \in Seq(Cond), a \in BOOLEAN : EndGroup(c) = Grouped(c, g, a)
  <2> DEFINE g == IF c.conds = <<>> THEN c.conds ELSE SubSeq(c.conds, 1, Len(c.conds) - 1)
  <2>1. EndGroup(c) = Grouped(c, g, TRUE)
    BY DEF EndGroup, Grouped
  <2>2. g \in Seq(Cond)
    <3>1. CASE c.conds = <<>>
      BY <1>1, <3>1
    <3>2. CASE c.conds # <<>>
      <4>1. SubSeq(c.conds, 1, Len(c.conds) - 1) \in Seq(Cond)
        BY <1>1, <3>2, FrontOfSeq
      <4> QED
        BY <3>2, <4>1
    <3> QED
      BY <3>1, <3>2
  <2> HIDE DEF g
  <2> QED
    BY <2>1, <2>2
<1> QED
  BY <1>2, <1>3, <1>4

-----------------------------------------------------------------------------
(* The name of an include file and the end of the directive. *)

LEMMA SearchPathIsSeq ==
  ASSUME NEW ch \in Seq(Context), NEW b \in BOOLEAN
  PROVE  SearchPath(ch, b) \in Seq(Directories)
<1>1. IncludePaths \in Seq(Directories)
  BY IncludesAssumption
<1> DEFINE dirs == [k \in DOMAIN ch |-> DirectoryOf[ch[Len(ch) + 1 - k].file]]
<1>2. dirs \in Seq(Directories)
  <2>1. DOMAIN ch = 1 .. Len(ch) /\ Len(ch) \in Nat
    OBVIOUS
  <2>2. \A k \in 1 .. Len(ch) : Len(ch) + 1 - k \in 1 .. Len(ch)
    BY <2>1
  <2>3. \A k \in 1 .. Len(ch) : ch[k] \in Context
    OBVIOUS
  <2>4. \A k \in 1 .. Len(ch) : ch[Len(ch) + 1 - k].file \in Files
    BY <2>2, <2>3 DEF Context
  <2>5. \A k \in 1 .. Len(ch) : DirectoryOf[ch[Len(ch) + 1 - k].file] \in Directories
    BY <2>4, IncludesAssumption
  <2> QED
    BY <2>1, <2>5, SeqDef
<1>3. dirs \o IncludePaths \in Seq(Directories)
  BY <1>1, <1>2, ConcatProperties
<1> QED
  BY <1>1, <1>3 DEF SearchPath

LEMMA FoundIsFile ==
  ASSUME NEW path \in Seq(Directories), NEW n \in Names
  PROVE  Target(Find(path, n)) \in Effect
<1> DEFINE found == {k \in DOMAIN path : FileAt[<<path[k], n>>] # NoFile}
<1>1. \A k \in found : FileAt[<<path[k], n>>] \in Files
  <2>1. \A k \in DOMAIN path : path[k] \in Directories
    OBVIOUS
  <2>2. \A k \in DOMAIN path : FileAt[<<path[k], n>>] \in Files \cup {NoFile}
    BY <2>1, IncludesAssumption
  <2> QED
    BY <2>2
<1>2. found \in SUBSET Nat
  OBVIOUS
<1>3. Find(path, n) = IF found = {} THEN NoFile
                      ELSE FileAt[<<path[CHOOSE k \in found : \A l \in found : k <= l], n>>]
  BY DEF Find
<1> HIDE DEF found
<1>4. Find(path, n) \in Files \cup {NoFile}
  <2>1. CASE found = {}
    BY <1>3, <2>1
  <2>2. CASE found # {}
    <3>1. \E k \in found : \A l \in found : k <= l
      BY <1>2, <2>2, SmallestElement
    <3>2. (CHOOSE k \in found : \A l \in found : k <= l) \in found
      BY <3>1
    <3> QED
      BY <1>1, <1>3, <2>2, <3>2
  <2> QED
    BY <2>1, <2>2
<1> QED
  BY <1>4 DEF Target, OpenFile, Nothing, Effect

LEMMA QuotedNameOK == ASSUME IInv, QuotedName PROVE IInv'
<1> DEFINE t == Peek(chain)
           path == SearchPath(AfterRead(chain), TRUE)
<1>1. /\ mode = "include" /\ mode' = "rest" /\ chain' = AfterRead(chain)
      /\ pending' = IF t.tag = "quoted" THEN Target(Find(path, t.val)) ELSE Nothing
      /\ UNCHANGED <<disk, unit, once, defined, name, output>>
  BY DEF QuotedName
<1>2. chain # <<>> /\ Marked(chain, Len(chain), once)
  BY <1>1, AllMarked
<1>3. TypeOK /\ WindowsOK(chain)
  BY DEF IInv
<1>4. t \in StampedToken
  BY <1>2, <1>3, PeekIsToken
<1>5. path \in Seq(Directories)
  BY <1>2, <1>3, ReadKeeps, SearchPathIsSeq DEF WindowsOK
<1> HIDE DEF t, path
<1>6. pending' \in Effect
  <2>1. CASE t.tag = "quoted"
    <3>1. t.val \in Names
      BY <1>4, <2>1 DEF StampedToken, ValueOK
    <3> QED
      BY <1>1, <1>5, <2>1, <3>1, FoundIsFile
  <2>2. CASE t.tag # "quoted"
    BY <1>1, <2>2 DEF Effect
  <2> QED
    BY <2>1, <2>2
<1>7. IsOpening(mode, pending) /\ Idle(mode', pending')
  BY <1>1 DEF IsOpening, Idle
<1> QED
  BY <1>1, <1>2, <1>3, <1>6, <1>7, ReadStep DEF TypeOK, Modes

LEMMA OpenBracketOK == ASSUME IInv, OpenBracket PROVE IInv'
<1>1. /\ mode = "include" /\ mode' = "name" /\ chain' = AfterRead(chain) /\ name' = <<>>
      /\ UNCHANGED <<disk, unit, once, defined, pending, output>>
  BY DEF OpenBracket
<1>2. chain # <<>> /\ Marked(chain, Len(chain), once)
  BY <1>1, AllMarked
<1>3. name' \in Seq(StampedToken)
  BY <1>1
<1>4. IsOpening(mode, pending) /\ Idle(mode', pending')
  BY <1>1, IdleStep DEF IsOpening
<1> QED
  BY <1>1, <1>2, <1>3, <1>4, ReadStep DEF IInv, TypeOK, Modes

LEMMA NamePartOK == ASSUME IInv, NamePart PROVE IInv'
<1>1. /\ mode = "name" /\ chain' = AfterRead(chain) /\ name' = Append(name, Peek(chain))
      /\ UNCHANGED <<disk, unit, once, defined, mode, pending, output>>
  BY DEF NamePart
<1>2. chain # <<>> /\ Marked(chain, Len(chain), once)
  BY <1>1, AllMarked
<1>3. Peek(chain) \in StampedToken
  BY <1>2, PeekIsToken DEF IInv
<1>4. name' \in Seq(StampedToken)
  BY <1>1, <1>3 DEF IInv, TypeOK
<1>5. IsOpening(mode, pending) /\ Idle(mode', pending')
  BY <1>1, IdleStep DEF IsOpening
<1> QED
  BY <1>1, <1>2, <1>4, <1>5, ReadStep DEF IInv, TypeOK, Modes

LEMMA CloseBracketOK == ASSUME IInv, CloseBracket PROVE IInv'
<1> DEFINE path == SearchPath(AfterRead(chain), FALSE)
           b == Peek(chain).tag = "gt" /\ Len(name) = 1 /\ name[1].tag = "word"
<1>1. /\ mode = "name" /\ mode' = "rest" /\ chain' = AfterRead(chain) /\ name' = <<>>
      /\ pending' = IF b THEN Target(Find(path, name[1].val)) ELSE Nothing
      /\ UNCHANGED <<disk, unit, once, defined, output>>
  BY DEF CloseBracket
<1>2. chain # <<>> /\ Marked(chain, Len(chain), once)
  BY <1>1, AllMarked
<1>3. TypeOK /\ WindowsOK(chain)
  BY DEF IInv
<1>4. path \in Seq(Directories)
  BY <1>2, <1>3, ReadKeeps, SearchPathIsSeq DEF WindowsOK
<1> HIDE DEF path
<1>5. pending' \in Effect
  <2>1. CASE b
    <3>1. name[1] \in StampedToken
      <4>1. name \in Seq(StampedToken)
        BY <1>3 DEF TypeOK
      <4>2. 1 \in 1 .. Len(name)
        BY <2>1
      <4> HIDE DEF b
      <4> QED
        BY <4>1, <4>2, ElementOfSeq
    <3>2. name[1].val \in Names
      BY <2>1, <3>1 DEF StampedToken, ValueOK
    <3> QED
      BY <1>1, <1>4, <2>1, <3>2, FoundIsFile
  <2>2. CASE ~b
    BY <1>1, <2>2 DEF Effect
  <2> QED
    BY <2>1, <2>2
<1>6. name' \in Seq(StampedToken)
  BY <1>1
<1>7. IsOpening(mode, pending) /\ Idle(mode', pending')
  BY <1>1 DEF IsOpening, Idle
<1> QED
  BY <1>1, <1>2, <1>3, <1>5, <1>6, <1>7, ReadStep DEF TypeOK, Modes

LEMMA LineNumberOK == ASSUME IInv, LineNumber PROVE IInv'
<1> DEFINE t == Peek(chain)
<1>1. /\ mode = "line" /\ chain' = AfterRead(chain)
      /\ mode' = IF t.tag = "int" THEN "lineName" ELSE IF t.tag = "nl" THEN "text" ELSE "rest"
      /\ pending' = IF t.tag = "int" THEN SetLine(t.val, Len(chain)) ELSE Nothing
      /\ UNCHANGED <<disk, unit, once, defined, name, output>>
  BY DEF LineNumber
<1>2. chain # <<>> /\ Marked(chain, Len(chain), once)
  BY <1>1, AllMarked
<1>3. TypeOK /\ Len(chain) \in Nat
  BY DEF IInv, TypeOK
<1>4. t \in StampedToken
  BY <1>2, PeekIsToken DEF IInv
<1> HIDE DEF t
<1>5. pending' \in Effect
  <2>1. t.tag = "int" => t.val \in Nat
    BY <1>4 DEF StampedToken, ValueOK
  <2> QED
    BY <1>1, <1>3, <2>1 DEF SetLine, Effect
<1>6. mode' \in Modes /\ mode' # "closed"
  BY <1>1 DEF Modes
<1>7. Idle(mode', pending') /\ ~IsOpening(mode', pending')
  BY <1>1 DEF Idle, IsOpening, SetLine, Nothing
<1> QED
  BY <1>1, <1>2, <1>3, <1>5, <1>6, <1>7, ReadStep DEF TypeOK

LEMMA LineNameOK == ASSUME IInv, LineName PROVE IInv'
<1>1. /\ mode = "lineName" /\ mode' = "rest" /\ chain' = AfterRead(chain)
      /\ pending' \in {pending, Nothing}
      /\ UNCHANGED <<disk, unit, once, defined, name, output>>
  BY DEF LineName
<1>2. chain # <<>> /\ Marked(chain, Len(chain), once)
  BY <1>1, AllMarked
<1>3. pending' \in Effect
  BY <1>1 DEF IInv, TypeOK, Effect
<1>4. Idle(mode', pending') /\ (IsOpening(mode', pending') => IsOpening(mode, pending))
  BY <1>1 DEF Idle, IsOpening, Nothing
<1> QED
  BY <1>1, <1>2, <1>3, <1>4, ReadStep DEF IInv, TypeOK, Modes

LEMMA SkipOK == ASSUME IInv, Skip PROVE IInv'
<1>1. /\ mode = "rest" /\ mode' = "rest" /\ chain' = AfterRead(chain)
      /\ pending' \in {pending, Nothing}
      /\ UNCHANGED <<disk, unit, once, defined, name, output>>
  BY DEF Skip
<1>2. chain # <<>> /\ Marked(chain, Len(chain), once)
  BY <1>1, AllMarked
<1>3. pending' \in Effect
  BY <1>1 DEF IInv, TypeOK, Effect
<1>4. Idle(mode', pending') /\ (IsOpening(mode', pending') => IsOpening(mode, pending))
  BY <1>1 DEF Idle, IsOpening, Nothing
<1> QED
  BY <1>1, <1>2, <1>3, <1>4, ReadStep DEF IInv, TypeOK, Modes

\* #line writes numbers only.
LEMMA RenumberedKeeps ==
  ASSUME TypeOK, NEW ch, WindowsOK(ch), ch # <<>>, NEW n \in Nat, NEW depth \in Nat
  PROVE  /\ WindowsOK(Renumbered(ch, n, depth)) /\ Renumbered(ch, n, depth) # <<>>
         /\ SameFiles(ch, Renumbered(ch, n, depth))
         /\ Includers(ch) => Includers(Renumbered(ch, n, depth))
<1> DEFINE top    == Innermost(ch)
           Show(t, k) == Stamped(t, k, t.isFirst)
           second == IF top.ahead[1].tag = "nl" THEN n + 2 ELSE n + 1
           a      == Show(top.ahead[1], n + 1)
           b      == Show(top.ahead[2], second)
           line   == IF Len(ch) = depth THEN n + 1 ELSE top.line
           window == <<a, b>>
           new    == Shown(top, window, line)
<1>1. Renumbered(ch, n, depth) = WithInnermost(ch, new)
  BY DEF Renumbered, Shown
<1>2. top \in Context
  BY EmptySeq DEF WindowsOK, Innermost
<1> HIDE DEF top
<1>3. top.line \in Nat /\ top.ahead[1] \in StampedToken /\ top.ahead[2] \in StampedToken
  BY <1>2 DEF Context
<1>4. second \in Nat /\ line \in Nat /\ n + 1 \in Nat
  BY <1>3
<1>5. /\ a \in StampedToken /\ a.tag = top.ahead[1].tag /\ a.isFirst = top.ahead[1].isFirst
      /\ b \in StampedToken /\ b.tag = top.ahead[2].tag
  <2>1. ASSUME NEW t \in StampedToken, NEW k \in Nat
        PROVE  Show(t, k) \in StampedToken /\ Show(t, k).tag = t.tag /\ Show(t, k).isFirst = t.isFirst
    BY StampedIsToken DEF StampedToken
  <2> HIDE DEF Show, second
  <2> QED
    BY <1>3, <1>4, <2>1
<1> HIDE DEF a, b, line
<1>6. window \in StampedToken \X StampedToken /\ window[1] = a /\ window[2] = b
  BY <1>5
<1> HIDE DEF window
<1>7. new \in Context /\ new.file = top.file /\ new.next = top.next /\ new.ahead = window
  BY <1>2, <1>4, <1>6, ShownIsContext
<1> HIDE DEF new
<1> QED
  BY <1>1, <1>5, <1>6, <1>7, InnermostReplaced DEF top

\* A file that is not marked is opened: no guarded file that is open is the same.
LEMMA OpenKeeps ==
  ASSUME TypeOK, NEW ch, WindowsOK(ch), ch # <<>>, NeverTwice(ch), Marked(ch, Len(ch), once),
         Includers(ch), Innermost(ch).isActive,
         NEW f \in Files, f \notin once
  PROVE  /\ WindowsOK(Append(ch, Opened(f))) /\ NeverTwice(Append(ch, Opened(f)))
         /\ \/ ~IsGuarded(f)
            \/ Append(ch, Opened(f))[Len(ch) + 1].next = 3
         /\ Append(ch, Opened(f))[Len(ch) + 1].file = f
         /\ Append(ch, Opened(f))[Len(ch) + 1].isActive /\ Includers(Append(ch, Opened(f)))
         /\ Marked(Append(ch, Opened(f)), Len(ch), once)
<1> DEFINE c == Opened(f)
           r == Append(ch, c)
           n == Len(ch)
<1>1. WindowOK(c) /\ c.file = f /\ c.next = 3 /\ c.isActive
  BY OpenedWindow
<1> HIDE DEF c
<1>2. ch \in Seq(Context) /\ n \in Nat /\ c \in Context /\ \A k \in 1 .. n : WindowOK(ch[k])
  BY <1>1 DEF WindowsOK, WindowOK
<1>3. /\ r \in Seq(Context) /\ Len(r) = n + 1 /\ r[n + 1] = c
      /\ \A k \in 1 .. n : r[k] = ch[k]
  BY <1>2
<1>4. \A k \in 1 .. n + 1 : k = n + 1 \/ k \in 1 .. n
  BY <1>2
<1>5. \A k \in 1 .. n : IsGuarded(ch[k].file) => ch[k].file # f
  BY DEF Marked
<1> HIDE DEF r
<1>6. WindowsOK(r)
  BY <1>1, <1>2, <1>3, <1>4 DEF WindowsOK
<1>7. NeverTwice(r)
  <2> SUFFICES ASSUME NEW j \in 1 .. n + 1, NEW k \in 1 .. n + 1,
                      r[j].file = r[k].file, IsGuarded(r[j].file)
               PROVE  j = k
    BY <1>3 DEF NeverTwice
  <2>1. CASE j \in 1 .. n /\ k \in 1 .. n
    BY <1>3, <2>1 DEF NeverTwice
  <2>2. CASE j \in 1 .. n /\ k = n + 1
    BY <1>1, <1>3, <1>5, <2>2
  <2>3. CASE j = n + 1 /\ k \in 1 .. n
    BY <1>1, <1>3, <1>5, <2>3
  <2> QED
    BY <1>4, <2>1, <2>2, <2>3
<1>8. Marked(r, n, once)
  BY <1>3 DEF Marked
<1>9. Includers(r)
  <2>1. \A k \in 1 .. n : k = n \/ k \in 1 .. n - 1
    BY <1>2
  <2>2. \A k \in 1 .. n : ch[k].isActive
    BY <2>1 DEF Includers, Innermost
  <2>3. Len(r) - 1 = n
    BY <1>2, <1>3
  <2> QED
    BY <1>3, <2>2, <2>3 DEF Includers
<1> QED
  BY <1>1, <1>3, <1>6, <1>7, <1>8, <1>9 DEF c, r

LEMMA FinishOK == ASSUME IInv, Finish PROVE IInv'
<1> DEFINE ch == AfterRead(chain)
<1>1. /\ mode \in {"rest", "lineName"} /\ mode' = "text" /\ pending' = Nothing
      /\ chain' = Finished(ch) /\ UNCHANGED <<disk, unit, once, name, output>>
      /\ defined' = IF pending.tag = "define" THEN defined \cup {pending.macro} ELSE defined
  BY DEF Finish
<1>2. chain # <<>> /\ Marked(chain, Len(chain), once)
  BY <1>1, AllMarked
<1>3. /\ TypeOK /\ WindowsOK(chain) /\ NeverTwice(chain) /\ Includers(chain)
      /\ Len(chain) \in Nat
  BY DEF IInv, TypeOK
<1>4. /\ WindowsOK(ch) /\ ch # <<>> /\ SameFiles(chain, ch) /\ Includers(ch)
      /\ pending.tag = "open" => Innermost(ch).isActive
  <2>1. WindowsOK(ch) /\ ch # <<>> /\ SameFiles(chain, ch) /\ SameGroups(chain, ch)
    BY <1>2, <1>3, ReadKeeps
  <2>2. Includers(ch) /\ (Innermost(chain).isActive => Innermost(ch).isActive)
    BY <1>3, <2>1, SameGroupsKeep
  <2> QED
    BY <2>1, <2>2 DEF IInv, OpeningOK, IsOpening, Top
<1>5. NeverTwice(ch) /\ Marked(ch, Len(ch), once)
  BY <1>2, <1>3, <1>4, SameFilesKeep
<1> HIDE DEF ch
<1>6. ASSUME WindowsOK(chain'), chain' # <<>>, Includers(chain'), NeverTwice(chain'), Marks'
      PROVE  IInv'
  <2>1. defined' \subseteq Token
    BY <1>1, <1>3 DEF TypeOK, Effect, Nothing
  <2>2. TypeOK'
    BY <1>1, <1>3, <1>6, <2>1 DEF TypeOK, WindowsOK, Modes, Effect
  <2>3. Idle(mode', pending') /\ ~IsOpening(mode', pending')
    BY <1>1 DEF Idle, IsOpening, Nothing
  <2> QED
    BY <1>1, <1>6, <2>2, <2>3, Kept DEF IInv
<1>7. CASE SameFiles(ch, chain') /\ WindowsOK(chain') /\ chain' # <<>> /\ Includers(chain')
  <2>1. NeverTwice(chain') /\ Marked(chain', Len(chain'), once)
    BY <1>4, <1>5, <1>7, SameFilesKeep DEF WindowsOK
  <2>2. Marked(chain, Len(chain), once)'
    BY <1>1, <2>1 DEF Marked, IsGuarded
  <2> QED
    BY <1>6, <1>7, <2>1, <2>2 DEF Marks
<1>8. CASE pending.tag = "line"
  <2>1. pending.number \in Nat /\ pending.depth \in Nat
    BY <1>3, <1>8 DEF TypeOK, Effect, Nothing
  <2>2. chain' = Renumbered(ch, pending.number, pending.depth)
    BY <1>1, <1>8 DEF Finished
  <2> QED
    BY <1>3, <1>4, <1>7, <2>1, <2>2, RenumberedKeeps
<1>9. CASE pending.tag = "open" /\ pending.file \notin once
  <2> DEFINE f == pending.file
  <2>1. f \in Files
    BY <1>3, <1>9 DEF TypeOK, Effect, Nothing
  <2>2. chain' = Append(ch, Opened(f))
    BY <1>1, <1>9 DEF Finished
  <2> HIDE DEF f
  <2>3. f \notin once
    BY <1>9 DEF f
  <2>4. /\ WindowsOK(chain') /\ NeverTwice(chain') /\ Includers(chain')
        /\ chain'[Len(ch) + 1].file = f /\ Marked(chain', Len(ch), once)
        /\ chain'[Len(ch) + 1].isActive
        /\ ~IsGuarded(f) \/ chain'[Len(ch) + 1].next = 3
    BY <1>3, <1>4, <1>5, <1>9, <2>1, <2>2, <2>3, OpenKeeps
  <2>5. /\ Len(ch) \in Nat /\ Len(chain') = Len(ch) + 1 /\ chain' # <<>>
        /\ Len(chain') - 1 = Len(ch)
        /\ \A k \in 1 .. Len(chain') : k = Len(chain') \/ k \in 1 .. Len(ch)
    BY <1>4, <2>2, <2>4, EmptySeq DEF WindowsOK
  <2>6. CASE IsGuarded(f)
    <3>1. /\ chain'[Len(chain')].next = 3 /\ IsGuarded(chain'[Len(chain')].file)
          /\ chain'[Len(chain')].isActive /\ Marked(chain', Len(chain') - 1, once)
      BY <2>4, <2>5, <2>6
    <3>2. InGuard'
      BY <1>1, <2>5, <3>1 DEF InGuard, Marked, IsGuarded, Top, Innermost
    <3> QED
      BY <1>6, <2>4, <2>5, <3>2 DEF Marks
  <2>7. CASE ~IsGuarded(f)
    <3>1. Marked(chain', Len(chain'), once)
      BY <2>4, <2>5, <2>7 DEF Marked
    <3>2. Marked(chain, Len(chain), once)'
      BY <1>1, <3>1 DEF Marked, IsGuarded
    <3> QED
      BY <1>6, <2>4, <2>5, <3>2 DEF Marks
  <2> QED
    BY <2>6, <2>7
<1>10. CASE ~(pending.tag = "line") /\ ~(pending.tag = "open" /\ pending.file \notin once)
  <2>1. chain' = ch
    BY <1>1, <1>10 DEF Finished
  <2>2. SameFiles(ch, chain')
    BY <1>4, <2>1, EmptySeq DEF SameFiles, WindowsOK
  <2> QED
    BY <1>4, <1>7, <2>1, <2>2
<1> QED
  BY <1>8, <1>9, <1>10

-----------------------------------------------------------------------------
(* #define and #undef, and the conditional directives. *)

\* A directive that reads a name and writes nothing to the file.
LEMMA MacroNameOK == ASSUME IInv, MacroName \/ Undefine PROVE IInv'
<1>1. /\ mode \in {"define", "undef"} /\ mode' = "rest" /\ chain' = AfterName(chain)
      /\ UNCHANGED <<disk, unit, once, name, output>>
      /\ \/ pending' = Define(Contents(Peek(chain))) /\ defined' = defined
         \/ pending' = pending /\ defined' \subseteq defined
  BY DEF MacroName, Undefine
<1>2. chain # <<>> /\ Marked(chain, Len(chain), once)
  BY <1>1, AllMarked
<1>3. TypeOK /\ WindowsOK(chain) /\ Includers(chain) /\ Len(chain) \in Nat
  BY DEF IInv, WindowsOK
<1>4. /\ WindowsOK(chain') /\ chain' # <<>>
      /\ SameFiles(chain, chain') /\ SameGroups(chain, chain')
  BY <1>1, <1>2, <1>3, AfterNameKeeps
<1>5. Includers(chain')
  BY <1>3, <1>4, SameGroupsKeep
<1>6. Contents(Peek(chain)) \in Token
  BY <1>2, <1>3, PeekIsToken, ContentsAreToken
<1>7. pending' \in Effect /\ ~IsOpening(mode', pending')
  <2>1. CASE pending' = Define(Contents(Peek(chain)))
    BY <1>1, <1>6, <2>1 DEF Define, Effect, IsOpening
  <2>2. CASE pending' = pending
    BY <1>1, <1>3, <2>2, IdleStep DEF TypeOK
  <2> QED
    BY <1>1, <2>1, <2>2
<1>8. defined' \subseteq Token /\ Idle(mode', pending')
  BY <1>1, <1>3 DEF TypeOK, Idle
<1> QED
  BY <1>1, <1>2, <1>3, <1>4, <1>5, <1>7, <1>8, Step DEF TypeOK, Modes

LEMMA IfOK == ASSUME IInv, If PROVE IInv'
<1>1. ~Named({"pragma"}, TRUE)
  BY DEF If, Named
<1>2. mode = "directive" /\ mode' \in {"ifdef", "ifndef"} /\ chain' = AfterRead(chain)
  BY DEF If, Named
<1> QED
  BY <1>1, <1>2, NameStep DEF If, Modes

\* What is known where one of the conditional directives has read its own name.
LEMMA DirectiveRead ==
  ASSUME IInv, mode = "directive", ~Named({"pragma"}, TRUE)
  PROVE  /\ chain # <<>> /\ Marked(chain, Len(chain), once)
         /\ WindowsOK(AfterRead(chain)) /\ AfterRead(chain) # <<>>
         /\ SameFiles(chain, AfterRead(chain)) /\ SameGroups(chain, AfterRead(chain))
         /\ Innermost(AfterRead(chain)) \in Context
<1>1. chain # <<>> /\ Marked(chain, Len(chain), once)
  BY AllMarked
<1>2. /\ WindowsOK(AfterRead(chain)) /\ AfterRead(chain) # <<>>
      /\ SameFiles(chain, AfterRead(chain)) /\ SameGroups(chain, AfterRead(chain))
  BY <1>1, ReadKeeps DEF IInv
<1>3. Innermost(AfterRead(chain)) \in Context
  BY <1>2, EmptySeq DEF WindowsOK, Innermost
<1> QED
  BY <1>1, <1>2, <1>3

LEMMA SkippedIfOK == ASSUME IInv, SkippedIf PROVE IInv'
<1> DEFINE r == AfterRead(chain)
           c == Innermost(r)
           n == c.skipped + 1
<1>1. /\ mode = "directive" /\ ~Named({"pragma"}, TRUE) /\ mode' = "rest"
      /\ chain' = WithInnermost(r, Counted(c, n))
      /\ UNCHANGED <<disk, unit, once, defined, name, pending, output>>
  BY DEF SkippedIf, Named, Counted
<1>2. /\ chain # <<>> /\ Marked(chain, Len(chain), once) /\ WindowsOK(r) /\ r # <<>>
      /\ SameFiles(chain, r) /\ SameGroups(chain, r) /\ c \in Context
  BY <1>1, DirectiveRead
<1> HIDE DEF r
<1>3. n \in Nat
  BY <1>2 DEF Context
<1>4. /\ Counted(c, n) \in Context /\ Counted(c, n).file = c.file
      /\ Counted(c, n).next = c.next /\ Counted(c, n).ahead = c.ahead
  BY <1>2, <1>3, CountedIsContext
<1> HIDE DEF n
<1> QED
  BY <1>1, <1>2, <1>4, GroupStep

\* A file may get any groups where one of the conditional directives is obeyed.
LEMMA GroupedStep ==
  ASSUME IInv, chain # <<>>, Marked(chain, Len(chain), once), mode \notin {"rest", "lineName"},
         NEW r, WindowsOK(r), r # <<>>, SameFiles(chain, r), SameGroups(chain, r),
         NEW g \in Seq(Cond), NEW b \in BOOLEAN,
         chain' = WithInnermost(r, Grouped(Innermost(r), g, b)), mode' = "rest",
         UNCHANGED <<disk, unit, once, defined, name, pending, output>>
  PROVE  IInv'
<1> DEFINE d == Grouped(Innermost(r), g, b)
<1>1. Innermost(r) \in Context
  BY EmptySeq DEF WindowsOK, Innermost
<1>2. /\ d \in Context /\ d.file = Innermost(r).file
      /\ d.next = Innermost(r).next /\ d.ahead = Innermost(r).ahead
  BY <1>1, GroupedIsContext
<1>3. chain' = WithInnermost(r, d)
  OBVIOUS
<1> HIDE DEF d
<1> QED
  BY <1>2, <1>3, GroupStep

LEMMA IfNameOK == ASSUME IInv, IfName PROVE IInv'
<1> DEFINE r == AfterName(chain)
           c == Innermost(r)
           value == (Contents(Peek(chain)) \in defined) = (mode = "ifdef")
<1>1. /\ mode \in {"ifdef", "ifndef"} /\ mode' = "rest"
      /\ chain' = WithInnermost(r, BeginGroup(c, value))
      /\ UNCHANGED <<disk, unit, once, defined, name, pending, output>>
  BY DEF IfName
<1>2. chain # <<>> /\ Marked(chain, Len(chain), once)
  BY <1>1, AllMarked
<1>3. WindowsOK(r) /\ r # <<>> /\ SameFiles(chain, r) /\ SameGroups(chain, r)
  BY <1>2, AfterNameKeeps DEF IInv
<1>4. value \in BOOLEAN
  OBVIOUS
<1> HIDE DEF r, value
<1>5. c \in Context
  BY <1>3, EmptySeq DEF WindowsOK, Innermost
<1>6. PICK g \in Seq(Cond), b \in BOOLEAN : BeginGroup(c, value) = Grouped(c, g, b)
  BY <1>4, <1>5, GroupsAreContext
<1>7. chain' = WithInnermost(r, Grouped(Innermost(r), g, b))
  BY <1>1, <1>6
<1> QED
  BY <1>1, <1>2, <1>3, <1>7, GroupedStep

LEMMA BranchReadOK == ASSUME IInv, Branch PROVE IInv'
<1> DEFINE r == AfterRead(chain)
           c == Innermost(r)
           b == ~LastCond(c).wasActive
<1>1. /\ mode = "directive" /\ ~Named({"pragma"}, TRUE)
      /\ Peek(chain).tag \in {"elifdef", "elifndef", "else"}
      /\ UNCHANGED <<disk, unit, once, defined, name, pending, output>>
      /\ \/ /\ chain' = r /\ mode' \in {"text", "rest", "elifdef", "elifndef"}
            /\ c.conds = <<>> => mode' = "text"
         \/ c.conds # <<>> /\ chain' = WithInnermost(r, BeginBranch(c, b, TRUE)) /\ mode' = "rest"
  BY DEF Branch, Named
<1>2. CASE /\ chain' = r /\ mode' \in {"text", "rest", "elifdef", "elifndef"}
           /\ c.conds = <<>> => mode' = "text"
  BY <1>1, <1>2, NameStep DEF Modes
<1>3. CASE c.conds # <<>> /\ chain' = WithInnermost(r, BeginBranch(c, b, TRUE)) /\ mode' = "rest"
  <2>1. /\ chain # <<>> /\ Marked(chain, Len(chain), once) /\ WindowsOK(r) /\ r # <<>>
        /\ SameFiles(chain, r) /\ SameGroups(chain, r) /\ c \in Context
    BY <1>1, DirectiveRead
  <2>2. b \in BOOLEAN
    OBVIOUS
  <2> HIDE DEF r, b
  <2>3. PICK g \in Seq(Cond), a \in BOOLEAN : BeginBranch(c, b, TRUE) = Grouped(c, g, a)
    BY <1>3, <2>1, <2>2, GroupsAreContext
  <2>4. chain' = WithInnermost(r, Grouped(Innermost(r), g, a))
    BY <1>3, <2>3
  <2> QED
    BY <1>1, <1>3, <2>1, <2>4, GroupedStep
<1> QED
  BY <1>1, <1>2, <1>3

\* The group that an #elifdef belongs to is there when its name has been read, unless
\* its file is gone; whatever the name decides then, the file on top keeps its groups.
LEMMA ElifNameOK == ASSUME IInv, ElifName PROVE IInv'
<1> DEFINE r == AfterName(chain)
           c == Innermost(r)
           value == (Contents(Peek(chain)) \in defined) = (mode = "elifdef")
           b == value /\ ~LastCond(c).wasActive
<1>1. /\ mode \in {"elifdef", "elifndef"} /\ mode' = "rest"
      /\ UNCHANGED <<disk, unit, once, defined, name, pending, output>>
      /\ \/ Len(r) = Len(chain) /\ chain' = WithInnermost(r, BeginBranch(c, b, FALSE))
         \/ \E a \in {FALSE, value} : chain' = WithInnermost(r, [c EXCEPT !.isActive = a])
  BY DEF ElifName
<1>2. chain # <<>> /\ Marked(chain, Len(chain), once)
  BY <1>1, AllMarked
<1>3. WindowsOK(r) /\ r # <<>> /\ SameFiles(chain, r) /\ SameGroups(chain, r)
  BY <1>2, AfterNameKeeps DEF IInv
<1>4. value \in BOOLEAN /\ b \in BOOLEAN
  OBVIOUS
<1>5. Innermost(chain).conds # <<>>
  BY <1>1 DEF IInv, BranchOK, Top
<1> HIDE DEF r, value, b
<1>6. c \in Context /\ c.conds \in Seq(Cond)
  <2>1. c \in Context
    BY <1>3, EmptySeq DEF WindowsOK, Innermost
  <2> QED
    BY <2>1 DEF Context
<1>7. CASE Len(r) = Len(chain) /\ chain' = WithInnermost(r, BeginBranch(c, b, FALSE))
  <2>1. c.conds # <<>>
    BY <1>3, <1>5, <1>7 DEF SameFiles, SameGroups, Innermost
  <2>2. PICK g \in Seq(Cond), a \in BOOLEAN : BeginBranch(c, b, FALSE) = Grouped(c, g, a)
    BY <1>4, <1>6, <2>1, GroupsAreContext
  <2>3. chain' = WithInnermost(r, Grouped(Innermost(r), g, a))
    BY <1>7, <2>2
  <2> QED
    BY <1>1, <1>2, <1>3, <2>3, GroupedStep
<1>8. ASSUME NEW a \in {FALSE, value}, chain' = WithInnermost(r, [c EXCEPT !.isActive = a])
      PROVE  IInv'
  <2>1. a \in BOOLEAN
    BY <1>4
  <2>2. [c EXCEPT !.isActive = a] = Grouped(c, c.conds, a)
    BY <1>6 DEF Grouped, Context
  <2>3. chain' = WithInnermost(r, Grouped(Innermost(r), c.conds, a))
    BY <1>8, <2>2
  <2> QED
    BY <1>1, <1>2, <1>3, <1>6, <2>1, <2>3, GroupedStep
<1> QED
  BY <1>1, <1>7, <1>8

LEMMA EndifOK == ASSUME IInv, Endif PROVE IInv'
<1> DEFINE r == AfterRead(chain)
           c == Innermost(r)
           n == c.skipped - 1
<1>1. /\ mode = "directive" /\ ~Named({"pragma"}, TRUE) /\ mode' = "rest"
      /\ UNCHANGED <<disk, unit, once, defined, name, pending, output>>
      /\ chain' = WithInnermost(r, IF c.skipped > 0 THEN Counted(c, n) ELSE EndGroup(c))
  BY DEF Endif, Named, Counted
<1>2. /\ chain # <<>> /\ Marked(chain, Len(chain), once) /\ WindowsOK(r) /\ r # <<>>
      /\ SameFiles(chain, r) /\ SameGroups(chain, r) /\ c \in Context
  BY <1>1, DirectiveRead
<1> HIDE DEF r
<1>3. CASE c.skipped > 0
  <2>1. n \in Nat
    BY <1>2, <1>3 DEF Context
  <2>2. /\ Counted(c, n) \in Context /\ Counted(c, n).file = c.file
        /\ Counted(c, n).next = c.next /\ Counted(c, n).ahead = c.ahead
    BY <1>2, <2>1, CountedIsContext
  <2> HIDE DEF n
  <2> QED
    BY <1>1, <1>2, <1>3, <2>2, GroupStep
<1>4. CASE ~(c.skipped > 0)
  <2>1. PICK g \in Seq(Cond), a \in BOOLEAN : EndGroup(c) = Grouped(c, g, a)
    BY <1>2, GroupsAreContext
  <2>2. chain' = WithInnermost(r, Grouped(Innermost(r), g, a))
    BY <1>1, <1>4, <2>1
  <2> QED
    BY <1>1, <1>2, <2>2, GroupedStep
<1> QED
  BY <1>3, <1>4

-----------------------------------------------------------------------------
LEMMA StutterOK == ASSUME IInv, UNCHANGED vars PROVE IInv'
<1>1. UNCHANGED <<disk, unit, once, defined, chain, mode, name, pending, output>>
  BY DEF vars
<1>2. TypeOK'
  BY <1>1 DEF IInv, TypeOK
<1>3. WindowsOK(chain)' /\ NeverTwice(chain)' /\ Includers(chain)'
  BY <1>1 DEF IInv, WindowsOK, WindowOK, Lexed, NeverTwice, IsGuarded, Includers
<1>4. Marks'
  BY <1>1 DEF IInv, Marks, Marked, InGuard, IsGuarded, Top, Innermost
<1>5. OpeningOK' /\ BranchOK' /\ Idle(mode, pending)'
  BY <1>1 DEF IInv, OpeningOK, IsOpening, BranchOK, Idle, Top, Innermost, Nothing
<1> QED
  BY <1>2, <1>3, <1>4, <1>5 DEF IInv

\* Every guarded open file but the one whose guard is being read is marked in the
\* cache, and the windows hold what the lexer has read, in every state.
THEOREM Invariance == Spec => []IInv
<1>1. IInv /\ [Next]_vars => IInv'
  <2> SUFFICES ASSUME IInv, [Next]_vars PROVE IInv'
    OBVIOUS
  <2>1. CASE Start \/ Text \/ Hash \/ Close
    BY <2>1, StartOK, TextOK, HashOK, CloseOK, Zenon
  <2>2. CASE Ignored \/ Invalid \/ Include \/ Line \/ Message \/ Pragma
    BY <2>2, InvalidOK, DirectiveOK, PragmaOK, Zenon
  <2>3. CASE DefineName \/ MacroName \/ UndefName \/ Undefine
    BY <2>3, DirectiveOK, MacroNameOK, Zenon
  <2>4. CASE If \/ SkippedIf \/ IfName \/ Branch \/ ElifName \/ Endif
    BY <2>4, IfOK, SkippedIfOK, IfNameOK, BranchReadOK, ElifNameOK, EndifOK, Zenon
  <2>5. CASE QuotedName \/ OpenBracket \/ NamePart \/ CloseBracket
    BY <2>5, QuotedNameOK, OpenBracketOK, NamePartOK, CloseBracketOK, Zenon
  <2>6. CASE LineNumber \/ LineName \/ Skip \/ Finish
    BY <2>6, LineNumberOK, LineNameOK, SkipOK, FinishOK, Zenon
  <2>7. CASE UNCHANGED vars
    BY <2>7, StutterOK
  <2> QED
    BY <2>1, <2>2, <2>3, <2>4, <2>5, <2>6, <2>7, Zenon DEF Next
<1> QED
  BY <1>1, InitOK, PTL DEF Spec

\* The model's variables keep their types.
THEOREM Types == Spec => []TypeOK
<1>1. IInv => TypeOK
  BY DEF IInv
<1> QED
  BY <1>1, Invariance, PTL

\* A file that begins with #pragma once is never open twice, whatever files,
\* directories, names and contents there are.
THEOREM GuardedFilesOpenOnce == Spec => []GuardedOpenOnce
<1>1. IInv => GuardedOpenOnce
  <2> SUFFICES ASSUME IInv PROVE GuardedOpenOnce
    OBVIOUS
  <2>1. NeverTwice(chain) /\ DOMAIN chain = 1 .. Len(chain)
    BY DEF IInv, TypeOK
  <2> QED
    BY <2>1, Zenon DEF NeverTwice, GuardedOpenOnce
<1> QED
  BY <1>1, Invariance, PTL

\* Every file but the innermost is in text that is not skipped: none is opened from
\* skipped text, and nothing turns off the text around an #include while its file is
\* open, whatever groups the files leave open or end too often.
THEOREM IncludersStayActive == Spec => []IncludersAreActive
<1>1. IInv => IncludersAreActive
  BY Zenon DEF IInv, Includers, IncludersAreActive
<1> QED
  BY <1>1, Invariance, PTL
=============================================================================
