------------------------------ MODULE Includes ------------------------------
(***************************************************************************)
(* How preprocessor.c reads a file and the files that it includes: the     *)
(* chain of open files, each with a window of two tokens and a displayed   *)
(* line number and the conditional groups it is in, the file cache with    *)
(* its #pragma once marks, and the directives that open, skip, mark and    *)
(* number text.  Every step reads one token.                               *)
(*                                                                         *)
(* An end of file inside a directive pops the file and the directive goes  *)
(* on in the file that includes it, as in the code.  The text does not use *)
(* the names it defines (MacroExpansion models their expansion), and the   *)
(* conditions are those on names (Conditionals models expressions); that a *)
(* file in the cache cannot be read is left out.                           *)
(***************************************************************************)
EXTENDS Naturals, Sequences, FiniteSets

CONSTANTS
  Files,         \* files, each known by its canonical name
  Directories,
  Names,         \* file names that #include may give
  FileAt,        \* the file that a name stands for in a directory, or NoFile
  DirectoryOf,   \* the directory in a file's canonical name
  IncludePaths,  \* directories given with -I, in order
  Disks,         \* contents that the files may have
  Units,         \* the files given on the command line
  NoFile

Tag(t)    == [tag |-> t, val |-> 0]
Quoted(n) == [tag |-> "quoted", val |-> n]
Word(n)   == [tag |-> "word", val |-> n]
Number(k) == [tag |-> "int", val |-> k]
NL        == Tag("nl")
EOF       == Tag("eof")

\* The directives that count in skipped text.
Control == {"ifdef", "ifndef", "elifdef", "elifndef", "else", "endif"}

Directives == Control \cup {"include", "pragma", "line", "define", "undef", "message"}

Tags == Directives \cup
  {"nl", "eof", "error", "hash", "once", "lt", "gt", "word", "quoted", "int"}

\* The names of the directives are no keywords of the lexer, but for else.
IsIdent(t) == t.tag \in (Directives \ {"else"}) \cup {"once", "word"}

\* Words and strings hold names, numbers their value.
ValueOK(t) ==
  /\ t.tag \in {"word", "quoted"} => t.val \in Names
  /\ t.tag = "int" => t.val \in Nat

Token == {t \in [tag : Tags, val : Nat \cup Names] : ValueOK(t)}

\* A token as it was lexed: the line that messages about it show, and whether it
\* is the first of its line.
Stamped(t, line, isFirst) == [tag |-> t.tag, val |-> t.val, line |-> line, isFirst |-> isFirst]
StampedToken ==
  {t \in [tag : Tags, val : Nat \cup Names, line : Nat, isFirst : BOOLEAN] : ValueOK(t)}

\* struct cond
Cond == [wasActive : BOOLEAN, wasLastElse : BOOLEAN]

\* struct context of a source file: next is the lexer's position, skipped the
\* inactive_cond_depth.
Context ==
  [file : Files, next : Nat \ {0}, ahead : StampedToken \X StampedToken, line : Nat,
   isActive : BOOLEAN, conds : Seq(Cond), skipped : Nat]

ASSUME IncludesAssumption ==
  /\ FileAt \in [Directories \X Names -> Files \cup {NoFile}]
  /\ DirectoryOf \in [Files -> Directories]
  /\ IncludePaths \in Seq(Directories)
  /\ Disks \subseteq [Files -> Seq(Token)]
  /\ \A d \in Disks : \A f \in Files : \A k \in DOMAIN d[f] : d[f][k].tag \notin {"eof", "error"}
  /\ Units \in Seq(Files)
  /\ NoFile \notin Files

VARIABLES
  disk,     \* the contents of the files
  unit,     \* the file of Units that is compiled, or was last
  once,     \* the files in the cache with has_pragma_once
  defined,  \* the names of the macros
  chain,    \* the open files, the innermost last
  mode,     \* what the next token is read for
  name,     \* the tokens of an include name in angle brackets so far
  pending,  \* what the directive does when its line is read
  output    \* the tokens returned by preprocessor_advance for this unit

vars == <<disk, unit, once, defined, chain, mode, name, pending, output>>

Nothing == [tag |-> "nothing"]
OpenFile(f)       == [tag |-> "open", file |-> f]
SetLine(n, depth) == [tag |-> "line", number |-> n, depth |-> depth]
Define(m)         == [tag |-> "define", macro |-> m]
Effect ==
  {Nothing} \cup [tag : {"open"}, file : Files] \cup [tag : {"line"}, number : Nat, depth : Nat]
    \cup [tag : {"define"}, macro : Token]

Modes ==
  {"closed", "text", "directive", "include", "name", "line", "lineName", "define", "undef",
   "ifdef", "ifndef", "elifdef", "elifndef", "rest"}

-----------------------------------------------------------------------------
(* Reading. *)

\* lexer_advance: the lexer stays at the end of the file.
Lexed(f, n) == IF n <= Len(disk[f]) THEN disk[f][n] ELSE EOF

\* advance_context: a token gets the line number that is displayed when it enters
\* the window; the number grows when a newline reaches the front.
Advance(c) ==
  LET isFirst == c.next = 1 \/ Lexed(c.file, c.next - 1).tag = "nl"
      token   == Stamped(Lexed(c.file, c.next), c.line, isFirst)
      front   == c.ahead[2]
  IN [c EXCEPT !.next = @ + 1, !.ahead = <<front, token>>,
               !.line = IF front.tag = "nl" THEN @ + 1 ELSE @]

\* alloc_source_file_context
Opened(f) ==
  LET invalid == Stamped(Tag("error"), 0, FALSE)
  IN Advance(Advance([file |-> f, next |-> 1, ahead |-> <<invalid, invalid>>, line |-> 1,
                      isActive |-> TRUE, conds |-> <<>>, skipped |-> 0]))

IsExhausted(c) == c.ahead[1].tag = "eof"

\* update_or_peek_context: the innermost file that is not exhausted.
Source(ch) ==
  IF \E k \in DOMAIN ch : ~IsExhausted(ch[k])
  THEN CHOOSE k \in DOMAIN ch : ~IsExhausted(ch[k]) /\ \A l \in k + 1 .. Len(ch) : IsExhausted(ch[l])
  ELSE 1

\* peek_token
Peek(ch) == ch[Source(ch)].ahead[1]

\* read_token pops the exhausted files above the source.
AfterRead(ch) ==
  LET k == Source(ch)
  IN SubSeq(ch, 1, k - 1) \o <<IF IsExhausted(ch[k]) THEN ch[k] ELSE Advance(ch[k])>>

Innermost(ch) == ch[Len(ch)]
Top == Innermost(chain)

WithInnermost(ch, c) == [ch EXCEPT ![Len(ch)] = c]

\* parse_ident takes the contents of the next token for a name, and reads it if
\* it is one.
Contents(t)   == [tag |-> t.tag, val |-> t.val]
AfterName(ch) == IF IsIdent(Peek(ch)) THEN AfterRead(ch) ELSE ch

\* Slip: a directive ends with a newline only.
EndsAtNewline(t) == t.tag = "nl"

\* The loop of eat_extra_tokens ends at the end of a line or of the last file.
EndsLine(t) == t.tag \in {"nl", "eof"}

-----------------------------------------------------------------------------
(* preprocessor_open and preprocessor_advance *)

Init ==
  /\ disk \in Disks
  /\ unit = 0 /\ once = {} /\ defined = {} /\ chain = <<>>
  /\ mode = "closed" /\ name = <<>> /\ pending = Nothing
  /\ output = <<>>

\* Slip: the marks of the unit before are kept.
StartMarked ==
  /\ mode = "closed" /\ unit < Len(Units)
  /\ unit' = unit + 1
  /\ chain' = <<Opened(Units[unit + 1])>>
  /\ mode' = "text" /\ output' = <<>> /\ defined' = {}
  /\ UNCHANGED <<disk, once, name, pending>>

\* preprocessor_open, with file_cache_reset
Start ==
  /\ mode = "closed" /\ unit < Len(Units)
  /\ unit' = unit + 1
  /\ once' = {} /\ defined' = {}
  /\ chain' = <<Opened(Units[unit + 1])>>
  /\ mode' = "text" /\ output' = <<>>
  /\ UNCHANGED <<disk, name, pending>>

\* A token is dropped if the file that it was read from is skipping text.
Text ==
  /\ mode = "text"
  /\ chain' = AfterRead(chain)
  /\ LET t == Peek(chain) IN
       /\ ~(t.tag = "hash" /\ t.isFirst) /\ t.tag # "eof"
       /\ output' = IF t.tag = "nl" \/ ~Innermost(chain').isActive THEN output ELSE Append(output, t)
  /\ UNCHANGED <<disk, unit, once, defined, mode, name, pending>>

Hash ==
  /\ mode = "text"
  /\ Peek(chain).tag = "hash" /\ Peek(chain).isFirst
  /\ chain' = AfterRead(chain)
  /\ mode' = "directive"
  /\ UNCHANGED <<disk, unit, once, defined, name, pending, output>>

\* The end of the unit's own file, and preprocessor_close.
Close ==
  /\ mode = "text" /\ Peek(chain).tag = "eof"
  /\ chain' = <<>> /\ mode' = "closed"
  /\ UNCHANGED <<disk, unit, once, defined, name, pending, output>>

-----------------------------------------------------------------------------
(* parse_directive *)

\* The name of a directive is read, and the file it is in is active or not.
Named(names, active) ==
  /\ mode = "directive" /\ Peek(chain).tag \in names
  /\ Innermost(AfterRead(chain)).isActive = active

\* In skipped text only the conditional directives count.
Ignored ==
  /\ Named(Tags \ Control, FALSE)
  /\ chain' = AfterRead(chain)
  /\ mode' = "rest"
  /\ UNCHANGED <<disk, unit, once, defined, name, pending, output>>

\* A name that is no directive leaves the rest of its line in the text.
Invalid ==
  /\ Named(Tags \ Directives, TRUE)
  /\ chain' = AfterRead(chain)
  /\ mode' = "text"
  /\ UNCHANGED <<disk, unit, once, defined, name, pending, output>>

\* Slip: a directive is obeyed in skipped text.
DirectiveAnywhere(tag, nextMode) ==
  /\ mode = "directive" /\ Peek(chain).tag = tag
  /\ chain' = AfterRead(chain)
  /\ mode' = nextMode
  /\ UNCHANGED <<disk, unit, once, defined, name, pending, output>>

Directive(tag, nextMode) ==
  /\ Named({tag}, TRUE)
  /\ chain' = AfterRead(chain)
  /\ mode' = nextMode
  /\ UNCHANGED <<disk, unit, once, defined, name, pending, output>>

Include == Directive("include", "include")
Line    == Directive("line", "line")
Message == Directive("message", "rest")   \* #warning and #error
DefineName == Directive("define", "define")
UndefName  == Directive("undef", "undef")

\* parse_pragma: the mark goes to the open file, wherever the peek looked.
Pragma ==
  /\ Named({"pragma"}, TRUE)
  /\ LET ch == AfterRead(chain) IN
       IF Peek(ch).tag = "once"
       THEN /\ once' = once \cup {ch[Len(ch)].file}
            /\ chain' = AfterRead(ch)
       ELSE UNCHANGED once /\ chain' = ch
  /\ mode' = "rest"
  /\ UNCHANGED <<disk, unit, defined, name, pending, output>>

\* parse_define inserts the macro when its line has been read.
MacroName ==
  /\ mode = "define"
  /\ pending' = Define(Contents(Peek(chain)))
  /\ chain' = AfterName(chain)
  /\ mode' = "rest"
  /\ UNCHANGED <<disk, unit, once, defined, name, output>>

\* parse_undef
Undefine ==
  /\ mode = "undef"
  /\ defined' = defined \ {Contents(Peek(chain))}
  /\ chain' = AfterName(chain)
  /\ mode' = "rest"
  /\ UNCHANGED <<disk, unit, once, name, pending, output>>

-----------------------------------------------------------------------------
(* The conditional directives, in the file that their name was read in. *)

\* The assignments of enter_if and enter_elif.
BeginGroup(c, value) ==
  [c EXCEPT !.conds = Append(@, [wasActive |-> value, wasLastElse |-> FALSE]), !.isActive = @ /\ value]

LastCond(c) == c.conds[Len(c.conds)]

BeginBranch(c, selected, isElse) ==
  [c EXCEPT !.conds[Len(c.conds)] =
              [wasActive |-> @.wasActive \/ selected, wasLastElse |-> isElse],
            !.isActive = selected]

EndGroup(c) ==
  [c EXCEPT !.conds = IF @ = <<>> THEN @ ELSE SubSeq(@, 1, Len(@) - 1), !.isActive = TRUE]

\* #ifdef and #ifndef: a group in skipped text is counted.
If ==
  /\ Named({"ifdef", "ifndef"}, TRUE)
  /\ chain' = AfterRead(chain)
  /\ mode' = Peek(chain).tag
  /\ UNCHANGED <<disk, unit, once, defined, name, pending, output>>

SkippedIf ==
  /\ Named({"ifdef", "ifndef"}, FALSE)
  /\ LET ch == AfterRead(chain)
     IN chain' = WithInnermost(ch, [Innermost(ch) EXCEPT !.skipped = @ + 1])
  /\ mode' = "rest"
  /\ UNCHANGED <<disk, unit, once, defined, name, pending, output>>

IfName ==
  /\ mode \in {"ifdef", "ifndef"}
  /\ LET ch    == AfterName(chain)
         value == (Contents(Peek(chain)) \in defined) = (mode = "ifdef")
     IN chain' = WithInnermost(ch, BeginGroup(Innermost(ch), value))
  /\ mode' = "rest"
  /\ UNCHANGED <<disk, unit, once, defined, name, pending, output>>

\* A branch without a group leaves the rest of its line in the text, one of a
\* counted group changes nothing.
Branch ==
  /\ mode = "directive" /\ Peek(chain).tag \in {"elifdef", "elifndef", "else"}
  /\ LET ch == AfterRead(chain)
         c  == Innermost(ch)
     IN IF c.conds = <<>> \/ c.skipped > 0 \/ Peek(chain).tag # "else"
        THEN /\ chain' = ch
             /\ mode' = IF c.conds = <<>> THEN "text" ELSE IF c.skipped > 0 THEN "rest" ELSE Peek(chain).tag
        ELSE /\ chain' = WithInnermost(ch, BeginBranch(c, ~LastCond(c).wasActive, TRUE))
             /\ mode' = "rest"
  /\ UNCHANGED <<disk, unit, once, defined, name, pending, output>>

\* When the name is that of the next file's text, the group is gone with its file,
\* and what the freed record says decides for the next file.
ElifName ==
  /\ mode \in {"elifdef", "elifndef"}
  /\ LET ch    == AfterName(chain)
         c     == Innermost(ch)
         value == (Contents(Peek(chain)) \in defined) = (mode = "elifdef")
     IN IF Len(ch) = Len(chain)
        THEN chain' = WithInnermost(ch, BeginBranch(c, value /\ ~LastCond(c).wasActive, FALSE))
        ELSE \E selected \in {FALSE, value} :
               chain' = WithInnermost(ch, [c EXCEPT !.isActive = selected])
  /\ mode' = "rest"
  /\ UNCHANGED <<disk, unit, once, defined, name, pending, output>>

\* #endif sets is_active to true whether it ends a group or not.
Endif ==
  /\ mode = "directive" /\ Peek(chain).tag = "endif"
  /\ LET ch == AfterRead(chain)
         c  == Innermost(ch)
     IN chain' = WithInnermost(ch, IF c.skipped > 0 THEN [c EXCEPT !.skipped = @ - 1] ELSE EndGroup(c))
  /\ mode' = "rest"
  /\ UNCHANGED <<disk, unit, once, defined, name, pending, output>>

-----------------------------------------------------------------------------
(* parse_include *)

\* The directories that are searched, in order: for a quoted name those of the
\* chain of open files first, innermost first.
SearchPath(ch, isRelative) ==
  IF isRelative
  THEN [k \in DOMAIN ch |-> DirectoryOf[ch[Len(ch) + 1 - k].file]] \o IncludePaths
  ELSE IncludePaths

\* find_include_file
Find(path, n) ==
  LET found == {k \in DOMAIN path : FileAt[<<path[k], n>>] # NoFile}
  IN IF found = {} THEN NoFile
     ELSE FileAt[<<path[CHOOSE k \in found : \A l \in found : k <= l], n>>]

Target(f) == IF f = NoFile THEN Nothing ELSE OpenFile(f)

\* parse_include_file_name.  A name that is missing ends the directive, and the
\* newline that was read in its place does not end its line.
QuotedName ==
  /\ mode = "include"
  /\ LET t == Peek(chain) IN
       /\ t.tag # "lt"
       /\ pending' = IF t.tag = "quoted"
                     THEN Target(Find(SearchPath(AfterRead(chain), TRUE), t.val)) ELSE Nothing
  /\ chain' = AfterRead(chain)
  /\ mode' = "rest"
  /\ UNCHANGED <<disk, unit, once, defined, name, output>>

OpenBracket ==
  /\ mode = "include" /\ Peek(chain).tag = "lt"
  /\ chain' = AfterRead(chain)
  /\ mode' = "name" /\ name' = <<>>
  /\ UNCHANGED <<disk, unit, once, defined, pending, output>>

NamePart ==
  /\ mode = "name" /\ Peek(chain).tag # "gt" /\ ~EndsLine(Peek(chain))
  /\ name' = Append(name, Peek(chain))
  /\ chain' = AfterRead(chain)
  /\ UNCHANGED <<disk, unit, once, defined, mode, pending, output>>

\* Only a name of one word is that of a file.
CloseBracket ==
  /\ mode = "name"
  /\ Peek(chain).tag = "gt" \/ EndsLine(Peek(chain))
  /\ pending' = IF Peek(chain).tag = "gt" /\ Len(name) = 1 /\ name[1].tag = "word"
                THEN Target(Find(SearchPath(AfterRead(chain), FALSE), name[1].val)) ELSE Nothing
  /\ chain' = AfterRead(chain)
  /\ mode' = "rest" /\ name' = <<>>
  /\ UNCHANGED <<disk, unit, once, defined, output>>

-----------------------------------------------------------------------------
(* parse_line *)

LineNumber ==
  /\ mode = "line"
  /\ LET t == Peek(chain) IN
       /\ pending' = IF t.tag = "int" THEN SetLine(t.val, Len(chain)) ELSE Nothing
       /\ mode' = IF t.tag = "int" THEN "lineName" ELSE IF t.tag = "nl" THEN "text" ELSE "rest"
  /\ chain' = AfterRead(chain)
  /\ UNCHANGED <<disk, unit, once, defined, name, output>>

\* The tokens in the window get the new numbers, and so does the file that #line
\* began in; if that has been popped since, the write to it is one to freed memory
\* and changes no open file.
Renumbered(ch, n, depth) ==
  LET top    == Innermost(ch)
      At(t, k) == Stamped(t, k, t.isFirst)
      second == IF top.ahead[1].tag = "nl" THEN n + 2 ELSE n + 1
  IN WithInnermost(ch, [top EXCEPT !.ahead = <<At(top.ahead[1], n + 1), At(top.ahead[2], second)>>,
                                   !.line = IF Len(ch) = depth THEN n + 1 ELSE @])

\* After the line number come the end of the line, a file name, or a mistake.
LineName ==
  /\ mode = "lineName" /\ Peek(chain).tag # "nl"
  /\ pending' = IF Peek(chain).tag = "quoted" THEN pending ELSE Nothing
  /\ chain' = AfterRead(chain)
  /\ mode' = "rest"
  /\ UNCHANGED <<disk, unit, once, defined, name, output>>

-----------------------------------------------------------------------------
(* The end of a directive: eat_extra_tokens and what comes after it. *)

\* verify_macro: a macro without parameters has no # in its body.
Skip ==
  /\ mode = "rest" /\ ~EndsLine(Peek(chain))
  /\ chain' = AfterRead(chain)
  /\ pending' = IF pending.tag = "define" /\ Peek(chain).tag = "hash" THEN Nothing ELSE pending
  /\ UNCHANGED <<disk, unit, once, defined, mode, name, output>>

\* Slip: a file that is marked is opened again.
Reopened(ch) ==
  CASE pending.tag = "line" -> Renumbered(ch, pending.number, pending.depth)
    [] pending.tag = "open" -> Append(ch, Opened(pending.file))
    [] OTHER -> ch

\* A file is opened unless it is marked when the line of its #include is read.
Finished(ch) ==
  CASE pending.tag = "line" -> Renumbered(ch, pending.number, pending.depth)
    [] pending.tag = "open" /\ pending.file \notin once -> Append(ch, Opened(pending.file))
    [] OTHER -> ch

Finish ==
  /\ \/ mode = "rest" /\ EndsLine(Peek(chain))
     \/ mode = "lineName" /\ Peek(chain).tag = "nl"
  /\ chain' = Finished(AfterRead(chain))
  /\ defined' = IF pending.tag = "define" THEN defined \cup {pending.macro} ELSE defined
  /\ mode' = "text" /\ pending' = Nothing
  /\ UNCHANGED <<disk, unit, once, name, output>>

-----------------------------------------------------------------------------
Next ==
  \/ Start \/ Text \/ Hash \/ Close
  \/ Ignored \/ Invalid \/ Include \/ Line \/ Message \/ Pragma
  \/ DefineName \/ MacroName \/ UndefName \/ Undefine
  \/ If \/ SkippedIf \/ IfName \/ Branch \/ ElifName \/ Endif
  \/ QuotedName \/ OpenBracket \/ NamePart \/ CloseBracket
  \/ LineNumber \/ LineName \/ Skip \/ Finish

Spec == Init /\ [][Next]_vars

\* The compiler reads tokens until the last unit ends.
FairSpec == Spec /\ WF_vars(Next)

-----------------------------------------------------------------------------
(* Properties. *)

TypeOK ==
  /\ disk \in [Files -> Seq(Token)]
  /\ unit \in 0 .. Len(Units)
  /\ once \subseteq Files /\ defined \subseteq Token
  /\ chain \in Seq(Context) /\ (chain = <<>> <=> mode = "closed")
  /\ mode \in Modes /\ pending \in Effect
  /\ name \in Seq(StampedToken) /\ output \in Seq(StampedToken)

\* Whether a file begins with #pragma once.
Guard == <<Tag("hash"), Tag("pragma"), Tag("once"), NL>>
IsGuarded(f) == Len(disk[f]) >= Len(Guard) /\ \A k \in DOMAIN Guard : disk[f][k] = Guard[k]

\* A file that begins with #pragma once is never open twice, however the files
\* include each other and whatever names they use for it (parse_pragma marks the
\* file in the cache before its next line is read, parse_include looks at the mark
\* after it has read its own line).
GuardedOpenOnce ==
  \A j, k \in DOMAIN chain :
    chain[j].file = chain[k].file /\ IsGuarded(chain[j].file) => j = k

\* No file is opened from skipped text, and while it is open nothing turns off the text
\* around its #include (parse_directive, enter_if, enter_elif and parse_endif write to
\* the file on top of the stack, whichever that is when they do).  It says nothing of the
\* innermost file: a file that ends in an #ifdef without a name is popped before
\* enter_if turns off the text that follows in its includer (line 871).
IncludersAreActive == \A k \in 1 .. Len(chain) - 1 : chain[k].isActive

\* The line that the n-th token of a file is on.
LineOf(f, n) == 1 + Cardinality({k \in 1 .. n - 1 : disk[f][k].tag = "nl"})

\* In a file without #line, messages about a token show the line that it is on
\* (advance_context gives each token in the window its displayed_line).
ShownOnTheirLine ==
  \A k \in DOMAIN chain : \A j \in 1 .. 2 :
    LET c == chain[k]
        n == c.next + j - 3
    IN n \in DOMAIN disk[c.file] /\ (\A m \in DOMAIN disk[c.file] : disk[c.file][m].tag # "line")
         => c.ahead[j].line = LineOf(c.file, n)

\* Every unit is read to its end, if files that include themselves are guarded.
EveryUnitEnds == <>(mode = "closed" /\ unit = Len(Units))
=============================================================================
