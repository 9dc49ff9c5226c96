----------------------------- MODULE MCIncludes -----------------------------
(***************************************************************************)
(* A main file, a header next to it, and one in a directory of -I that is  *)
(* also there under a second name of the first.                            *)
(***************************************************************************)
EXTENDS Includes, SequencesExt

CONSTANTS main, header, other, src, inc, h, i, alias, missing, w, m, none

MCFiles == {main, header, other}
MCFileAt ==
  [p \in {src, inc} \X {h, i, alias, missing, w, m} |->
     CASE p = <<src, h>>     -> header
       [] p = <<inc, i>>     -> other
       [] p = <<inc, alias>> -> header
       [] OTHER              -> none]
MCDirectoryOf == [f \in MCFiles |-> IF f = other THEN inc ELSE src]
MCIncludePaths == <<inc>>
MCUnits == <<main, header>>

-----------------------------------------------------------------------------
(* Lines. *)

Hashed(tokens) == <<Tag("hash")>> \o tokens \o <<NL>>
IncludeQuoted(n)  == Hashed(<<Tag("include"), Quoted(n)>>)
IncludeBracket(n) == Hashed(<<Tag("include"), Tag("lt"), Word(n), Tag("gt")>>)
PragmaOnce == Guard
SomeText   == <<Word(w), NL>>

LinesOf(pieces, n) == {FlattenSeq(s) : s \in UNION {[1 .. k -> pieces] : k \in 0 .. n}}

\* Both headers may be guarded, and may include each other.
Mutual ==
  {[f \in MCFiles |-> IF f = main THEN lines \o SomeText ELSE IF f = header THEN g \o a ELSE k \o b] :
     lines \in LinesOf({IncludeQuoted(h), IncludeBracket(i), IncludeBracket(alias)}, 2),
     g, k \in {<<>>, PragmaOnce},
     a \in LinesOf({SomeText, IncludeQuoted(h), IncludeBracket(i)}, 2),
     b \in {<<>>, SomeText, IncludeQuoted(h) \o SomeText}}

Gives(d, f, n) == \E k \in DOMAIN d[f] : d[f][k].tag \in {"word", "quoted"} /\ d[f][k].val = n
Unguarded(d, f) == ~(Len(d[f]) >= 3 /\ d[f][3] = Tag("once"))

\* Nothing bounds the depth of #include: every cycle needs a guarded file.
IncludesEnd(d) ==
  /\ Unguarded(d, header) => ~Gives(d, header, h)
  /\ Unguarded(d, header) /\ Unguarded(d, other) => ~(Gives(d, header, i) /\ Gives(d, other, h))

\* Directives of every form, well-formed or not, in a main file that may end without
\* a newline.
Forms ==
  {Hashed(<<Tag("line"), Number(5)>>), Hashed(<<Tag("line"), Number(5), Quoted(w)>>),
   Hashed(<<Tag("line"), Number(5), Word(w), Word(w)>>), Hashed(<<Tag("line"), Word(w)>>),
   Hashed(<<Tag("line")>>), Hashed(<<Tag("pragma"), Word(w)>>), Hashed(<<Word(w), Word(w)>>),
   Hashed(<<Tag("include"), Quoted(missing)>>), Hashed(<<Tag("include"), Word(w)>>),
   Hashed(<<Tag("include"), Tag("lt"), Word(i), Word(i), Tag("gt")>>),
   IncludeQuoted(h), SomeText, <<NL>>}

EveryForm ==
  {[f \in MCFiles |-> IF f = main THEN lines ELSE IF f = header THEN PragmaOnce \o SomeText ELSE <<>>] :
     lines \in {l \o rest : l \in LinesOf(Forms, 2), rest \in {<<>>, <<Word(w)>>, <<Tag("hash"), Tag("line")>>}}}

\* Groups within groups, around and inside an included file: one that guards itself
\* with a macro, or has branches without a group and a group without an end.
On(directive) == Hashed(<<Tag(directive), Word(m)>>)
Else  == Hashed(<<Tag("else")>>)
EndOfGroup == Hashed(<<Tag("endif")>>)
HeaderText == <<Word(i), NL>>

SelfGuarded == On("ifndef") \o On("define") \o HeaderText \o EndOfGroup
Unbalanced  == Hashed(<<Tag("else"), Word(w)>>) \o EndOfGroup \o HeaderText \o On("ifdef") \o HeaderText

Nested ==
  {[f \in MCFiles |->
      IF f = main THEN d \o On("ifdef") \o p \o q \o b \o r \o EndOfGroup \o SomeText
      ELSE IF f = header THEN g ELSE <<>>] :
     d \in {<<>>, On("define")}, b \in {Else, On("elifndef")},
     p, q, r \in {SomeText, On("ifdef"), Else, EndOfGroup, On("define"), IncludeQuoted(h)},
     g \in {SelfGuarded, Unbalanced}}

\* Every form of directive in a group that is selected and in one that is not.
MoreForms ==
  {On(k) : k \in {"undef", "elifdef", "message", "define"}}
    \cup {Hashed(<<Tag(k)>>) : k \in {"define", "undef", "ifdef", "ifndef", "elifdef"}}
    \cup {Hashed(<<Tag("define"), Word(m), Tag("hash"), Word(w)>>)}

InGroups ==
  {[f \in MCFiles |->
      IF f = main THEN d \o On(k) \o lines \o Else \o SomeText \o EndOfGroup \o On("ifdef") \o SomeText
      ELSE IF f = header THEN SelfGuarded ELSE <<>>] :
     d \in {<<>>, On("define")}, k \in {"ifdef", "ifndef"}, lines \in Forms \cup MoreForms}

\* A header that ends within a directive, which goes on in the file around it.
Cut ==
  {[f \in MCFiles |->
      IF f = main THEN IncludeQuoted(h) \o <<Word(m)>> \o SomeText
      ELSE IF f = header THEN On(k) \o <<Tag("hash"), Tag(t)>> ELSE <<>>] :
     k \in {"ifdef", "ifndef", "define"}, t \in Directives}

MCDisks == {d \in Mutual : IncludesEnd(d)} \cup EveryForm \cup Nested \cup InGroups \cup Cut

-----------------------------------------------------------------------------
(* The text of a unit, read line by line. *)

LineEnd(f, n) == CHOOSE k \in n .. Len(disk[f]) + 1 :
                   /\ k = Len(disk[f]) + 1 \/ disk[f][k] = NL
                   /\ \A l \in n .. k - 1 : disk[f][l] # NL

\* The file that a line includes from the directories of the files around it.
Included(line, dirs) ==
  IF Len(line) >= 3 /\ line[3].tag = "quoted" THEN Find(dirs \o IncludePaths, line[3].val)
  ELSE IF Len(line) = 5 /\ line[3].tag = "lt" /\ line[5].tag = "gt"
  THEN Find(IncludePaths, line[4].val) ELSE none

\* The groups around a line: in which the branch that is being read is selected, and
\* in which no branch has been selected before.
Emits(groups) == \A k \in DOMAIN groups : groups[k].on

Group(on) == [on |-> on, open |-> ~on]

NextBranch(groups, value) ==
  LET last == groups[Len(groups)]
  IN [groups EXCEPT ![Len(groups)] = [on |-> value /\ last.open, open |-> last.open /\ ~value]]

\* The groups after a line that begins with the directive t, which may name a macro.
Regrouped(groups, t, isDefined) ==
  CASE t \in {"ifdef", "ifndef"} -> Append(groups, Group(isDefined = (t = "ifdef")))
    [] t \in {"elifdef", "elifndef"} /\ groups # <<>> -> NextBranch(groups, isDefined = (t = "elifdef"))
    [] t = "else" /\ groups # <<>>  -> NextBranch(groups, TRUE)
    [] t = "endif" /\ groups # <<>> -> Front(groups)
    [] OTHER -> groups

\* The words of a file from its n-th token on, and the files that are marked and the
\* names that are defined then.
RECURSIVE TextFrom(_, _, _, _, _, _)
TextFrom(f, n, groups, marked, names, dirs) ==
  IF n > Len(disk[f]) THEN [words |-> <<>>, marked |-> marked, names |-> names]
  ELSE LET stop == LineEnd(f, n)
           line == SubSeq(disk[f], n, stop - 1)
           directive == IF Len(line) >= 2 /\ line[1].tag = "hash" THEN line[2].tag ELSE "none"
           is(t) == directive = t /\ Emits(groups)
           named == IF Len(line) >= 3 THEN line[3] ELSE NL
           around == Regrouped(groups, directive, named \in names)
           file == IF is("include") THEN Included(line, dirs) ELSE none
           left == IF line # <<>> /\ line[1].tag = "hash" THEN SubSeq(line, 3, Len(line)) ELSE line
           nested ==
             IF file # none /\ file \notin marked
             THEN TextFrom(file, 1, <<>>, marked, names, <<DirectoryOf[file]>> \o dirs)
             ELSE [words |-> IF ~Emits(groups) \/ ~Emits(around) THEN <<>>
                             ELSE IF directive \notin Directives THEN left
                             ELSE IF directive \in {"else", "elifdef", "elifndef"} /\ groups = <<>> THEN left
                             ELSE <<>>,
                   marked |-> IF is("pragma") /\ line[3].tag = "once" THEN marked \cup {f} ELSE marked,
                   names  |-> IF is("define") /\ \A k \in 4 .. Len(line) : line[k].tag # "hash"
                              THEN names \cup {named}
                              ELSE IF is("undef") THEN names \ {named} ELSE names]
           rest == TextFrom(f, stop + 1, around, nested.marked, nested.names, dirs)
       IN [words |-> nested.words \o rest.words, marked |-> rest.marked, names |-> rest.names]

\* The headers end with a newline, as the C standard asks.
EndInNewline == \A f \in {header, other} : disk[f] = <<>> \/ disk[f][Len(disk[f])] = NL

\* What preprocessor_advance returns for a unit is its text with each included file
\* in the place of its #include, once if it is marked, and without the branches that
\* are not selected, whatever was compiled before: the groups of a file are its own,
\* macros and marks are those of all files before (parse_include, enter_if,
\* enter_elif, parse_endif, file_cache_reset).
ReadsTheText ==
  mode = "closed" /\ unit > 0 /\ EndInNewline =>
    LET f == Units[unit]
    IN [k \in DOMAIN output |-> Contents(output[k])]
         = TextFrom(f, 1, <<>>, {}, {}, <<DirectoryOf[f]>>).words
=============================================================================
