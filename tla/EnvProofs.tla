----------------------------- MODULE EnvProofs -----------------------------
(***************************************************************************)
(* The lists of symbols never share a symbol, whatever is declared where;  *)
(* they end; and with the scopes they implement a stack of declarations.   *)
(***************************************************************************)
EXTENDS Env, SeqLemmas, FiniteSetTheorems

(* Pointers of a state: H the table entries in use, N the links of the        *)
(* symbols in A, p the head of the free list and q the cursor.                *)
Owned(E, H(_), A, N(_), p, q) ==
  /\ \A e \in E : H(e) \in A \cup {NULL}
  /\ \A c \in A : N(c) \in A \cup {NULL}
  /\ p \in A \cup {NULL}
  /\ q \in A \cup {NULL}
  /\ \A e, f \in E : H(e) = H(f) => e = f \/ H(e) = NULL
  /\ \A c, d \in A : N(c) = N(d) => c = d \/ N(c) = NULL
  /\ \A e \in E, c \in A : H(e) = N(c) => H(e) = NULL
  /\ p # NULL => (\A e \in E : H(e) # p) /\ (\A c \in A : N(c) # p)
  /\ q # NULL => (\A e \in E : H(e) # q) /\ (\A c \in A : N(c) # q)
  /\ p = q => p = NULL

Link(c) == symbols[c].next

OwnedNow == Owned(Entries, HeadOf, allocated, Link, freeSymbols, clearing.symbol)

LEMMA OwnedIsInvariant == OwnedNow <=> NoDanglingSymbols /\ NoSharedSymbols
<1>1. OwnedNow => NoDanglingSymbols
  BY DEF OwnedNow, Owned, Link, NoDanglingSymbols
<1>2. OwnedNow => NoSharedSymbols
  BY DEF OwnedNow, Owned, Link, NoSharedSymbols
<1>3. NoDanglingSymbols /\ NoSharedSymbols => OwnedNow
  BY DEF OwnedNow, Owned, Link, NoDanglingSymbols, NoSharedSymbols
<1> QED
  BY <1>1, <1>2, <1>3

\* Replacing the table of one scope.
WithTable(i, tab) == [scopes EXCEPT ![i].table = tab]

LEMMA TableUpdate ==
  ASSUME TypeOK, NEW i \in 1 .. Len(scopes), NEW tab \in [Names -> Pointer]
  PROVE  /\ WithTable(i, tab) \in Seq(Scope)
         /\ Len(WithTable(i, tab)) = Len(scopes)
         /\ \A j \in 1 .. Len(scopes) :
              /\ WithTable(i, tab)[j].table = IF j = i THEN tab ELSE scopes[j].table
              /\ WithTable(i, tab)[j].kind = scopes[j].kind
<1> DEFINE s  == [scopes[i] EXCEPT !.table = tab]
           sc == WithTable(i, tab)
<1>1. scopes \in Seq(Scope)
  BY DEF TypeOK
<1>2. scopes[i] \in Scope
  BY <1>1, ElementOfSeq
<1>3. s \in Scope /\ s.table = tab /\ s.kind = scopes[i].kind
  BY <1>2 DEF Scope
<1>4. sc = [scopes EXCEPT ![i] = s]
  BY DEF WithTable
<1> HIDE DEF s, sc
<1>5. /\ sc \in Seq(Scope)
      /\ Len(sc) = Len(scopes)
      /\ \A j \in 1 .. Len(scopes) : sc[j] = IF j = i THEN s ELSE scopes[j]
  BY <1>1, <1>3, <1>4, ExceptSeq
<1> QED
  BY <1>3, <1>5 DEF sc

LEMMA TablesArePointers ==
  ASSUME TypeOK, NEW i \in 1 .. Len(scopes)
  PROVE  scopes[i].table \in [Names -> Pointer]
<1>1. scopes[i] \in Scope
  BY ElementOfSeq DEF TypeOK
<1> QED
  BY <1>1 DEF Scope

LEMMA EmptyTableType ==
  /\ EmptyTable \in [Names -> Pointer]
  /\ \A n \in Names : EmptyTable[n] = NULL
  BY DEF EmptyTable, Pointer

-----------------------------------------------------------------------------
LEMMA InitOK == Init => IInv
<1> SUFFICES ASSUME Init PROVE IInv
  OBVIOUS
<1> DEFINE s == [kind |-> "file", table |-> EmptyTable]
<1>1. s \in Scope
  BY EmptyTableType DEF Scope
<1>2. scopes = <<s>> /\ scopes \in Seq(Scope) /\ Len(scopes) = 1 /\ scopes[1] = s
  BY <1>1 DEF Init
<1>3. depth = 1 /\ symbols \in [Cells -> Symbol] /\ allocated = {} /\ freeSymbols = NULL
  BY DEF Init, Symbol, Pointer
<1>4. mode = "open" /\ clearing = NotClearing
  BY DEF Init
<1>5. NotClearing \in Cursor
  BY DEF NotClearing, Cursor, Pointer
<1>6. TypeOK
  BY <1>2, <1>3, <1>4, <1>5 DEF TypeOK, Pointer
<1>7. \A i \in 1 .. Len(scopes) : i = 1
  BY <1>2
<1>8. \A e \in Entries : HeadOf(e) = NULL
  BY <1>2, <1>7, EmptyTableType DEF Entries, HeadOf, First
<1>9. clearing.symbol = NULL
  BY <1>4 DEF NotClearing
<1>10. NoDanglingSymbols /\ NoSharedSymbols
  BY <1>3, <1>8, <1>9 DEF NoDanglingSymbols, NoSharedSymbols
<1>11. ReusedScopesAreEmpty
  BY <1>2, <1>3, <1>4, <1>7 DEF ReusedScopesAreEmpty
<1>12. ClearingAScope
  BY <1>4 DEF ClearingAScope
<1> QED
  BY <1>6, <1>10, <1>11, <1>12 DEF IInv

\* While the environment is open, every table entry is in use.
LEMMA OpenState ==
  ASSUME IInv, mode = "open"
  PROVE  /\ Entries = (1 .. Len(scopes)) \X Names
         /\ clearing = NotClearing /\ clearing.symbol = NULL
         /\ OwnedNow
  BY OwnedIsInvariant DEF IInv, InClear, Entries, ClearingAScope, NotClearing

\* What alloc_symbol returns is no longer on the free list and in no other list.
LEMMA AllocOwned ==
  ASSUME IInv, mode = "open", NEW c \in Cells, Alloc(c)
  PROVE  /\ c # NULL
         /\ c \in allocated' /\ allocated' = allocated \cup {c}
         /\ \A e \in Entries : HeadOf(e) # c
         /\ \A d \in allocated : Link(d) # c
         /\ freeSymbols' \in allocated \cup {NULL} /\ freeSymbols' # c
         /\ freeSymbols' # NULL =>
              /\ \A e \in Entries : HeadOf(e) # freeSymbols'
              /\ \A d \in allocated \ {c} : Link(d) # freeSymbols'
         /\ freeSymbols' \in Pointer /\ allocated' \subseteq Cells
<1>1. /\ Entries = (1 .. Len(scopes)) \X Names
      /\ clearing.symbol = NULL
      /\ OwnedNow
  BY OpenState
<1>2. c # NULL
  BY EnvAssumption
<1>3. allocated \subseteq Cells /\ freeSymbols \in Pointer
  BY DEF IInv, TypeOK
<1>4. CASE freeSymbols # NULL
  <2>1. c = freeSymbols /\ freeSymbols' = Link(c) /\ allocated' = allocated
    BY <1>4 DEF Alloc, Link
  <2>2. c \in allocated
    BY <1>1, <1>2, <2>1 DEF OwnedNow, Owned
  <2>3. (\A e \in Entries : HeadOf(e) # c) /\ (\A d \in allocated : Link(d) # c)
    BY <1>1, <1>2, <2>1 DEF OwnedNow, Owned
  <2>4. Link(c) \in allocated \cup {NULL} /\ Link(c) # c
    BY <1>1, <2>2, <2>3 DEF OwnedNow, Owned
  <2>5. Link(c) # NULL => /\ \A e \in Entries : HeadOf(e) # Link(c)
                          /\ \A d \in allocated \ {c} : Link(d) # Link(c)
    BY <1>1, <2>2 DEF OwnedNow, Owned
  <2>6. Link(c) \in Pointer
    BY <1>3, <2>4 DEF Pointer
  <2> QED
    BY <1>2, <1>3, <2>1, <2>2, <2>3, <2>4, <2>5, <2>6
<1>5. CASE freeSymbols = NULL
  <2>1. c \notin allocated /\ allocated' = allocated \cup {c} /\ freeSymbols' = NULL
    BY <1>5 DEF Alloc
  <2>2. (\A e \in Entries : HeadOf(e) # c) /\ (\A d \in allocated : Link(d) # c)
    BY <1>1, <1>2, <2>1 DEF OwnedNow, Owned
  <2> QED
    BY <1>2, <1>3, <2>1, <2>2 DEF Pointer
<1> QED
  BY <1>4, <1>5

\* A new symbol at the head of a list that was empty.
LEMMA InsertFirstKeeps ==
  ASSUME IInv, NEW n \in Names, NEW d \in Decls, NEW overload \in BOOLEAN,
         InsertFirst(n, d, overload)
  PROVE  IInv'
<1>1. /\ mode = "open" /\ First(depth, n) = NULL
      /\ UNCHANGED <<depth, mode, clearing>>
  BY DEF InsertFirst
<1>2. PICK c \in Cells :
        /\ Alloc(c)
        /\ symbols' = [symbols EXCEPT ![c] =
                         [ast |-> d, next |-> AllocLink(c), overload |-> overload]]
        /\ scopes' = [scopes EXCEPT ![depth].table[n] = c]
  BY DEF InsertFirst
<1>3. TypeOK /\ depth \in 1 .. Len(scopes)
  BY DEF IInv, TypeOK
<1> DEFINE tab == [scopes[depth].table EXCEPT ![n] = c]
<1>4. tab \in [Names -> Pointer] /\ \A m \in Names :
        tab[m] = IF m = n THEN c ELSE scopes[depth].table[m]
  BY <1>3, TablesArePointers DEF Pointer
<1>5. scopes' = WithTable(depth, tab)
  BY <1>2 DEF WithTable
<1> HIDE DEF tab
<1>6. /\ scopes' \in Seq(Scope) /\ Len(scopes') = Len(scopes)
      /\ \A j \in 1 .. Len(scopes) :
           scopes'[j].table = IF j = depth THEN tab ELSE scopes[j].table
  BY <1>3, <1>4, <1>5, TableUpdate
<1>7. /\ Entries = (1 .. Len(scopes)) \X Names
      /\ clearing.symbol = NULL
      /\ OwnedNow
  BY <1>1, OpenState
<1>8. Entries' = Entries
  BY <1>1, <1>6, <1>7 DEF Entries, InClear
<1>9. \A e \in Entries : HeadOf(e)' = IF e = <<depth, n>> THEN c ELSE HeadOf(e)
  <2> SUFFICES ASSUME NEW i \in 1 .. Len(scopes), NEW m \in Names
               PROVE  scopes'[i].table[m] =
                        IF i = depth /\ m = n THEN c ELSE scopes[i].table[m]
    BY <1>7 DEF HeadOf, First
  <2> QED
    BY <1>4, <1>6
<1>10. /\ symbols' \in [Cells -> Symbol]
       /\ \A s \in Cells : Link(s)' = IF s = c THEN NULL ELSE Link(s)
  BY <1>2, <1>3 DEF TypeOK, Symbol, Pointer, Link, AllocLink
<1>11. /\ c # NULL
       /\ c \in allocated' /\ allocated' = allocated \cup {c}
       /\ \A e \in Entries : HeadOf(e) # c
       /\ \A s \in allocated : Link(s) # c
       /\ freeSymbols' \in allocated \cup {NULL} /\ freeSymbols' # c
       /\ freeSymbols' # NULL =>
            /\ \A e \in Entries : HeadOf(e) # freeSymbols'
            /\ \A s \in allocated \ {c} : Link(s) # freeSymbols'
       /\ freeSymbols' \in Pointer /\ allocated' \subseteq Cells
  BY <1>1, <1>2, AllocOwned
<1>12. TypeOK'
  BY <1>1, <1>3, <1>6, <1>10, <1>11 DEF TypeOK
<1>13. OwnedNow'
  <2>1. clearing.symbol' = NULL
    BY <1>1, <1>7
  <2>2. allocated \subseteq Cells
    BY <1>3 DEF TypeOK
  <2>3. \A s \in allocated' : Link(s)' = IF s = c THEN NULL ELSE Link(s)
    BY <1>10, <1>11, <2>2
  <2> HIDE DEF Link, HeadOf, Entries
  <2> QED
    BY <1>7, <1>8, <1>9, <1>11, <2>1, <2>3 DEF OwnedNow, Owned
<1>14. ReusedScopesAreEmpty'
  BY <1>1, <1>3, <1>6 DEF ReusedScopesAreEmpty, IInv
<1>15. ClearingAScope'
  BY <1>1 DEF ClearingAScope, IInv, InClear, NotClearing
<1>16. (NoDanglingSymbols /\ NoSharedSymbols)'
  BY <1>13, OwnedIsInvariant, PTL
<1> QED
  BY <1>12, <1>14, <1>15, <1>16 DEF IInv

\* The first symbol of a list keeps its place; the new one goes behind it.
LEMMA InsertOverloadKeeps ==
  ASSUME IInv, NEW n \in Names, NEW d \in Decls, NEW overload \in BOOLEAN,
         InsertOverload(n, d, overload)
  PROVE  IInv'
<1> DEFINE f == First(depth, n)
<1>1. /\ mode = "open" /\ f # NULL
      /\ UNCHANGED <<scopes, depth, mode, clearing>>
  BY DEF InsertOverload
<1>2. PICK c \in Cells :
        /\ Alloc(c)
        /\ symbols' = [symbols EXCEPT
                         ![c] = [ast |-> symbols[f].ast, next |-> symbols[f].next,
                                 overload |-> overload],
                         ![f].ast = d,
                         ![f].next = c]
  BY DEF InsertOverload
<1>3. TypeOK /\ depth \in 1 .. Len(scopes)
  BY DEF IInv, TypeOK
<1>4. /\ Entries = (1 .. Len(scopes)) \X Names
      /\ clearing.symbol = NULL
      /\ OwnedNow
  BY <1>1, OpenState
<1>5. <<depth, n>> \in Entries /\ HeadOf(<<depth, n>>) = f
  BY <1>3, <1>4 DEF HeadOf
<1>6. f \in allocated /\ f \in Cells
  BY <1>1, <1>3, <1>4, <1>5 DEF OwnedNow, Owned, TypeOK
<1>7. /\ c # NULL
      /\ c \in allocated' /\ allocated' = allocated \cup {c}
      /\ \A e \in Entries : HeadOf(e) # c
      /\ \A s \in allocated : Link(s) # c
      /\ freeSymbols' \in allocated \cup {NULL} /\ freeSymbols' # c
      /\ freeSymbols' # NULL =>
           /\ \A e \in Entries : HeadOf(e) # freeSymbols'
           /\ \A s \in allocated \ {c} : Link(s) # freeSymbols'
      /\ freeSymbols' \in Pointer /\ allocated' \subseteq Cells
  BY <1>1, <1>2, AllocOwned
<1>8. c # f
  BY <1>5, <1>7
<1> HIDE DEF f
<1>9. symbols \in [Cells -> Symbol]
  BY <1>3 DEF TypeOK
<1>10. /\ symbols' \in [Cells -> Symbol]
       /\ \A s \in Cells : Link(s)' = IF s = c THEN Link(f) ELSE IF s = f THEN c ELSE Link(s)
  <2>1. symbols[f] \in Symbol
    BY <1>6, <1>9
  <2>2. symbols'[c] = [ast |-> symbols[f].ast, next |-> symbols[f].next,
                       overload |-> overload]
    BY <1>2, <1>6, <1>8, <1>9
  <2>3. symbols'[f] = [symbols[f] EXCEPT !.ast = d, !.next = c]
    BY <1>2, <1>6, <1>8, <1>9, <2>1 DEF Symbol
  <2>4. \A s \in Cells \ {c, f} : symbols'[s] = symbols[s]
    BY <1>2, <1>9
  <2>5. symbols'[c] \in Symbol /\ symbols'[c].next = symbols[f].next
    BY <2>1, <2>2 DEF Symbol
  <2>6. symbols'[f] \in Symbol /\ symbols'[f].next = c
    BY <2>1, <2>3 DEF Symbol, Pointer
  <2>7. symbols' = [s \in Cells |-> symbols'[s]]
    BY <1>2, <1>9
  <2>8. \A s \in Cells : symbols'[s] \in Symbol
    BY <1>9, <2>4, <2>5, <2>6
  <2> QED
    BY <2>4, <2>5, <2>6, <2>7, <2>8 DEF Link
<1>11. TypeOK'
  BY <1>1, <1>3, <1>7, <1>10 DEF TypeOK
<1>12. OwnedNow'
  <2>1. clearing.symbol' = NULL /\ Entries' = Entries
    BY <1>1, <1>4 DEF Entries, InClear
  <2>2. \A e \in Entries : HeadOf(e)' = HeadOf(e)
    BY <1>1 DEF HeadOf, First
  <2>3. allocated \subseteq Cells
    BY <1>3 DEF TypeOK
  <2>4. \A s \in allocated' :
          Link(s)' = IF s = c THEN Link(f) ELSE IF s = f THEN c ELSE Link(s)
    BY <1>7, <1>10, <2>3
  <2> HIDE DEF Link, HeadOf, Entries
  <2>5. \A e \in Entries : HeadOf(e) \in allocated' \cup {NULL}
    BY <1>4, <1>7 DEF OwnedNow, Owned
  <2>6. \A s \in allocated' : Link(s)' \in allocated' \cup {NULL}
    BY <1>4, <1>6, <1>7, <2>4 DEF OwnedNow, Owned
  <2>7. \A s, t \in allocated' : Link(s)' = Link(t)' => s = t \/ Link(s)' = NULL
    BY <1>4, <1>6, <1>7, <1>8, <2>4 DEF OwnedNow, Owned
  <2>8. \A e \in Entries, s \in allocated' : HeadOf(e) = Link(s)' => HeadOf(e) = NULL
    BY <1>4, <1>6, <1>7, <1>8, <2>4 DEF OwnedNow, Owned
  <2>9. freeSymbols' # NULL => /\ \A e \in Entries : HeadOf(e) # freeSymbols'
                               /\ \A s \in allocated' : Link(s)' # freeSymbols'
    BY <1>4, <1>6, <1>7, <1>8, <2>4 DEF OwnedNow, Owned
  <2> QED
    BY <1>4, <1>7, <2>1, <2>2, <2>5, <2>6, <2>7, <2>8, <2>9 DEF OwnedNow, Owned
<1>13. ReusedScopesAreEmpty' /\ ClearingAScope'
  BY <1>1 DEF ReusedScopesAreEmpty, ClearingAScope, IInv, InClear, NotClearing
<1>14. (NoDanglingSymbols /\ NoSharedSymbols)'
  BY <1>12, OwnedIsInvariant, PTL
<1> QED
  BY <1>11, <1>13, <1>14 DEF IInv

\* The scope above the current one takes the new tag; there is one more if
\* there was none above.
LEMMA PushedScopes ==
  ASSUME IInv, NEW k \in Kinds, PushScope(k)
  PROVE  /\ scopes' \in Seq(Scope)
         /\ Len(scopes') = Len(scopes) + (IF depth = Len(scopes) THEN 1 ELSE 0)
         /\ \A j \in 1 .. Len(scopes') :
              scopes'[j].table = IF j \in 1 .. Len(scopes) THEN scopes[j].table ELSE EmptyTable
         /\ \A j \in 1 .. depth : scopes'[j] = scopes[j]
         /\ depth + 1 \in 1 .. Len(scopes')
         /\ scopes'[depth + 1] = [kind |-> k, table |-> EmptyTable]
<1> DEFINE new == [kind |-> k, table |-> EmptyTable]
<1>1. scopes' = IF depth = Len(scopes) THEN Append(scopes, new)
                ELSE [scopes EXCEPT ![depth + 1].kind = k]
  BY DEF PushScope
<1>2. TypeOK /\ depth \in 1 .. Len(scopes) /\ scopes \in Seq(Scope)
  BY DEF IInv, TypeOK
<1>3. Len(scopes) \in Nat
  BY <1>2, LenProperties
<1>4. CASE depth = Len(scopes)
  <2>1. new \in Scope /\ new.table = EmptyTable
    BY EmptyTableType DEF Scope
  <2> HIDE DEF new
  <2>2. /\ scopes' \in Seq(Scope) /\ Len(scopes') = Len(scopes) + 1
        /\ \A j \in 1 .. Len(scopes) : scopes'[j] = scopes[j]
        /\ scopes'[Len(scopes) + 1] = new
    BY <1>1, <1>2, <1>4, <2>1, AppendProperties
  <2> QED
    BY <1>3, <1>4, <2>1, <2>2 DEF new
<1>5. CASE depth # Len(scopes)
  <2> DEFINE i == depth + 1
             s == [scopes[i] EXCEPT !.kind = k]
  <2>1. i \in 1 .. Len(scopes) /\ i > depth
    BY <1>2, <1>3, <1>5
  <2>2. scopes[i] \in Scope /\ scopes[i].table = EmptyTable
    BY <1>2, <2>1, ElementOfSeq DEF IInv, ReusedScopesAreEmpty
  <2>3. s \in Scope /\ s.table = scopes[i].table /\ s = new
    BY <2>2 DEF Scope
  <2>4. scopes' = [scopes EXCEPT ![i] = s]
    BY <1>1, <1>5
  <2> HIDE DEF i, s
  <2>5. /\ scopes' \in Seq(Scope) /\ Len(scopes') = Len(scopes)
        /\ \A j \in 1 .. Len(scopes) : scopes'[j] = IF j = i THEN s ELSE scopes[j]
    BY <1>2, <2>1, <2>3, <2>4, ExceptSeq
  <2> HIDE DEF new
  <2>6. \A j \in 1 .. depth : j \in 1 .. Len(scopes) /\ j # i
    BY <1>2, <1>3 DEF i
  <2>7. scopes'[i] = new
    BY <2>1, <2>3, <2>5
  <2>8. \A j \in 1 .. Len(scopes') : scopes'[j].table = scopes[j].table
    BY <2>3, <2>5
  <2> QED
    BY <1>2, <1>3, <1>5, <2>1, <2>5, <2>6, <2>7, <2>8 DEF i, new
<1> QED
  BY <1>4, <1>5

\* A scope pushed again is empty already; a new one is created empty.
LEMMA PushScopeKeeps ==
  ASSUME IInv, NEW k \in Kinds, PushScope(k)
  PROVE  IInv'
<1>1. /\ mode = "open" /\ depth' = depth + 1
      /\ UNCHANGED <<symbols, allocated, freeSymbols, mode, clearing>>
  BY DEF PushScope
<1>2. TypeOK /\ depth \in 1 .. Len(scopes) /\ scopes \in Seq(Scope)
  BY DEF IInv, TypeOK
<1>3. Len(scopes) \in Nat
  BY <1>2, LenProperties
<1>4. /\ Entries = (1 .. Len(scopes)) \X Names
      /\ clearing.symbol = NULL
      /\ OwnedNow
  BY <1>1, OpenState
<1>5. /\ scopes' \in Seq(Scope)
      /\ Len(scopes') = Len(scopes) + (IF depth = Len(scopes) THEN 1 ELSE 0)
      /\ \A j \in 1 .. Len(scopes') :
           scopes'[j].table = IF j \in 1 .. Len(scopes) THEN scopes[j].table ELSE EmptyTable
  BY PushedScopes
<1>6. TypeOK'
  BY <1>1, <1>2, <1>3, <1>5 DEF TypeOK
<1>7. Entries' = (1 .. Len(scopes')) \X Names
  BY <1>1 DEF Entries, InClear
<1>8. \A e \in Entries' : HeadOf(e)' = IF e \in Entries THEN HeadOf(e) ELSE NULL
  <2> SUFFICES ASSUME NEW i \in 1 .. Len(scopes'), NEW m \in Names
               PROVE  scopes'[i].table[m] =
                        IF i \in 1 .. Len(scopes) THEN scopes[i].table[m] ELSE NULL
    BY <1>4, <1>7 DEF HeadOf, First
  <2> QED
    BY <1>5, EmptyTableType
<1>9. OwnedNow'
  <2>1. clearing.symbol' = NULL /\ \A c \in allocated : Link(c)' = Link(c)
    BY <1>1, <1>4 DEF Link
  <2>2. UNCHANGED <<allocated, freeSymbols>>
    BY <1>1
  <2> HIDE DEF Link, HeadOf, Entries
  <2> QED
    BY <1>4, <1>8, <2>1, <2>2 DEF OwnedNow, Owned
<1>10. ReusedScopesAreEmpty'
  <2> SUFFICES ASSUME NEW i \in 1 .. Len(scopes'), i > depth'
               PROVE  scopes'[i].table = EmptyTable
    BY <1>1 DEF ReusedScopesAreEmpty
  <2>1. i > depth
    BY <1>1, <1>2, <1>3
  <2>2. i \in 1 .. Len(scopes) => scopes[i].table = EmptyTable
    BY <2>1 DEF IInv, ReusedScopesAreEmpty
  <2> QED
    BY <1>5, <2>2
<1>11. ClearingAScope'
  BY <1>1 DEF ClearingAScope, IInv, InClear, NotClearing
<1>12. (NoDanglingSymbols /\ NoSharedSymbols)'
  BY <1>9, OwnedIsInvariant, PTL
<1> QED
  BY <1>6, <1>10, <1>11, <1>12 DEF IInv

\* The beginning of clear_scope: all its lists are still to be freed.
LEMMA BeginClearKeeps ==
  ASSUME IInv, mode = "open", NEW i \in 1 .. Len(scopes),
         clearing' = [scope |-> i, left |-> Names, symbol |-> NULL],
         \/ mode' = "pop" /\ i = depth /\ depth > 1
         \/ mode' = "destroy" /\ i = 1,
         UNCHANGED <<scopes, depth, symbols, allocated, freeSymbols>>
  PROVE  IInv'
<1>1. /\ Entries = (1 .. Len(scopes)) \X Names
      /\ clearing.symbol = NULL
      /\ OwnedNow
  BY OpenState
<1>2. /\ clearing'.scope = i /\ clearing'.left = Names /\ clearing'.symbol = NULL
      /\ clearing' \in Cursor
  BY LenProperties DEF Cursor, Pointer, IInv, TypeOK
<1>3. TypeOK'
  BY <1>2 DEF IInv, TypeOK
<1>4. Entries' = Entries
  BY <1>1, <1>2 DEF Entries
<1>5. OwnedNow'
  <2>1. /\ \A c \in allocated : Link(c)' = Link(c)
        /\ \A e \in Entries : HeadOf(e)' = HeadOf(e)
    BY DEF Link, HeadOf, First
  <2> HIDE DEF Link, HeadOf, Entries
  <2> QED
    BY <1>1, <1>2, <1>4, <2>1 DEF OwnedNow, Owned
<1>6. ReusedScopesAreEmpty'
  BY <1>2 DEF IInv, ReusedScopesAreEmpty
<1>7. ClearingAScope'
  BY <1>2 DEF ClearingAScope, InClear
<1>8. (NoDanglingSymbols /\ NoSharedSymbols)'
  BY <1>5, OwnedIsInvariant, PTL
<1> QED
  BY <1>3, <1>6, <1>7, <1>8 DEF IInv

LEMMA PopScopeKeeps == ASSUME IInv, PopScope PROVE IInv'
<1>1. depth \in 1 .. Len(scopes)
  BY DEF IInv, TypeOK
<1> QED
  BY <1>1, BeginClearKeeps DEF PopScope

LEMMA DestroyKeeps == ASSUME IInv, Destroy PROVE IInv'
<1>1. 1 \in 1 .. Len(scopes)
  BY LenProperties DEF IInv, TypeOK
<1> QED
  BY <1>1, BeginClearKeeps DEF Destroy

\* The cursor takes over a list from the table.
LEMMA ClearNameKeeps == ASSUME IInv, NEW n \in Names, ClearName(n) PROVE IInv'
<1> DEFINE i == clearing.scope
           x == <<i, n>>
<1>1. /\ InClear /\ clearing.symbol = NULL /\ n \in clearing.left
      /\ clearing' = [clearing EXCEPT !.left = @ \ {n}, !.symbol = First(i, n)]
      /\ UNCHANGED <<scopes, depth, symbols, allocated, freeSymbols, mode>>
  BY DEF ClearName
<1>2. TypeOK /\ clearing \in Cursor /\ depth \in 1 .. Len(scopes)
  BY DEF IInv, TypeOK
<1>3. i \in 1 .. Len(scopes)
  BY <1>1, <1>2 DEF IInv, ClearingAScope, InClear
<1>4. First(i, n) \in Pointer
  BY <1>2, <1>3, TablesArePointers DEF First
<1>5. /\ clearing' \in Cursor
      /\ clearing'.scope = i /\ clearing'.left = clearing.left \ {n}
      /\ clearing'.symbol = HeadOf(x)
  BY <1>1, <1>2, <1>4 DEF Cursor, HeadOf
<1>6. TypeOK'
  BY <1>1, <1>2, <1>5 DEF TypeOK
<1>7. x \in Entries
  BY <1>1, <1>3 DEF Entries
<1>8. Entries' = Entries \ {x}
  BY <1>1, <1>3, <1>5 DEF Entries, InClear
<1>9. OwnedNow
  BY OwnedIsInvariant DEF IInv
<1>10. OwnedNow'
  <2>1. /\ \A c \in allocated : Link(c)' = Link(c)
        /\ \A e \in Entries : HeadOf(e)' = HeadOf(e)
        /\ UNCHANGED <<allocated, freeSymbols>>
    BY <1>1 DEF Link, HeadOf, First
  <2> HIDE DEF Link, HeadOf, Entries, x
  <2> QED
    BY <1>5, <1>7, <1>8, <1>9, <2>1 DEF OwnedNow, Owned
<1>11. ReusedScopesAreEmpty' /\ ClearingAScope'
  BY <1>1, <1>5 DEF IInv, ReusedScopesAreEmpty, ClearingAScope, InClear
<1>12. (NoDanglingSymbols /\ NoSharedSymbols)'
  BY <1>10, OwnedIsInvariant, PTL
<1> QED
  BY <1>6, <1>11, <1>12 DEF IInv

\* The symbol at the cursor moves to the free list.
LEMMA ClearSymbolKeeps == ASSUME IInv, ClearSymbol PROVE IInv'
<1> DEFINE c == clearing.symbol
<1>1. /\ InClear /\ c # NULL
      /\ symbols' = [symbols EXCEPT ![c].next = freeSymbols]
      /\ freeSymbols' = c
      /\ clearing' = [clearing EXCEPT !.symbol = Link(c)]
      /\ UNCHANGED <<scopes, depth, allocated, mode>>
  BY DEF ClearSymbol, SavedNext, Link
<1>2. /\ TypeOK /\ clearing \in Cursor /\ symbols \in [Cells -> Symbol]
      /\ allocated \subseteq Cells /\ freeSymbols \in Pointer
  BY DEF IInv, TypeOK
<1>3. OwnedNow
  BY OwnedIsInvariant DEF IInv
<1>4. c \in allocated /\ c \in Cells
  BY <1>1, <1>2, <1>3 DEF OwnedNow, Owned
<1>5. symbols[c] \in Symbol /\ Link(c) \in Pointer
  BY <1>2, <1>4 DEF Symbol, Link
<1>6. /\ clearing' \in Cursor
      /\ clearing'.scope = clearing.scope /\ clearing'.left = clearing.left
      /\ clearing'.symbol = Link(c)
  BY <1>1, <1>2, <1>5 DEF Cursor
<1> HIDE DEF c
<1>7. /\ symbols' \in [Cells -> Symbol]
      /\ \A s \in Cells : Link(s)' = IF s = c THEN freeSymbols ELSE Link(s)
  <2>1. symbols'[c] = [symbols[c] EXCEPT !.next = freeSymbols]
    BY <1>1, <1>2, <1>4
  <2>2. symbols'[c] \in Symbol /\ symbols'[c].next = freeSymbols
    BY <1>2, <1>5, <2>1 DEF Symbol
  <2>3. \A s \in Cells \ {c} : symbols'[s] = symbols[s]
    BY <1>1, <1>2
  <2>4. symbols' = [s \in Cells |-> symbols'[s]]
    BY <1>1, <1>2
  <2>5. \A s \in Cells : symbols'[s] \in Symbol
    BY <1>2, <2>2, <2>3
  <2> QED
    BY <2>2, <2>3, <2>4, <2>5 DEF Link
<1>8. TypeOK'
  BY <1>1, <1>2, <1>4, <1>6, <1>7 DEF TypeOK, Pointer
<1>9. OwnedNow'
  <2>1. Entries' = Entries
    BY <1>1, <1>6 DEF Entries, InClear
  <2>2. /\ \A e \in Entries : HeadOf(e)' = HeadOf(e)
        /\ UNCHANGED allocated
    BY <1>1 DEF HeadOf, First
  <2>3. \A s \in allocated : Link(s)' = IF s = c THEN freeSymbols ELSE Link(s)
    BY <1>2, <1>7
  <2>4. c = clearing.symbol
    BY DEF c
  <2> HIDE DEF Link, HeadOf, Entries
  <2>5. \A s, t \in allocated : Link(s)' = Link(t)' => s = t \/ Link(s)' = NULL
    BY <1>1, <1>3, <1>4, <2>3, <2>4 DEF OwnedNow, Owned
  <2>6. \A e \in Entries, s \in allocated : HeadOf(e) = Link(s)' => HeadOf(e) = NULL
    BY <1>1, <1>3, <1>4, <2>3, <2>4 DEF OwnedNow, Owned
  <2>7. (\A e \in Entries : HeadOf(e) # c) /\ (\A s \in allocated : Link(s)' # c)
    BY <1>1, <1>3, <1>4, <2>3, <2>4 DEF OwnedNow, Owned
  <2>8. Link(c) # NULL => /\ \A e \in Entries : HeadOf(e) # Link(c)
                          /\ \A s \in allocated : Link(s)' # Link(c)
    BY <1>1, <1>3, <1>4, <2>3, <2>4 DEF OwnedNow, Owned
  <2>9. Link(c) # c /\ Link(c) \in allocated \cup {NULL}
    BY <1>1, <1>3, <1>4, <2>4 DEF OwnedNow, Owned
  <2>10. \A s \in allocated : Link(s)' \in allocated \cup {NULL}
    BY <1>3, <2>3 DEF OwnedNow, Owned
  <2> QED
    BY <1>1, <1>3, <1>4, <1>6, <2>1, <2>2, <2>5, <2>6, <2>7, <2>8, <2>9, <2>10
    DEF OwnedNow, Owned
<1>10. ReusedScopesAreEmpty' /\ ClearingAScope'
  BY <1>1, <1>6 DEF IInv, ReusedScopesAreEmpty, ClearingAScope, InClear
<1>11. (NoDanglingSymbols /\ NoSharedSymbols)'
  BY <1>9, OwnedIsInvariant, PTL
<1> QED
  BY <1>8, <1>10, <1>11 DEF IInv

\* symbol_table_clear: the entries left dangling are emptied, no other changes.
LEMMA ClearedTable ==
  ASSUME IInv, Cleared, UNCHANGED <<symbols, allocated, freeSymbols>>,
         clearing'.symbol = NULL, clearing'.left = Names \/ ~InClear'
  PROVE  /\ scopes' \in Seq(Scope) /\ Len(scopes') = Len(scopes)
         /\ \A j \in 1 .. Len(scopes) :
              /\ scopes'[j].table = IF j = clearing.scope THEN EmptyTable ELSE scopes[j].table
              /\ scopes'[j].kind = scopes[j].kind
         /\ OwnedNow'
<1> DEFINE i == clearing.scope
<1>1. /\ InClear /\ clearing.symbol = NULL /\ clearing.left = {}
      /\ scopes' = WithTable(i, EmptyTable)
  BY DEF Cleared, WithTable
<1>2. TypeOK /\ depth \in 1 .. Len(scopes)
  BY DEF IInv, TypeOK
<1>3. i \in 1 .. Len(scopes)
  BY <1>1, <1>2 DEF IInv, ClearingAScope, InClear
<1>4. /\ scopes' \in Seq(Scope) /\ Len(scopes') = Len(scopes)
      /\ \A j \in 1 .. Len(scopes) :
           /\ scopes'[j].table = IF j = i THEN EmptyTable ELSE scopes[j].table
           /\ scopes'[j].kind = scopes[j].kind
  BY <1>1, <1>2, <1>3, EmptyTableType, TableUpdate
<1>5. Entries' = (1 .. Len(scopes)) \X Names
  BY <1>4 DEF Entries
<1>6. Entries = {e \in (1 .. Len(scopes)) \X Names : e[1] # i}
  BY <1>1 DEF Entries
<1>7. \A e \in Entries' : HeadOf(e)' = IF e \in Entries THEN HeadOf(e) ELSE NULL
  <2> SUFFICES ASSUME NEW j \in 1 .. Len(scopes), NEW m \in Names
               PROVE  scopes'[j].table[m] = IF j # i THEN scopes[j].table[m] ELSE NULL
    BY <1>5, <1>6 DEF HeadOf, First
  <2> QED
    BY <1>4, EmptyTableType
<1>8. OwnedNow
  BY OwnedIsInvariant DEF IInv
<1>9. OwnedNow'
  <2>1. \A c \in allocated : Link(c)' = Link(c)
    BY DEF Link
  <2> HIDE DEF Link, HeadOf, Entries
  <2> QED
    BY <1>1, <1>7, <1>8, <2>1 DEF OwnedNow, Owned
<1> QED
  BY <1>4, <1>9

LEMMA ScopePoppedKeeps == ASSUME IInv, ScopePopped PROVE IInv'
<1>1. /\ mode = "pop" /\ Cleared /\ depth' = depth - 1 /\ mode' = "open"
      /\ clearing' = NotClearing
      /\ UNCHANGED <<symbols, allocated, freeSymbols>>
  BY DEF ScopePopped
<1>2. TypeOK /\ depth \in 1 .. Len(scopes) /\ depth > 1 /\ clearing.scope = depth
  BY <1>1 DEF IInv, TypeOK, ClearingAScope
<1>3. clearing' \in Cursor /\ clearing'.symbol = NULL
  BY <1>1 DEF NotClearing, Cursor, Pointer
<1>4. /\ scopes' \in Seq(Scope) /\ Len(scopes') = Len(scopes)
      /\ \A j \in 1 .. Len(scopes) :
           scopes'[j].table = IF j = clearing.scope THEN EmptyTable ELSE scopes[j].table
      /\ OwnedNow'
  BY <1>1, <1>3, ClearedTable DEF InClear
<1>5. TypeOK'
  BY <1>1, <1>2, <1>3, <1>4, LenProperties DEF TypeOK
<1>6. ReusedScopesAreEmpty'
  <2> SUFFICES ASSUME NEW j \in 1 .. Len(scopes), j > depth - 1
               PROVE  scopes'[j].table = EmptyTable
    BY <1>1, <1>4 DEF ReusedScopesAreEmpty
  <2>1. CASE j = depth
    BY <1>2, <1>4, <2>1
  <2>2. CASE j > depth
    <3>1. scopes[j].table = EmptyTable
      BY <2>2 DEF IInv, ReusedScopesAreEmpty
    <3> QED
      BY <1>4, <3>1
  <2> QED
    BY <1>2, <2>1, <2>2
<1>7. ClearingAScope'
  BY <1>1 DEF ClearingAScope, InClear, NotClearing
<1>8. (NoDanglingSymbols /\ NoSharedSymbols)'
  BY <1>4, OwnedIsInvariant, PTL
<1> QED
  BY <1>5, <1>6, <1>7, <1>8 DEF IInv

LEMMA ScopeDestroyedKeeps == ASSUME IInv, ScopeDestroyed PROVE IInv'
<1> DEFINE i == clearing.scope
<1>1. /\ mode = "destroy" /\ Cleared
      /\ \/ /\ i < Len(scopes) /\ mode' = "destroy"
            /\ clearing' = [scope |-> i + 1, left |-> Names, symbol |-> NULL]
         \/ /\ ~(i < Len(scopes)) /\ mode' = "closed"
            /\ clearing' = NotClearing
      /\ UNCHANGED <<depth, symbols, allocated, freeSymbols>>
  BY DEF ScopeDestroyed
<1>2. TypeOK /\ depth \in 1 .. Len(scopes) /\ i \in 1 .. Len(scopes) /\ Len(scopes) \in Nat
  BY <1>1, LenProperties DEF IInv, TypeOK, ClearingAScope
<1>3. /\ clearing' \in Cursor /\ clearing'.symbol = NULL
      /\ clearing'.left = Names \/ mode' = "closed"
      /\ mode' = "destroy" => clearing'.scope = i + 1 /\ i + 1 \in 1 .. Len(scopes)
  BY <1>1, <1>2 DEF NotClearing, Cursor, Pointer
<1>4. /\ scopes' \in Seq(Scope) /\ Len(scopes') = Len(scopes)
      /\ \A j \in 1 .. Len(scopes) :
           scopes'[j].table = IF j = i THEN EmptyTable ELSE scopes[j].table
      /\ OwnedNow'
  BY <1>1, <1>3, ClearedTable DEF InClear
<1>5. TypeOK'
  BY <1>1, <1>2, <1>3, <1>4 DEF TypeOK
<1>6. ReusedScopesAreEmpty'
  <2> SUFFICES ASSUME NEW j \in 1 .. Len(scopes),
                      j > depth \/ j < i + 1 \/ mode' = "closed"
               PROVE  scopes'[j].table = EmptyTable
    BY <1>1, <1>3, <1>4 DEF ReusedScopesAreEmpty
  <2>1. j = i \/ j > depth \/ j < i
    BY <1>1, <1>2
  <2>2. j > depth \/ j < i => scopes[j].table = EmptyTable
    BY <1>1 DEF IInv, ReusedScopesAreEmpty
  <2> QED
    BY <1>4, <2>1, <2>2
<1>7. ClearingAScope'
  BY <1>1, <1>3, <1>4 DEF ClearingAScope, InClear, NotClearing
<1>8. (NoDanglingSymbols /\ NoSharedSymbols)'
  BY <1>4, OwnedIsInvariant, PTL
<1> QED
  BY <1>5, <1>6, <1>7, <1>8 DEF IInv

\* Nothing else points to the free symbol that is given back.
LEMMA FreeSymbolKeeps == ASSUME IInv, FreeSymbol PROVE IInv'
<1> DEFINE p == freeSymbols
<1>1. /\ mode = "closed" /\ p # NULL
      /\ allocated' = allocated \ {p} /\ freeSymbols' = Link(p)
      /\ UNCHANGED <<scopes, depth, symbols, mode, clearing>>
  BY DEF FreeSymbol, Link
<1>2. OwnedNow /\ TypeOK
  BY OwnedIsInvariant DEF IInv
<1>3. p \in allocated /\ Link(p) \in allocated \cup {NULL} /\ Link(p) # p
  BY <1>1, <1>2 DEF OwnedNow, Owned
<1>4. clearing.symbol = NULL
  BY <1>1 DEF IInv, ClearingAScope, InClear, NotClearing
<1>5. TypeOK'
  BY <1>1, <1>2, <1>3 DEF TypeOK, Pointer
<1>6. OwnedNow'
  <2>1. /\ \A c \in allocated : Link(c)' = Link(c)
        /\ \A e \in Entries : HeadOf(e)' = HeadOf(e)
        /\ Entries' = Entries
    BY <1>1 DEF Link, HeadOf, First, Entries, InClear
  <2>2. clearing.symbol' = NULL
    BY <1>1, <1>4
  <2>3. p = freeSymbols
    OBVIOUS
  <2> HIDE DEF Link, HeadOf, Entries, p
  <2> QED
    BY <1>1, <1>2, <1>3, <2>1, <2>2, <2>3 DEF OwnedNow, Owned
<1>7. ReusedScopesAreEmpty' /\ ClearingAScope'
  BY <1>1 DEF IInv, ReusedScopesAreEmpty, ClearingAScope, InClear, NotClearing
<1>8. (NoDanglingSymbols /\ NoSharedSymbols)'
  BY <1>6, OwnedIsInvariant, PTL
<1> QED
  BY <1>5, <1>7, <1>8 DEF IInv

\* Lookups and refused insertions only give an answer.
LEMMA AnswerKeeps ==
  ASSUME IInv, UNCHANGED <<scopes, depth, symbols, allocated, freeSymbols, mode, clearing>>
  PROVE  IInv'
<1>1. TypeOK' /\ ReusedScopesAreEmpty' /\ ClearingAScope'
  BY DEF IInv, TypeOK, ReusedScopesAreEmpty, ClearingAScope, InClear, NotClearing
<1>2. NoDanglingSymbols' /\ NoSharedSymbols'
  BY DEF IInv, NoDanglingSymbols, NoSharedSymbols, Entries, HeadOf, First, InClear
<1> QED
  BY <1>1, <1>2 DEF IInv

LEMMA StepKeeps == ASSUME IInv, [Next]_vars PROVE IInv'
<1>1. CASE UNCHANGED vars
  BY <1>1, AnswerKeeps DEF vars
<1>2. ASSUME NEW n \in Names, NEW overload \in BOOLEAN, Refused(n, overload) PROVE IInv'
  BY <1>2, AnswerKeeps DEF Refused
<1>3. ASSUME NEW n \in Names, FindOne(n) \/ FindAll(n) \/ ClearName(n) PROVE IInv'
  <2>1. CASE ClearName(n)
    BY <2>1, ClearNameKeeps
  <2>2. CASE FindOne(n)
    BY <2>2, AnswerKeeps DEF FindOne
  <2>3. CASE FindAll(n)
    BY <2>3, AnswerKeeps DEF FindAll
  <2> QED
    BY <1>3, <2>1, <2>2, <2>3
<1>4. CASE Next
  BY <1>2, <1>3, <1>4, InsertFirstKeeps, InsertOverloadKeeps, PushScopeKeeps, PopScopeKeeps,
     DestroyKeeps, ClearSymbolKeeps, ScopePoppedKeeps, ScopeDestroyedKeeps, FreeSymbolKeeps,
     Zenon DEF Next
<1> QED
  BY <1>1, <1>4

-----------------------------------------------------------------------------
(* The lists from the tables: they end, and all their symbols allow overloads *)
(* or none does.                                                              *)

\* The list s of m symbols is the one that c begins.
Nth(s, m, i) == IF i \in 1 .. m THEN s[i] ELSE NULL

IsList(c, m, s) ==
  /\ m \in Nat /\ s \in [1 .. m -> allocated]
  /\ c = Nth(s, m, 1)
  /\ \A i \in 1 .. m : /\ Link(s[i]) = Nth(s, m, i + 1)
                       /\ symbols[s[i]].ast \in Decls
                       /\ symbols[s[i]].overload = symbols[s[1]].overload
  /\ \A i, j \in 1 .. m : s[i] = s[j] => i = j

Lists == \A e \in Entries : \E m, s : IsList(HeadOf(e), m, s)

LEMMA WalkSteps ==
  ASSUME TypeOK, NEW c
  PROVE  /\ Cardinality(Cells) \in Nat
         /\ Walk(c)[0] = c
         /\ \A k \in 1 .. Cardinality(Cells) : Walk(c)[k - 1] \in Pointer =>
              Walk(c)[k] = IF Walk(c)[k - 1] = NULL THEN NULL ELSE Link(Walk(c)[k - 1])
<1> DEFINE follow == [p \in Pointer |-> IF p = NULL THEN NULL ELSE symbols[p].next]
           n == Cardinality(Cells)
           f == CHOOSE f : Iterates(f, n, c, follow)
<1>1. n \in Nat
  BY FS_CardinalityType, EnvAssumption
<1>2. \A p \in Pointer : follow[p] = IF p = NULL THEN NULL ELSE Link(p)
  BY DEF Link
<1>3. Walk(c) = f
  BY DEF Walk, Iterates
<1> HIDE DEF n, follow
<1>4. Iterates(f, n, c, follow)
  BY <1>1, IterationExists
<1> HIDE DEF f
<1>5. f[0] = c /\ \A k \in 1 .. n : f[k] = follow[f[k - 1]]
  <2>1. \A k \in 0 .. n : f[k] = IF k = 0 THEN c ELSE follow[f[k - 1]]
    BY <1>4 DEF Iterates
  <2> QED
    BY <1>1, <2>1
<1> QED
  BY <1>1, <1>2, <1>3, <1>5 DEF n

\* A list has no more symbols than there are.
LEMMA ListLength ==
  ASSUME TypeOK, NEW c, NEW m, NEW s, IsList(c, m, s)
  PROVE  m <= Cardinality(Cells)
<1>1. s \in [1 .. m -> Cells] /\ m \in Nat
  BY DEF IsList, TypeOK
<1>2. s \in Injection(1 .. m, Cells)
  BY <1>1 DEF IsList, Injection, IsInjective
<1>3. Cardinality(1 .. m) <= Cardinality(Cells)
  BY <1>2, EnvAssumption, FS_Injection
<1>4. Cardinality(1 .. m) = m
  BY <1>1, FS_Interval
<1> QED
  BY <1>3, <1>4

LEMMA WalkOfList ==
  ASSUME TypeOK, NEW c, NEW m, NEW s, IsList(c, m, s)
  PROVE  \A k \in 0 .. Cardinality(Cells) : Walk(c)[k] = Nth(s, m, k + 1)
<1> DEFINE n == Cardinality(Cells)
           S == {k \in 0 .. n : Walk(c)[k] = Nth(s, m, k + 1)}
<1>1. n \in Nat /\ Walk(c)[0] = c
  BY WalkSteps
<1>2. 0 \in S
  BY <1>1 DEF IsList
<1>3. ASSUME NEW k \in Nat, k < n, k \in S PROVE k + 1 \in S
  <2>1. Walk(c)[k] = Nth(s, m, k + 1)
    BY <1>3
  <2>2. m \in Nat /\ \A i \in 1 .. m : s[i] \in Cells /\ s[i] # NULL /\ Link(s[i]) = Nth(s, m, i + 1)
    BY EnvAssumption DEF IsList, TypeOK
  <2>3. k + 1 \in 1 .. n /\ (k + 1) - 1 = k /\ k + 1 \in 0 .. n
    BY <1>1, <1>3
  <2>4. Nth(s, m, k + 1) \in Pointer
    BY <2>2 DEF Nth, Pointer
  <2>5. Walk(c)[k + 1] = IF Nth(s, m, k + 1) = NULL THEN NULL ELSE Link(Nth(s, m, k + 1))
    BY <2>1, <2>3, <2>4, WalkSteps
  <2>6. Walk(c)[k + 1] = Nth(s, m, k + 2)
    <3>1. CASE k + 1 \in 1 .. m
      <4>1. Nth(s, m, k + 1) = s[k + 1] /\ (k + 1) + 1 = k + 2
        BY <1>3, <3>1 DEF Nth
      <4>2. Nth(s, m, k + 1) # NULL /\ Link(Nth(s, m, k + 1)) = Nth(s, m, k + 2)
        BY <2>2, <3>1, <4>1
      <4> QED
        BY <2>5, <4>2
    <3>2. CASE k + 1 \notin 1 .. m
      <4>1. k + 2 \notin 1 .. m
        BY <1>3, <2>2, <3>2
      <4> QED
        BY <2>5, <3>2, <4>1 DEF Nth
    <3> QED
      BY <3>1, <3>2
  <2> HIDE DEF n
  <2>7. (k + 1) + 1 = k + 2
    BY <1>3
  <2> QED
    BY <2>3, <2>6, <2>7
<1> HIDE DEF S
<1>4. \A k \in 0 .. n : k \in S
  BY <1>1, <1>2, <1>3, SetInduction
<1> QED
  BY <1>4 DEF S

\* What a list declares.
ChainsAreLists ==
  \A c, m, s : IsList(c, m, s) => Chain(c) = [k \in 1 .. m |-> Content(s[k])]

LEMMA ChainOfList == TypeOK => ChainsAreLists
<1> SUFFICES ASSUME TypeOK, NEW c, NEW m, NEW s, IsList(c, m, s)
             PROVE  Chain(c) = [k \in 1 .. m |-> Content(s[k])]
  BY DEF ChainsAreLists
<1> DEFINE n == Cardinality(Cells)
<1>1. n \in Nat /\ m \in Nat /\ m <= n
  <2>1. n \in Nat
    BY WalkSteps
  <2>2. m \in Nat
    BY DEF IsList
  <2> QED
    BY <2>1, <2>2, ListLength
<1>2. \A k \in 1 .. n : Walk(c)[k - 1] = Nth(s, m, k)
  <2>1. \A k \in 1 .. n : k - 1 \in 0 .. n /\ (k - 1) + 1 = k
    BY <1>1
  <2> QED
    BY <2>1, WalkOfList
<1>3. \A k \in 1 .. n : Nth(s, m, k) # NULL <=> k \in 1 .. m
  BY EnvAssumption DEF IsList, TypeOK, Nth
<1> HIDE DEF n
<1>4. {k \in 1 .. n : Walk(c)[k - 1] # NULL} = 1 .. m
  BY <1>1, <1>2, <1>3
<1>5. \A k \in 1 .. m : Walk(c)[k - 1] = s[k]
  BY <1>1, <1>2 DEF Nth
<1>6. Chain(c) = [k \in {k \in 1 .. n : Walk(c)[k - 1] # NULL} |-> Content(Walk(c)[k - 1])]
  BY DEF Chain, n
<1> QED
  BY <1>4, <1>5, <1>6

\* A list that a step does not touch.
Keeps(c) == (\E m, s : IsList(c, m, s)') /\ Chain(c)' = Chain(c)

LEMMA ListKept ==
  ASSUME TypeOK, TypeOK', NEW c, NEW m, NEW s, IsList(c, m, s),
         \A i \in 1 .. m : s[i] \in allocated' /\ symbols'[s[i]] = symbols[s[i]]
  PROVE  IsList(c, m, s)' /\ Keeps(c)
<1>1. m \in Nat /\ s \in [1 .. m -> allocated']
  BY DEF IsList
<1>2. \A i \in 1 .. m : Link(s[i])' = Link(s[i])
  BY DEF Link
<1>3. c = Nth(s, m, 1)
  BY DEF IsList
<1>4. m = 0 \/ 1 \in 1 .. m
  BY <1>1
<1>5. \A i \in 1 .. m : symbols'[s[i]].ast \in Decls /\ symbols'[s[i]].overload = symbols'[s[1]].overload
  BY <1>1, <1>4 DEF IsList
<1>6. \A i \in 1 .. m : Link(s[i])' = Nth(s, m, i + 1)
  BY <1>2 DEF IsList
<1>7. IsList(c, m, s)'
  <2>1. \A i, j \in 1 .. m : s[i] = s[j] => i = j
    BY DEF IsList
  <2>2. \A i \in 1 .. m : /\ Link(s[i])' = Nth(s, m, i + 1)
                         /\ symbols'[s[i]].ast \in Decls
                         /\ symbols'[s[i]].overload = symbols'[s[1]].overload
    BY <1>5, <1>6
  <2> QED
    BY <1>1, <1>3, <2>1, <2>2 DEF IsList
<1>8. Chain(c) = [k \in 1 .. m |-> Content(s[k])]
  BY ChainOfList DEF ChainsAreLists
<1>9. (TypeOK => ChainsAreLists)'
  BY ChainOfList, PTL
<1>10. Chain(c)' = [k \in 1 .. m |-> Content(s[k])']
  BY <1>7, <1>9 DEF ChainsAreLists
<1>11. \A k \in 1 .. m : Content(s[k])' = Content(s[k])
  BY DEF Content
<1> QED
  BY <1>7, <1>8, <1>10, <1>11 DEF Keeps

\* A symbol that nothing points to is in no list.
LEMMA NotInList ==
  ASSUME NEW c, NEW m, NEW s, IsList(c, m, s), NEW p, p # NULL, c # p,
         \A d \in allocated : Link(d) # p
  PROVE  \A i \in 1 .. m : s[i] # p
<1>1. m \in Nat /\ \A i \in 1 .. m : s[i] \in allocated
  BY DEF IsList
<1> SUFFICES ASSUME NEW i \in 1 .. m PROVE s[i] # p
  OBVIOUS
<1>2. CASE i = 1
  BY <1>1, <1>2 DEF IsList, Nth
<1>3. CASE i # 1
  <2>1. i - 1 \in 1 .. m /\ (i - 1) + 1 = i
    BY <1>1, <1>3
  <2>2. Link(s[i - 1]) = Nth(s, m, i)
    BY <2>1 DEF IsList
  <2>3. Nth(s, m, i) = s[i]
    BY DEF Nth
  <2> QED
    BY <1>1, <2>1, <2>2, <2>3
<1> QED
  BY <1>2, <1>3

\* The empty list, and the shape of one that is not empty.
LEMMA EmptyList == \E m, s : IsList(NULL, m, s)
<1> DEFINE s == [i \in 1 .. 0 |-> NULL]
<1>1. IsList(NULL, 0, s)
  BY DEF IsList, Nth
<1> QED
  BY <1>1

LEMMA EmptyChain == TypeOK => Chain(NULL) = [k \in 1 .. 0 |-> Content(NULL)]
<1> SUFFICES ASSUME TypeOK PROVE Chain(NULL) = [k \in 1 .. 0 |-> Content(NULL)]
  OBVIOUS
<1>1. PICK m, s : IsList(NULL, m, s)
  BY EmptyList
<1>2. m = 0
  BY <1>1, EnvAssumption DEF IsList, Nth, TypeOK
<1> QED
  BY <1>1, <1>2, ChainOfList DEF ChainsAreLists

\* When symbols and allocations stay, so do all lists.
LEMMA ListsStay ==
  ASSUME TypeOK, TypeOK', UNCHANGED <<symbols, allocated>>,
         NEW c, \E m, s : IsList(c, m, s)
  PROVE  Keeps(c)
<1>1. PICK m, s : IsList(c, m, s)
  OBVIOUS
<1>2. \A i \in 1 .. m : s[i] \in allocated' /\ symbols'[s[i]] = symbols[s[i]]
  BY <1>1 DEF IsList
<1> QED
  BY <1>1, <1>2, ListKept

-----------------------------------------------------------------------------
(* What the steps do to the lists. *)

\* Lists without the symbols that a step writes or frees.
LEMMA OtherListsKept ==
  ASSUME TypeOK, TypeOK', Lists, NEW P,
         \A p \in P : p # NULL /\ \A d \in allocated : Link(d) # p,
         \A d \in allocated : d \notin P => d \in allocated' /\ symbols'[d] = symbols[d],
         NEW e \in Entries, HeadOf(e) \notin P, NEW c, c = HeadOf(e)
  PROVE  Keeps(c)
<1>1. PICK m, s : IsList(c, m, s)
  BY DEF Lists
<1>2. \A i \in 1 .. m : s[i] \in allocated
  BY <1>1 DEF IsList
<1>3. \A i \in 1 .. m : s[i] \notin P
  <2> SUFFICES ASSUME NEW i \in 1 .. m, NEW p \in P PROVE s[i] # p
    OBVIOUS
  <2> QED
    BY <1>1, NotInList
<1> QED
  BY <1>1, <1>2, <1>3, ListKept

\* A name that is new in its scope gets a list of one symbol.
LEMMA InsertFirstLists ==
  ASSUME IInv, IInv', Lists, NEW n \in Names, NEW d \in Decls, NEW o \in BOOLEAN, InsertFirst(n, d, o)
  PROVE  \E c :
           /\ \A e \in Entries' : HeadOf(e)' = IF e = <<depth, n>> THEN c ELSE HeadOf(e)
           /\ \A e \in Entries : \A x : x = HeadOf(e) => Keeps(x)
           /\ \E m, s : IsList(c, m, s)'
           /\ Chain(c)' = [k \in 1 .. 1 |-> [ast |-> d, overload |-> o]]
<1>1. /\ mode = "open" /\ UNCHANGED mode
      /\ TypeOK /\ TypeOK' /\ depth \in 1 .. Len(scopes)
  BY DEF InsertFirst, IInv, TypeOK
<1>2. PICK c \in Cells :
        /\ Alloc(c)
        /\ symbols' = [symbols EXCEPT ![c] =
                         [ast |-> d, next |-> AllocLink(c), overload |-> o]]
        /\ scopes' = [scopes EXCEPT ![depth].table[n] = c]
  BY DEF InsertFirst
<1>3. /\ c # NULL /\ c \in allocated' /\ allocated' = allocated \cup {c}
      /\ \A e \in Entries : HeadOf(e) # c
      /\ \A s \in allocated : Link(s) # c
  BY <1>1, <1>2, AllocOwned
<1>4. symbols \in [Cells -> Symbol] /\ allocated \subseteq Cells
  BY <1>1 DEF TypeOK
<1>5. /\ symbols'[c] = [ast |-> d, next |-> NULL, overload |-> o]
      /\ \A s \in Cells : s # c => symbols'[s] = symbols[s]
  BY <1>2, <1>4 DEF AllocLink
<1>6. \A e \in Entries' : HeadOf(e)' = IF e = <<depth, n>> THEN c ELSE HeadOf(e)
  <2> DEFINE tab == [scopes[depth].table EXCEPT ![n] = c]
  <2>1. tab \in [Names -> Pointer] /\ \A m \in Names :
          tab[m] = IF m = n THEN c ELSE scopes[depth].table[m]
    BY <1>1, TablesArePointers DEF Pointer
  <2>2. scopes' = WithTable(depth, tab)
    BY <1>2 DEF WithTable
  <2> HIDE DEF tab
  <2>3. /\ Len(scopes') = Len(scopes)
        /\ \A j \in 1 .. Len(scopes) :
             scopes'[j].table = IF j = depth THEN tab ELSE scopes[j].table
    BY <1>1, <2>1, <2>2, TableUpdate
  <2>4. Entries' = (1 .. Len(scopes)) \X Names
    BY <1>1, <2>3 DEF Entries, InClear
  <2> SUFFICES ASSUME NEW i \in 1 .. Len(scopes), NEW m \in Names
               PROVE  scopes'[i].table[m] = IF i = depth /\ m = n THEN c ELSE scopes[i].table[m]
    BY <2>4 DEF HeadOf, First
  <2> QED
    BY <2>1, <2>3
<1>7. \A e \in Entries : \A x : x = HeadOf(e) => Keeps(x)
  <2>1. \A p \in {c} : p # NULL /\ \A s \in allocated : Link(s) # p
    BY <1>3
  <2>2. \A s \in allocated : s \notin {c} => s \in allocated' /\ symbols'[s] = symbols[s]
    BY <1>3, <1>4, <1>5
  <2>3. \A e \in Entries : HeadOf(e) \notin {c}
    BY <1>3
  <2> QED
    BY <1>1, <2>1, <2>2, <2>3, OtherListsKept
<1> DEFINE s == [i \in 1 .. 1 |-> c]
<1>8. IsList(c, 1, s)'
  <2>1. s \in [1 .. 1 -> allocated'] /\ \A i \in 1 .. 1 : s[i] = c /\ i = 1
    BY <1>3
  <2>2. Link(c)' = NULL /\ symbols'[c].ast \in Decls
    BY <1>5 DEF Link
  <2>3. Nth(s, 1, 1) = c /\ Nth(s, 1, 2) = NULL
    BY <2>1 DEF Nth
  <2> HIDE DEF s
  <2>4. \A i \in 1 .. 1 : /\ Link(s[i])' = Nth(s, 1, i + 1)
                          /\ symbols'[s[i]].ast \in Decls
                          /\ symbols'[s[i]].overload = symbols'[s[1]].overload
    BY <2>1, <2>2, <2>3
  <2> QED
    BY <2>1, <2>3, <2>4 DEF IsList
<1>9. Chain(c)' = [k \in 1 .. 1 |-> [ast |-> d, overload |-> o]]
  <2>1. (TypeOK => ChainsAreLists)'
    BY ChainOfList, PTL
  <2>2. Content(c)' = [ast |-> d, overload |-> o]
    BY <1>5 DEF Content
  <2>3. \A k \in 1 .. 1 : s[k] = c
    OBVIOUS
  <2> HIDE DEF s
  <2>4. Chain(c)' = [k \in 1 .. 1 |-> Content(s[k])']
    BY <1>1, <1>8, <2>1 DEF ChainsAreLists
  <2> QED
    BY <2>2, <2>3, <2>4
<1> HIDE DEF s
<1> QED
  BY <1>6, <1>7, <1>8, <1>9

\* A further overload is put at the head of the list, which keeps its first symbol.
LEMMA InsertOverloadLists ==
  ASSUME IInv, IInv', Lists, NEW n \in Names, NEW d \in Decls, NEW o \in BOOLEAN, InsertOverload(n, d, o)
  PROVE  \E f, m, s :
           /\ f = HeadOf(<<depth, n>>) /\ IsList(f, m, s) /\ m # 0
           /\ \A k \in 1 .. m : o /\ symbols[s[k]].overload
           /\ \A e \in Entries : e # <<depth, n>> => \A x : x = HeadOf(e) => Keeps(x)
           /\ \E t : IsList(f, m + 1, t)'
           /\ Chain(f)' = [k \in 1 .. m + 1 |-> IF k = 1 THEN [ast |-> d, overload |-> o]
                                                ELSE Content(s[k - 1])]
<1>1. /\ mode = "open" /\ UNCHANGED mode
      /\ TypeOK /\ TypeOK' /\ depth \in 1 .. Len(scopes)
  BY DEF InsertOverload, IInv, TypeOK
<1>2. PICK f : f = First(depth, n)
  OBVIOUS
<1>3. f # NULL /\ ~Refuses(f, o)
  BY <1>2 DEF InsertOverload
<1>4. PICK c \in Cells :
        /\ Alloc(c)
        /\ symbols' = [symbols EXCEPT
                         ![c] = [ast |-> symbols[f].ast, next |-> symbols[f].next, overload |-> o],
                         ![f].ast = d,
                         ![f].next = c]
  BY <1>2 DEF InsertOverload
<1>5. /\ c # NULL /\ c \in allocated' /\ allocated' = allocated \cup {c}
      /\ \A e \in Entries : HeadOf(e) # c
      /\ \A s \in allocated : Link(s) # c
  BY <1>1, <1>4, AllocOwned
<1>6. symbols \in [Cells -> Symbol] /\ allocated \subseteq Cells
  BY <1>1 DEF TypeOK
<1>7. <<depth, n>> \in Entries /\ HeadOf(<<depth, n>>) = f
  BY <1>1, <1>2, OpenState DEF HeadOf
<1>8. PICK m, s : IsList(f, m, s)
  BY <1>7 DEF Lists
<1>9. /\ m \in Nat /\ m # 0 /\ f = s[1]
      /\ \A i \in 1 .. m : s[i] \in allocated /\ s[i] \in Cells
  BY <1>3, <1>6, <1>8 DEF IsList, Nth
<1>10. 1 \in 1 .. m /\ f \in allocated /\ f \in Cells
  BY <1>9
<1>11. c # f
  BY <1>5, <1>7
<1>12. o = TRUE /\ symbols[f].overload = TRUE /\ \A i \in 1 .. m : symbols[s[i]].overload = TRUE
  <2>1. o = TRUE /\ symbols[f].overload = TRUE
    <3>1. symbols[f] \in Symbol
      BY <1>6, <1>10
    <3>2. symbols[f].overload \in BOOLEAN
      BY <3>1 DEF Symbol
    <3> QED
      BY <1>3, <3>2 DEF Refuses
  <2> QED
    BY <1>8, <1>9, <2>1 DEF IsList
<1>13. /\ symbols'[c] = [ast |-> symbols[f].ast, next |-> symbols[f].next, overload |-> o]
       /\ symbols'[f] = [symbols[f] EXCEPT !.ast = d, !.next = c]
       /\ \A s1 \in Cells : s1 # c /\ s1 # f => symbols'[s1] = symbols[s1]
  <2>1. symbols[f] \in Symbol
    BY <1>6, <1>10
  <2> QED
    BY <1>4, <1>6, <1>10, <1>11, <2>1 DEF Symbol
<1>14. symbols[f] \in Symbol
  BY <1>6, <1>10
<1>15. /\ symbols'[f].ast = d /\ symbols'[f].next = c /\ symbols'[f].overload = TRUE
       /\ symbols'[c].ast = symbols[f].ast /\ symbols'[c].next = symbols[f].next
       /\ symbols'[c].overload = TRUE
  BY <1>12, <1>13, <1>14 DEF Symbol
<1>16. \A e \in Entries : e # <<depth, n>> => \A x : x = HeadOf(e) => Keeps(x)
  <2>1. \A p \in {c, f} : p # NULL /\ \A s1 \in allocated : Link(s1) # p
    <3>1. \A s1 \in allocated : Link(s1) # f
      BY <1>1, <1>3, <1>7, OpenState DEF OwnedNow, Owned
    <3> QED
      BY <1>3, <1>5, <3>1
  <2>2. \A s1 \in allocated : s1 \notin {c, f} => s1 \in allocated' /\ symbols'[s1] = symbols[s1]
    BY <1>5, <1>6, <1>13
  <2>3. \A e \in Entries : e # <<depth, n>> => HeadOf(e) \notin {c, f}
    <3>1. \A e \in Entries : e # <<depth, n>> => HeadOf(e) # f
      BY <1>1, <1>3, <1>7, OpenState DEF OwnedNow, Owned
    <3> QED
      BY <1>5, <3>1
  <2> QED
    BY <1>1, <2>1, <2>2, <2>3, OtherListsKept
<1>17. \A i \in 1 .. m : s[i] # c
  BY <1>5, <1>8, <1>11, NotInList
<1> DEFINE t == [i \in 1 .. m + 1 |-> IF i = 1 THEN f ELSE IF i = 2 THEN c ELSE s[i - 1]]
<1>18. /\ \A i \in 1 .. m + 1 : t[i] = IF i = 1 THEN f ELSE IF i = 2 THEN c ELSE s[i - 1]
       /\ t \in [1 .. m + 1 -> allocated']
  <2>1. \A i \in 1 .. m + 1 : i # 1 => i - 1 \in 1 .. m
    BY <1>9
  <2> QED
    BY <1>5, <1>9, <1>10, <2>1
<1> HIDE DEF t
<1>19. /\ \A i \in 1 .. m + 1 : i = 1 \/ i = 2 \/ (i - 1 \in 2 .. m)
       /\ 1 \in 1 .. m + 1 /\ 2 \in 1 .. m + 1 /\ m + 1 \in Nat
  BY <1>9
<1>20. \A i \in 2 .. m : s[i] # f /\ s[i] # c /\ symbols'[s[i]] = symbols[s[i]]
  <2>1. \A i \in 2 .. m : i \in 1 .. m /\ i # 1
    BY <1>9
  <2>2. \A i \in 2 .. m : s[i] # f
    BY <1>8, <1>9, <1>10, <2>1 DEF IsList
  <2> QED
    BY <1>9, <1>13, <1>17, <2>1, <2>2
<1>21. \A i \in 1 .. m + 1 : Link(t[i])' = Nth(t, m + 1, i + 1)
  <2>1. t[1] = f /\ t[2] = c /\ Nth(t, m + 1, 2) = c
    BY <1>18, <1>19 DEF Nth
  <2>2. \A i \in 2 .. m : Nth(s, m, i + 1) = Nth(t, m + 1, i + 2)
    <3> SUFFICES ASSUME NEW i \in 2 .. m PROVE Nth(s, m, i + 1) = Nth(t, m + 1, i + 2)
      OBVIOUS
    <3>1. i + 1 \in 1 .. m <=> i + 2 \in 1 .. m + 1
      BY <1>9
    <3>2. i + 2 # 1 /\ i + 2 # 2 /\ (i + 2) - 1 = i + 1
      BY <1>9
    <3> QED
      BY <1>18, <3>1, <3>2 DEF Nth
  <2>3. Nth(s, m, 2) = Nth(t, m + 1, 3)
    <3>1. 2 \in 1 .. m <=> 3 \in 1 .. m + 1
      BY <1>9
    <3> QED
      BY <1>18, <3>1 DEF Nth
  <2>4. Link(f)' = c
    BY <1>15 DEF Link
  <2>5. Link(c)' = Nth(s, m, 2)
    BY <1>8, <1>9, <1>10, <1>15 DEF Link, IsList
  <2>6. \A i \in 2 .. m : Link(s[i])' = Nth(s, m, i + 1)
    <3>1. \A i \in 2 .. m : i \in 1 .. m
      BY <1>9
    <3> QED
      BY <1>8, <1>20, <3>1 DEF Link, IsList
  <2> SUFFICES ASSUME NEW i \in 1 .. m + 1 PROVE Link(t[i])' = Nth(t, m + 1, i + 1)
    OBVIOUS
  <2>7. CASE i = 1
    BY <2>1, <2>4, <2>7
  <2>8. CASE i = 2
    BY <2>1, <2>3, <2>5, <2>8
  <2>9. CASE i - 1 \in 2 .. m
    <3>1. PICK j \in 2 .. m : j = i - 1
      BY <2>9
    <3>2. t[i] = s[j] /\ j + 2 = i + 1
      BY <1>9, <1>18, <3>1
    <3>3. Link(s[j])' = Nth(s, m, j + 1) /\ Nth(s, m, j + 1) = Nth(t, m + 1, j + 2)
      BY <2>2, <2>6
    <3> QED
      BY <3>2, <3>3
  <2> QED
    BY <1>19, <2>7, <2>8, <2>9
<1>22. \A i \in 1 .. m + 1 : symbols'[t[i]].overload = TRUE /\ symbols'[t[i]].ast \in Decls
  <2>1. \A i \in 2 .. m : symbols'[s[i]].overload = TRUE /\ symbols'[s[i]].ast \in Decls
    <3>1. \A i \in 2 .. m : i \in 1 .. m
      BY <1>9
    <3> QED
      BY <1>8, <1>12, <1>20, <3>1 DEF IsList
  <2>2. symbols[f].ast \in Decls
    BY <1>8, <1>9, <1>10 DEF IsList
  <2>3. \A i \in 1 .. m + 1 : t[i] = f \/ t[i] = c \/ \E j \in 2 .. m : t[i] = s[j]
    BY <1>18, <1>19
  <2> QED
    BY <1>15, <2>1, <2>2, <2>3
<1>23. \A i, j \in 1 .. m + 1 : t[i] = t[j] => i = j
  <2>1. \A i, j \in 2 .. m : s[i] = s[j] => i = j
    <3>1. \A i \in 2 .. m : i \in 1 .. m
      BY <1>9
    <3> QED
      BY <1>8, <3>1 DEF IsList
  <2> SUFFICES ASSUME NEW i \in 1 .. m + 1, NEW j \in 1 .. m + 1, t[i] = t[j] PROVE i = j
    OBVIOUS
  <2>2. /\ i = 1 => t[i] = f
        /\ i = 2 => t[i] = c
        /\ i # 1 /\ i # 2 => i - 1 \in 2 .. m /\ t[i] = s[i - 1] /\ t[i] # f /\ t[i] # c
    BY <1>18, <1>19, <1>20
  <2>3. /\ j = 1 => t[j] = f
        /\ j = 2 => t[j] = c
        /\ j # 1 /\ j # 2 => j - 1 \in 2 .. m /\ t[j] = s[j - 1] /\ t[j] # f /\ t[j] # c
    BY <1>18, <1>19, <1>20
  <2>4. CASE i # 1 /\ i # 2
    <3>1. i - 1 = j - 1
      BY <1>11, <2>1, <2>2, <2>3, <2>4
    <3> QED
      BY <3>1
  <2>5. CASE i = 1 \/ i = 2
    BY <1>11, <2>2, <2>3, <2>5
  <2> QED
    BY <2>4, <2>5
<1>24. IsList(f, m + 1, t)'
  <2>1. Nth(t, m + 1, 1) = f
    BY <1>18, <1>19 DEF Nth
  <2>2. \A i \in 1 .. m + 1 : /\ Link(t[i])' = Nth(t, m + 1, i + 1)
                             /\ symbols'[t[i]].ast \in Decls
                             /\ symbols'[t[i]].overload = symbols'[t[1]].overload
    BY <1>19, <1>21, <1>22
  <2> QED
    BY <1>18, <1>19, <1>23, <2>1, <2>2 DEF IsList
<1>25. Chain(f)' = [k \in 1 .. m + 1 |-> IF k = 1 THEN [ast |-> d, overload |-> o]
                                         ELSE Content(s[k - 1])]
  <2>1. (TypeOK => ChainsAreLists)'
    BY ChainOfList, PTL
  <2>2. Chain(f)' = [k \in 1 .. m + 1 |-> Content(t[k])']
    BY <1>1, <1>24, <2>1 DEF ChainsAreLists
  <2>3. Content(f)' = [ast |-> d, overload |-> o]
    BY <1>12, <1>15 DEF Content
  <2>4. Content(c)' = Content(s[1])
    BY <1>9, <1>12, <1>15 DEF Content
  <2>5. \A i \in 2 .. m : Content(s[i])' = Content(s[i])
    BY <1>20 DEF Content
  <2>6. \A k \in 1 .. m + 1 : Content(t[k])' = IF k = 1 THEN [ast |-> d, overload |-> o]
                                              ELSE Content(s[k - 1])
    <3> SUFFICES ASSUME NEW k \in 1 .. m + 1
                 PROVE  Content(t[k])' = IF k = 1 THEN [ast |-> d, overload |-> o] ELSE Content(s[k - 1])
      OBVIOUS
    <3>1. CASE k = 1
      BY <1>18, <1>19, <2>3, <3>1
    <3>2. CASE k = 2
      BY <1>18, <1>19, <2>4, <3>2
    <3>3. CASE k # 1 /\ k # 2
      <4>1. PICK j \in 2 .. m : j = k - 1
        BY <1>19, <3>3
      <4>2. t[k] = s[j]
        BY <1>18, <3>3, <4>1
      <4> QED
        BY <2>5, <3>3, <4>1, <4>2
    <3> QED
      BY <3>1, <3>2, <3>3
  <2> QED
    BY <2>2, <2>6
<1>26. \A k \in 1 .. m : o /\ symbols[s[k]].overload
  BY <1>12
<1>27. \E u : IsList(f, m + 1, u)'
  BY <1>24
<1>28. f = HeadOf(<<depth, n>>) /\ IsList(f, m, s) /\ m # 0
  BY <1>7, <1>8, <1>9
<1> QED
  BY <1>16, <1>25, <1>26, <1>27, <1>28

\* The other steps leave every list in use as it is.
Quiet ==
  \/ UNCHANGED <<symbols, allocated>>
  \/ ClearSymbol
  \/ FreeSymbol

ListsKeep == \A e \in Entries : \A x : x = HeadOf(e) => Keeps(x)

LEMMA QuietKeepsLists == ASSUME IInv, IInv', Lists, Quiet PROVE ListsKeep
<1>1. TypeOK /\ TypeOK' /\ symbols \in [Cells -> Symbol] /\ allocated \subseteq Cells
  BY DEF IInv, TypeOK
<1>2. CASE UNCHANGED <<symbols, allocated>>
  <2> SUFFICES ASSUME NEW e \in Entries, NEW x, x = HeadOf(e) PROVE Keeps(x)
    BY DEF ListsKeep
  <2>1. \E m, s : IsList(x, m, s)
    BY DEF Lists
  <2> QED
    BY <1>1, <1>2, <2>1, ListsStay
<1>3. OwnedNow
  BY OwnedIsInvariant DEF IInv
<1>4. CASE ClearSymbol
  <2>1. PICK c : c = clearing.symbol
    OBVIOUS
  <2>2. c # NULL /\ symbols' = [symbols EXCEPT ![c].next = freeSymbols] /\ allocated' = allocated
    BY <1>4, <2>1 DEF ClearSymbol
  <2>3. (\A e \in Entries : HeadOf(e) # c) /\ (\A d \in allocated : Link(d) # c)
    BY <1>3, <2>1, <2>2 DEF OwnedNow, Owned
  <2>4. \A d \in allocated : d \notin {c} => d \in allocated' /\ symbols'[d] = symbols[d]
    BY <1>1, <2>2
  <2>5. \A p \in {c} : p # NULL /\ \A d \in allocated : Link(d) # p
    BY <2>2, <2>3
  <2>6. \A e \in Entries : HeadOf(e) \notin {c}
    BY <2>3
  <2>7. \A e \in Entries : \A x : x = HeadOf(e) => Keeps(x)
    BY <1>1, <2>4, <2>5, <2>6, OtherListsKept
  <2> QED
    BY <2>7 DEF ListsKeep
<1>5. CASE FreeSymbol
  <2>1. PICK c : c = freeSymbols
    OBVIOUS
  <2>2. c # NULL /\ symbols' = symbols /\ allocated' = allocated \ {c}
    BY <1>5, <2>1 DEF FreeSymbol
  <2>3. (\A e \in Entries : HeadOf(e) # c) /\ (\A d \in allocated : Link(d) # c)
    BY <1>3, <2>1, <2>2 DEF OwnedNow, Owned
  <2>4. \A d \in allocated : d \notin {c} => d \in allocated' /\ symbols'[d] = symbols[d]
    BY <2>2
  <2>5. \A p \in {c} : p # NULL /\ \A d \in allocated : Link(d) # p
    BY <2>2, <2>3
  <2>6. \A e \in Entries : HeadOf(e) \notin {c}
    BY <2>3
  <2>7. \A e \in Entries : \A x : x = HeadOf(e) => Keeps(x)
    BY <1>1, <2>4, <2>5, <2>6, OtherListsKept
  <2> QED
    BY <2>7 DEF ListsKeep
<1> QED
  BY <1>2, <1>4, <1>5 DEF Quiet

\* They add no list to the tables.
NoNewHeads == \A e \in Entries' : HeadOf(e)' = NULL \/ (e \in Entries /\ HeadOf(e)' = HeadOf(e))

LEMMA QuietLists ==
  ASSUME IInv, IInv', Lists, Quiet, NoNewHeads
  PROVE  Lists'
<1> SUFFICES ASSUME NEW e \in Entries' PROVE \E m, s : IsList(HeadOf(e), m, s)'
  BY DEF Lists
<1>1. PICK x : x = HeadOf(e)'
  OBVIOUS
<1>2. \E m, s : IsList(x, m, s)'
  <2>1. CASE x = NULL
    <3>1. (\E m, s : IsList(NULL, m, s))'
      BY EmptyList, PTL
    <3> QED
      BY <2>1, <3>1
  <2>2. CASE x # NULL
    <3>1. e \in Entries /\ x = HeadOf(e)
      BY <1>1, <2>2 DEF NoNewHeads
    <3>2. Keeps(x)
      BY <3>1, QuietKeepsLists DEF ListsKeep
    <3> QED
      BY <3>2 DEF Keeps
  <2> QED
    BY <2>1, <2>2
<1>3. PICK m, s : IsList(x, m, s)'
  BY <1>2
<1>4. IsList(HeadOf(e), m, s)'
  BY <1>1, <1>3 DEF IsList
<1> QED
  BY <1>4

LEMMA PushScopeHeads == ASSUME IInv, NEW k \in Kinds, PushScope(k) PROVE NoNewHeads
<1>1. mode = "open" /\ mode' = "open"
  BY DEF PushScope
<1>2. Entries = (1 .. Len(scopes)) \X Names /\ Entries' = (1 .. Len(scopes')) \X Names
  BY <1>1, OpenState DEF Entries, InClear
<1>3. \A j \in 1 .. Len(scopes') :
        scopes'[j].table = IF j \in 1 .. Len(scopes) THEN scopes[j].table ELSE EmptyTable
  BY PushedScopes
<1> SUFFICES ASSUME NEW j \in 1 .. Len(scopes'), NEW n \in Names
             PROVE  \/ scopes'[j].table[n] = NULL
                    \/ j \in 1 .. Len(scopes) /\ scopes'[j].table[n] = scopes[j].table[n]
  BY <1>2 DEF NoNewHeads, HeadOf, First
<1> QED
  BY <1>3, EmptyTableType

LEMMA ClearedHeads ==
  ASSUME IInv, ScopePopped \/ ScopeDestroyed
  PROVE  NoNewHeads
<1>1. /\ Cleared /\ UNCHANGED <<symbols, allocated, freeSymbols>>
      /\ clearing'.symbol = NULL /\ (clearing'.left = Names \/ ~InClear')
  BY DEF ScopePopped, ScopeDestroyed, NotClearing, InClear
<1>2. /\ Len(scopes') = Len(scopes)
      /\ \A j \in 1 .. Len(scopes) :
           scopes'[j].table = IF j = clearing.scope THEN EmptyTable ELSE scopes[j].table
  BY <1>1, ClearedTable
<1>3. Entries = {e \in (1 .. Len(scopes)) \X Names : e[1] # clearing.scope}
  BY <1>1 DEF Cleared, Entries
<1>4. \A e \in Entries' : e \in (1 .. Len(scopes)) \X Names
  BY <1>2 DEF Entries
<1> SUFFICES ASSUME NEW j \in 1 .. Len(scopes), NEW n \in Names
             PROVE  \/ scopes'[j].table[n] = NULL
                    \/ j # clearing.scope /\ scopes'[j].table[n] = scopes[j].table[n]
  BY <1>3, <1>4 DEF NoNewHeads, HeadOf, First
<1> QED
  BY <1>2, EmptyTableType

LEMMA SameHeads ==
  ASSUME IInv, UNCHANGED scopes,
         \/ UNCHANGED <<mode, clearing>>
         \/ PopScope \/ Destroy \/ ClearSymbol \/ \E n \in Names : ClearName(n)
  PROVE  NoNewHeads
<1>1. \A e \in Entries' : e \in Entries
  <2>1. CASE UNCHANGED <<mode, clearing>>
    BY <2>1 DEF Entries, InClear
  <2>2. CASE PopScope \/ Destroy
    <3>1. mode = "open"
      BY <2>2 DEF PopScope, Destroy
    <3> QED
      BY <3>1, OpenState DEF Entries
  <2>3. CASE ClearSymbol
    <3>1. clearing' = [clearing EXCEPT !.symbol = Link(clearing.symbol)] /\ UNCHANGED mode
      BY <2>3 DEF ClearSymbol, SavedNext, Link
    <3>2. clearing \in Cursor
      BY DEF IInv, TypeOK
    <3>3. clearing'.left = clearing.left /\ clearing'.scope = clearing.scope
      BY <3>1, <3>2 DEF Cursor
    <3> QED
      BY <3>1, <3>3 DEF Entries, InClear
  <2>4. ASSUME NEW n \in Names, ClearName(n) PROVE \A e \in Entries' : e \in Entries
    <3>1. /\ InClear /\ InClear'
          /\ clearing' = [clearing EXCEPT !.left = @ \ {n}, !.symbol = First(clearing.scope, n)]
      BY <2>4 DEF ClearName, InClear
    <3>2. clearing \in Cursor
      BY DEF IInv, TypeOK
    <3>3. clearing'.left = clearing.left \ {n} /\ clearing'.scope = clearing.scope
      BY <3>1, <3>2 DEF Cursor
    <3> QED
      BY <3>1, <3>3 DEF Entries
  <2> QED
    BY <2>1, <2>2, <2>3, <2>4
<1>2. \A e \in Entries' : HeadOf(e)' = HeadOf(e)
  BY DEF HeadOf, First
<1> QED
  BY <1>1, <1>2 DEF NoNewHeads

LEMMA InitLists == Init => Lists
<1> SUFFICES ASSUME Init, NEW e \in Entries PROVE \E m, s : IsList(HeadOf(e), m, s)
  BY DEF Lists
<1> DEFINE file == [kind |-> "file", table |-> EmptyTable]
<1>1. Len(scopes) = 1 /\ scopes[1] = file
  BY DEF Init
<1>2. e \in (1 .. 1) \X Names
  BY <1>1 DEF Entries
<1>3. HeadOf(e) = NULL
  BY <1>1, <1>2, EmptyTableType DEF HeadOf, First
<1> QED
  BY <1>3, EmptyList

LEMMA NextLists == ASSUME IInv, IInv', Lists, [Next]_vars PROVE Lists'
<1>1. CASE UNCHANGED vars
  BY <1>1, SameHeads, QuietLists DEF vars, Quiet
<1>2. ASSUME NEW n \in Names, NEW overload \in BOOLEAN, Refused(n, overload) PROVE Lists'
  BY <1>2, SameHeads, QuietLists DEF Refused, Quiet
<1>3. ASSUME NEW n \in Names, FindOne(n) \/ FindAll(n) PROVE Lists'
  BY <1>3, SameHeads, QuietLists DEF FindOne, FindAll, Quiet
<1>4. ASSUME NEW n \in Names, ClearName(n) PROVE Lists'
  BY <1>4, SameHeads, QuietLists DEF ClearName, Quiet
<1>5. CASE PopScope \/ Destroy
  BY <1>5, SameHeads, QuietLists DEF PopScope, Destroy, Quiet
<1>6. CASE ClearSymbol
  BY <1>6, SameHeads, QuietLists DEF ClearSymbol, Quiet
<1>7. CASE FreeSymbol
  BY <1>7, SameHeads, QuietLists DEF FreeSymbol, Quiet
<1>8. CASE ScopePopped \/ ScopeDestroyed
  BY <1>8, ClearedHeads, QuietLists DEF ScopePopped, ScopeDestroyed, Quiet
<1>9. ASSUME NEW k \in Kinds, PushScope(k) PROVE Lists'
  BY <1>9, PushScopeHeads, QuietLists DEF PushScope, Quiet
<1>10. ASSUME NEW n \in Names, NEW d \in Decls, NEW o \in BOOLEAN, InsertFirst(n, d, o)
       PROVE  Lists'
  <2> SUFFICES ASSUME NEW e \in Entries' PROVE \E m, s : IsList(HeadOf(e), m, s)'
    BY DEF Lists
  <2>1. PICK c :
           /\ \A i \in Entries' : HeadOf(i)' = IF i = <<depth, n>> THEN c ELSE HeadOf(i)
           /\ \A i \in Entries : \A x : x = HeadOf(i) => Keeps(x)
           /\ \E m, s : IsList(c, m, s)'
    BY <1>10, InsertFirstLists
  <2>2. PICK x : x = HeadOf(e)'
    OBVIOUS
  <2>3. e \in Entries
    <3>1. mode = "open" /\ mode' = "open" /\ Entries = (1 .. Len(scopes)) \X Names
      BY <1>10, OpenState DEF InsertFirst
    <3>2. Len(scopes') = Len(scopes)
      <4>1. \E c1 : scopes' = [scopes EXCEPT ![depth].table[n] = c1]
        BY <1>10 DEF InsertFirst
      <4> QED
        BY <4>1, LenProperties DEF IInv, TypeOK
    <3> QED
      BY <3>1, <3>2 DEF Entries
  <2>4. \E m, s : IsList(x, m, s)'
    BY <2>1, <2>2, <2>3 DEF Keeps
  <2>5. PICK m, s : IsList(x, m, s)'
    BY <2>4
  <2>6. IsList(HeadOf(e), m, s)'
    BY <2>2, <2>5 DEF IsList
  <2> QED
    BY <2>6
<1>11. ASSUME NEW n \in Names, NEW d \in Decls, NEW o \in BOOLEAN, InsertOverload(n, d, o)
       PROVE  Lists'
  <2> SUFFICES ASSUME NEW e \in Entries' PROVE \E m, s : IsList(HeadOf(e), m, s)'
    BY DEF Lists
  <2>1. PICK f :
           /\ f = HeadOf(<<depth, n>>)
           /\ \A i \in Entries : i # <<depth, n>> => \A x : x = HeadOf(i) => Keeps(x)
           /\ \E m, t : IsList(f, m + 1, t)'
    BY <1>11, InsertOverloadLists
  <2>2. PICK x : x = HeadOf(e)'
    OBVIOUS
  <2>3. e \in Entries /\ x = HeadOf(e)
    BY <1>11, <2>2 DEF InsertOverload, Entries, InClear, HeadOf, First
  <2>4. \E m, s : IsList(x, m, s)'
    BY <2>1, <2>3 DEF Keeps
  <2>5. PICK m, s : IsList(x, m, s)'
    BY <2>4
  <2>6. IsList(HeadOf(e), m, s)'
    BY <2>2, <2>5 DEF IsList
  <2> QED
    BY <2>6
<1>12. CASE Next
  BY <1>2, <1>3, <1>4, <1>5, <1>6, <1>7, <1>8, <1>9, <1>10, <1>11, <1>12 DEF Next
<1> QED
  BY <1>1, <1>12

-----------------------------------------------------------------------------
(* The open scopes, and what the steps do to them. *)

\* env->scope, or the scope that it becomes.
OpenDepth ==
  IF mode \in {"destroy", "closed"} THEN 0 ELSE IF mode = "pop" THEN depth - 1 ELSE depth

Chains == [p \in Pointer |-> Chain(p)]

View(i) == [kind |-> scopes[i].kind, decls |-> [n \in Names |-> Chains[First(i, n)]]]

OpenAreViews == OpenScopes = [i \in 1 .. OpenDepth |-> View(i)]

LEMMA OpenIsInUse ==
  ASSUME IInv
  PROVE  /\ OpenDepth \in Nat
         /\ \A i \in 1 .. OpenDepth :
              i \in 1 .. Len(scopes) /\ \A n \in Names : <<i, n>> \in Entries
<1>1. depth \in 1 .. Len(scopes) /\ Len(scopes) \in Nat
  BY LenProperties DEF IInv, TypeOK
<1>2. CASE mode \in {"destroy", "closed"}
  BY <1>2 DEF OpenDepth
<1>3. CASE mode = "pop"
  <2>1. clearing.scope = depth /\ depth > 1
    BY <1>3 DEF IInv, ClearingAScope
  <2> QED
    BY <1>1, <1>3, <2>1 DEF OpenDepth, Entries
<1>4. CASE mode = "open"
  BY <1>1, <1>4 DEF OpenDepth, Entries, InClear
<1> QED
  BY <1>2, <1>3, <1>4 DEF IInv, TypeOK

LEMMA OpenScopesAreViews == IInv => OpenAreViews
<1> SUFFICES ASSUME IInv PROVE OpenAreViews
  OBVIOUS
<1>1. ASSUME NEW i \in 1 .. OpenDepth, NEW n \in Names
      PROVE  Chain(First(i, n)) = Chains[First(i, n)]
  <2>1. First(i, n) \in Pointer
    BY OpenIsInUse, TablesArePointers DEF IInv, First
  <2> QED
    BY <2>1 DEF Chains
<1>2. OpenScopes =
        [i \in 1 .. OpenDepth |->
          [kind |-> scopes[i].kind, decls |-> [n \in Names |-> Chain(First(i, n))]]]
  <2>1. CASE mode \in {"destroy", "closed"}
    <3>1. OpenDepth = 0 /\ OpenScopes = <<>>
      BY <2>1 DEF OpenDepth, OpenScopes
    <3> QED
      BY <3>1
  <2>2. CASE mode \notin {"destroy", "closed"}
    BY <2>2 DEF OpenDepth, OpenScopes
  <2> QED
    BY <2>1, <2>2
<1>3. \A i \in 1 .. OpenDepth :
        [n \in Names |-> Chain(First(i, n))] = [n \in Names |-> Chains[First(i, n)]]
  BY <1>1
<1>4. \A i \in 1 .. OpenDepth :
        [kind |-> scopes[i].kind, decls |-> [n \in Names |-> Chain(First(i, n))]] = View(i)
  BY <1>3 DEF View
<1> QED
  BY <1>2, <1>4 DEF OpenAreViews

ChainsAreChain == \A p \in Pointer : Chains[p] = Chain(p)

\* One list that stays.
LEMMA EntryKept ==
  ASSUME IInv, NEW i \in 1 .. OpenDepth, NEW n \in Names, First(i, n)' = First(i, n),
         \A x : x = First(i, n) => Keeps(x)
  PROVE  Chains'[First(i, n)'] = Chains[First(i, n)]
<1>1. PICK x : x = First(i, n)
  OBVIOUS
<1>2. x \in Pointer
  BY <1>1, OpenIsInUse, TablesArePointers DEF IInv, First
<1>3. ChainsAreChain
  BY DEF ChainsAreChain, Chains
<1>4. ChainsAreChain'
  BY DEF ChainsAreChain, Chains, Pointer
<1>5. Chains'[x] = Chain(x)' /\ Chains[x] = Chain(x)
  BY <1>2, <1>3, <1>4 DEF ChainsAreChain, Pointer
<1> QED
  BY <1>1, <1>5 DEF Keeps

\* What a scope declares stays when its table and the lists do.
LEMMA ViewKept ==
  ASSUME IInv, Lists, ListsKeep, NEW i \in 1 .. OpenDepth,
         scopes'[i].kind = scopes[i].kind, scopes'[i].table = scopes[i].table
  PROVE  View(i)' = View(i)
<1>1. ASSUME NEW n \in Names PROVE Chains'[First(i, n)'] = Chains[First(i, n)]
  <2>1. First(i, n)' = First(i, n)
    BY DEF First
  <2>2. \A x : x = First(i, n) => Keeps(x)
    BY OpenIsInUse DEF ListsKeep, HeadOf
  <2> QED
    BY <2>1, <2>2, EntryKept
<1>2. [n \in Names |-> Chains'[First(i, n)']] = [n \in Names |-> Chains[First(i, n)]]
  BY <1>1
<1> QED
  BY <1>2 DEF View

\* A step of the environment, seen as a change of the views.
LEMMA OpenStep ==
  ASSUME IInv, IInv'
  PROVE  /\ OpenScopes = [i \in 1 .. OpenDepth |-> View(i)]
         /\ OpenScopes' = [i \in 1 .. OpenDepth' |-> View(i)']
         /\ OpenDepth \in Nat /\ OpenDepth' \in Nat
<1>1. (IInv => OpenAreViews)'
  BY OpenScopesAreViews, PTL
<1>2. OpenAreViews /\ OpenAreViews'
  BY <1>1, OpenScopesAreViews
<1>3. OpenDepth' \in Nat
  <2>1. PICK d, l, o : d = depth' /\ l = Len(scopes') /\ o = OpenDepth'
    OBVIOUS
  <2>2. d \in 1 .. l /\ l \in Nat
    BY <2>1, LenProperties DEF IInv, TypeOK
  <2>3. o = 0 \/ o = d - 1 \/ o = d
    BY <2>1 DEF OpenDepth
  <2>4. o \in Nat
    BY <2>2, <2>3
  <2> QED
    BY <2>1, <2>4
<1> QED
  BY <1>2, <1>3, OpenIsInUse DEF OpenAreViews

\* The steps of clear_scope and of the end of env_destroy.
LEMMA ClearingIsHidden ==
  ASSUME IInv, IInv', Lists,
         \/ \E n \in Names : ClearName(n)
         \/ ClearSymbol \/ ScopePopped \/ ScopeDestroyed \/ FreeSymbol
  PROVE  OpenScopes' = OpenScopes /\ answer' = answer
<1>1. answer' = answer
  BY DEF ClearName, ClearSymbol, ScopePopped, ScopeDestroyed, FreeSymbol
<1>2. Quiet
  BY DEF Quiet, ClearName, ClearSymbol, ScopePopped, ScopeDestroyed, FreeSymbol
<1>3. ListsKeep
  BY <1>2, QuietKeepsLists
<1>4. depth \in 1 .. Len(scopes) /\ Len(scopes) \in Nat
  BY LenProperties DEF IInv, TypeOK
<1>5. OpenDepth' = OpenDepth
  <2>1. CASE \E n \in Names : ClearName(n)
    BY <2>1 DEF ClearName, OpenDepth
  <2>2. CASE ClearSymbol
    BY <2>2 DEF ClearSymbol, OpenDepth
  <2>3. CASE ScopePopped
    BY <2>3 DEF ScopePopped, OpenDepth
  <2>4. CASE ScopeDestroyed
    BY <2>4 DEF ScopeDestroyed, OpenDepth
  <2>5. CASE FreeSymbol
    BY <2>5 DEF FreeSymbol, OpenDepth
  <2> QED
    BY <2>1, <2>2, <2>3, <2>4, <2>5
<1>6. ASSUME NEW i \in 1 .. OpenDepth
      PROVE  scopes'[i].kind = scopes[i].kind /\ scopes'[i].table = scopes[i].table
  <2>1. CASE UNCHANGED scopes
    BY <2>1
  <2>2. CASE ScopeDestroyed
    <3>1. OpenDepth = 0
      BY <2>2 DEF ScopeDestroyed, OpenDepth
    <3> QED
      BY <3>1
  <2>3. CASE ScopePopped
    <3>1. /\ Cleared /\ UNCHANGED <<symbols, allocated, freeSymbols>>
          /\ clearing'.symbol = NULL /\ ~InClear' /\ mode = "pop"
      BY <2>3 DEF ScopePopped, NotClearing, InClear
    <3>2. \A j \in 1 .. Len(scopes) :
            /\ scopes'[j].table = IF j = clearing.scope THEN EmptyTable ELSE scopes[j].table
            /\ scopes'[j].kind = scopes[j].kind
      BY <3>1, ClearedTable
    <3>3. clearing.scope = depth /\ OpenDepth = depth - 1
      BY <3>1 DEF IInv, ClearingAScope, OpenDepth
    <3>4. i \in 1 .. Len(scopes) /\ i # clearing.scope
      BY <1>4, <3>3
    <3> QED
      BY <3>2, <3>4
  <2> QED
    BY <2>1, <2>2, <2>3 DEF ClearName, ClearSymbol, FreeSymbol
<1>7. \A i \in 1 .. OpenDepth : View(i)' = View(i)
  BY <1>3, <1>6, ViewKept
<1>8. OpenScopes' = OpenScopes
  BY <1>5, <1>7, OpenStep
<1> QED
  BY <1>1, <1>8

Entry == [ast : Decls, overload : BOOLEAN]

\* What the tables lead to.
LEMMA ChainShape ==
  ASSUME IInv, Lists, NEW e \in Entries, NEW c, c = HeadOf(e)
  PROVE  /\ Chain(c) \in Seq(Entry)
         /\ Chain(c) = <<>> <=> c = NULL
         /\ c # NULL => /\ Chain(c)[1] = Content(c)
                        /\ Len(Chain(c)) = 1 <=> symbols[c].next = NULL
<1>1. PICK m, s : IsList(c, m, s)
  BY DEF Lists
<1>2. TypeOK /\ symbols \in [Cells -> Symbol] /\ allocated \subseteq Cells
  BY DEF IInv, TypeOK
<1>3. PICK ch : ch = Chain(c)
  OBVIOUS
<1>4. m \in Nat /\ \A i \in 1 .. m : s[i] \in Cells /\ s[i] # NULL /\ symbols[s[i]].ast \in Decls
  BY <1>1, <1>2, EnvAssumption DEF IsList
<1>5. ch = [k \in 1 .. m |-> Content(s[k])]
  BY <1>1, <1>2, <1>3, ChainOfList DEF ChainsAreLists
<1>6. \A i \in 1 .. m : Content(s[i]) \in Entry
  <2> SUFFICES ASSUME NEW i \in 1 .. m PROVE Content(s[i]) \in Entry
    OBVIOUS
  <2>1. symbols[s[i]] \in Symbol
    BY <1>2, <1>4
  <2>2. symbols[s[i]].overload \in BOOLEAN
    BY <2>1 DEF Symbol
  <2> QED
    BY <1>4, <2>2 DEF Content, Entry
<1>7. ch \in Seq(Entry) /\ Len(ch) = m /\ \A k \in 1 .. m : ch[k] = Content(s[k])
  <2>1. ch \in [1 .. m -> Entry]
    BY <1>5, <1>6
  <2> QED
    BY <1>4, <1>5, <2>1
<1>8. m = 0 <=> c = NULL
  BY <1>1, <1>4 DEF IsList, Nth
<1>9. ch = <<>> <=> m = 0
  BY <1>4, <1>7
<1>10. ASSUME c # NULL PROVE ch[1] = Content(c) /\ (m = 1 <=> symbols[c].next = NULL)
  <2>1. 1 \in 1 .. m /\ c = s[1]
    BY <1>1, <1>4, <1>8, <1>10 DEF IsList, Nth
  <2>2. symbols[c].next = Nth(s, m, 2)
    BY <1>1, <2>1 DEF IsList, Link
  <2>3. Nth(s, m, 2) = NULL <=> m = 1
    BY <1>4, <2>1 DEF Nth
  <2> QED
    BY <1>7, <2>1, <2>2, <2>3
<1> QED
  BY <1>3, <1>7, <1>8, <1>9, <1>10

\* The same, of an open scope.
LEMMA OpenScope ==
  ASSUME IInv, Lists, NEW i \in 1 .. OpenDepth, NEW n \in Names, NEW c, c = First(i, n)
  PROVE  /\ OpenScopes[i] = View(i) /\ View(i).decls[n] = Chain(c)
         /\ Chain(c) \in Seq(Entry)
         /\ Chain(c) = <<>> <=> c = NULL
         /\ c # NULL => /\ Chain(c)[1] = Content(c)
                        /\ Len(Chain(c)) = 1 <=> symbols[c].next = NULL
<1>1. <<i, n>> \in Entries /\ c = HeadOf(<<i, n>>) /\ i \in 1 .. Len(scopes)
  BY OpenIsInUse DEF HeadOf
<1>2. c \in Pointer
  BY <1>1, TablesArePointers DEF IInv, First
<1>3. OpenScopes[i] = View(i)
  BY OpenScopesAreViews DEF OpenAreViews
<1>4. View(i).decls[n] = Chain(c)
  BY <1>2 DEF View, Chains
<1> QED
  BY <1>1, <1>3, <1>4, ChainShape

LEMMA OpenMode ==
  ASSUME IInv, mode = "open"
  PROVE  /\ OpenDepth = depth /\ depth \in Nat /\ depth > 0
         /\ Len(OpenScopes) = depth /\ DOMAIN OpenScopes = 1 .. depth
         /\ OpenScopes # <<>>
<1>1. OpenDepth = depth
  BY DEF OpenDepth
<1>2. PICK d, l : d = depth /\ l = Len(scopes)
  OBVIOUS
<1>3. d \in 1 .. l /\ l \in Nat
  BY <1>2, LenProperties DEF IInv, TypeOK
<1>4. d \in Nat /\ d > 0
  BY <1>3
<1>5. OpenScopes = [i \in 1 .. d |-> View(i)]
  BY <1>1, <1>2, OpenScopesAreViews DEF OpenAreViews
<1>6. Len(OpenScopes) = d /\ DOMAIN OpenScopes = 1 .. d
  BY <1>4, <1>5
<1> QED
  BY <1>1, <1>2, <1>4, <1>6

\* Sequences given as functions.
LEMMA AppendView ==
  ASSUME NEW d \in Nat, NEW v
  PROVE  [i \in 1 .. d + 1 |-> v[i]] = Append([i \in 1 .. d |-> v[i]], v[d + 1])
<1> DEFINE S == {v[i] : i \in 1 .. d + 1}
           s == [i \in 1 .. d |-> v[i]]
           t == [i \in 1 .. d + 1 |-> v[i]]
<1>1. \A i \in 1 .. d + 1 : v[i] \in S
  OBVIOUS
<1> HIDE DEF S
<1>2. s \in Seq(S) /\ Len(s) = d /\ t \in Seq(S) /\ Len(t) = d + 1 /\ v[d + 1] \in S
  BY <1>1
<1>3. /\ \A i \in 1 .. d : s[i] = v[i] /\ t[i] = v[i]
      /\ t[d + 1] = v[d + 1]
  OBVIOUS
<1> HIDE DEF s, t
<1>4. PICK a : a = Append(s, v[d + 1])
  OBVIOUS
<1>5. a \in Seq(S) /\ Len(a) = d + 1 /\ (\A i \in 1 .. d : a[i] = s[i]) /\ a[d + 1] = v[d + 1]
  BY <1>2, <1>4, AppendProperties
<1>6. \A i \in 1 .. d + 1 : a[i] = t[i]
  BY <1>3, <1>5
<1>7. a = t
  BY <1>2, <1>5, <1>6, SeqEqual
<1> QED
  BY <1>4, <1>7 DEF s, t

LEMMA FrontView ==
  ASSUME NEW d \in Nat \ {0}, NEW v
  PROVE  Abstract!Front([i \in 1 .. d |-> v[i]]) = [i \in 1 .. d - 1 |-> v[i]]
<1> DEFINE s == [i \in 1 .. d |-> v[i]]
<1>1. Len(s) = d /\ \A i \in 1 .. d : s[i] = v[i]
  OBVIOUS
<1> HIDE DEF s
<1>2. Abstract!Front(s) = SubSeq(s, 1, d - 1)
  BY <1>1 DEF Abstract!Front
<1>3. SubSeq(s, 1, d - 1) = [i \in 1 .. d - 1 |-> s[i]]
  BY <1>1
<1> QED
  BY <1>1, <1>2, <1>3 DEF s

NoChain == Chain(NULL) = <<>>

LEMMA EmptyChainIsEmpty == TypeOK => NoChain
<1> SUFFICES ASSUME TypeOK PROVE Chain(NULL) = <<>>
  BY DEF NoChain
<1>1. Chain(NULL) = [k \in 1 .. 0 |-> Content(NULL)]
  BY EmptyChain
<1> QED
  BY <1>1

\* An empty scope.
IsEmptyView(i, k) == View(i) = Abstract!Empty(k)

EmptyTablesAreEmpty ==
  \A i \in 1 .. Len(scopes) : \A k :
    scopes[i] = [kind |-> k, table |-> EmptyTable] => IsEmptyView(i, k)

LEMMA EmptyView == TypeOK => EmptyTablesAreEmpty
<1> SUFFICES ASSUME TypeOK, NEW i \in 1 .. Len(scopes), NEW k,
                    scopes[i] = [kind |-> k, table |-> EmptyTable]
             PROVE  View(i) = [kind |-> k, decls |-> [n \in Names |-> <<>>]]
  BY DEF EmptyTablesAreEmpty, IsEmptyView, Abstract!Empty
<1>1. \A n \in Names : First(i, n) = NULL
  BY EmptyTableType DEF First
<1>2. Chains[NULL] = <<>>
  BY EmptyChainIsEmpty DEF Chains, Pointer, NoChain
<1> QED
  BY <1>1, <1>2 DEF View

-----------------------------------------------------------------------------
(* The steps of the environment are steps of its specification. *)

LEMMA InitRefines == Init => Abstract!Init
<1> SUFFICES ASSUME Init PROVE Abstract!Init
  OBVIOUS
<1>1. TypeOK
  BY InitOK DEF IInv
<1>2. Len(scopes) = 1 /\ scopes[1] = [kind |-> "file", table |-> EmptyTable]
  BY DEF Init
<1>3. View(1) = Abstract!Empty("file")
  BY <1>1, <1>2, EmptyView DEF EmptyTablesAreEmpty, IsEmptyView
<1>4. OpenScopes = [i \in 1 .. 1 |-> View(i)]
  BY InitOK, OpenScopesAreViews DEF OpenAreViews, OpenDepth, Init
<1>5. OpenScopes = <<Abstract!Empty("file")>>
  BY <1>3, <1>4
<1>6. answer = Abstract!Nothing
  BY DEF Init, Nothing, Abstract!Nothing
<1> QED
  BY <1>5, <1>6 DEF Abstract!Init

LEMMA PushScopeRefines ==
  ASSUME IInv, IInv', Lists, NEW k \in Kinds, PushScope(k)
  PROVE  Abstract!Enter(k)
<1>1. /\ mode = "open" /\ mode' = "open" /\ depth' = depth + 1
      /\ UNCHANGED <<symbols, allocated>> /\ answer' = Nothing
  BY DEF PushScope
<1>2. PICK d : d = depth
  OBVIOUS
<1>3. d \in Nat /\ OpenDepth = d /\ OpenDepth' = d + 1
  BY <1>1, <1>2, OpenMode DEF OpenDepth
<1>4. /\ \A j \in 1 .. d : scopes'[j] = scopes[j]
      /\ d + 1 \in 1 .. Len(scopes')
      /\ scopes'[d + 1] = [kind |-> k, table |-> EmptyTable]
  BY <1>2, PushedScopes
<1>5. ListsKeep
  BY <1>1, QuietKeepsLists DEF Quiet
<1>6. \A i \in 1 .. d : View(i)' = View(i)
  BY <1>3, <1>4, <1>5, ViewKept
<1>7. View(d + 1)' = Abstract!Empty(k)
  <2>1. (TypeOK => EmptyTablesAreEmpty)'
    BY EmptyView, PTL
  <2>2. IsEmptyView(d + 1, k)'
    BY <1>4, <2>1 DEF EmptyTablesAreEmpty, IInv
  <2>3. Abstract!Empty(k)' = Abstract!Empty(k)
    BY DEF Abstract!Empty
  <2> QED
    BY <2>2, <2>3 DEF IsEmptyView
<1>8. PICK v : v = [i \in 1 .. d + 1 |-> View(i)']
  OBVIOUS
<1>9. OpenScopes' = [i \in 1 .. d + 1 |-> v[i]] /\ v[d + 1] = Abstract!Empty(k)
  BY <1>3, <1>7, <1>8, OpenStep
<1>10. OpenScopes = [i \in 1 .. d |-> v[i]]
  <2>1. \A i \in 1 .. d : i \in 1 .. d + 1 /\ v[i] = View(i)
    BY <1>3, <1>6, <1>8
  <2> QED
    BY <1>3, <2>1, OpenStep
<1>11. OpenScopes' = Append(OpenScopes, Abstract!Empty(k))
  BY <1>3, <1>9, <1>10, AppendView
<1>12. answer' = Abstract!Nothing
  BY <1>1 DEF Nothing, Abstract!Nothing
<1> QED
  BY <1>11, <1>12 DEF Abstract!Enter

LEMMA PopScopeRefines ==
  ASSUME IInv, IInv', Lists, PopScope
  PROVE  Abstract!Leave
<1>1. /\ mode = "open" /\ mode' = "pop" /\ depth > 1
      /\ UNCHANGED <<scopes, depth, symbols, allocated>> /\ answer' = Nothing
  BY DEF PopScope
<1>2. PICK d : d = depth
  OBVIOUS
<1>3. d \in Nat /\ d > 1 /\ OpenDepth = d /\ OpenDepth' = d - 1 /\ Len(OpenScopes) = d
  BY <1>1, <1>2, OpenMode DEF OpenDepth
<1>4. ListsKeep
  BY <1>1, QuietKeepsLists DEF Quiet
<1>5. \A i \in 1 .. d : View(i)' = View(i)
  BY <1>1, <1>3, <1>4, ViewKept
<1>6. PICK v : v = [i \in 1 .. d |-> View(i)]
  OBVIOUS
<1>7. OpenScopes = [i \in 1 .. d |-> v[i]]
  BY <1>3, <1>6, OpenStep
<1>8. OpenScopes' = [i \in 1 .. d - 1 |-> v[i]]
  <2>1. \A i \in 1 .. d - 1 : v[i] = View(i)'
    BY <1>3, <1>5, <1>6
  <2> QED
    BY <1>3, <2>1, OpenStep
<1>9. OpenScopes' = Abstract!Front(OpenScopes)
  BY <1>3, <1>7, <1>8, FrontView
<1>10. answer' = Abstract!Nothing
  BY <1>1 DEF Nothing, Abstract!Nothing
<1> QED
  BY <1>3, <1>9, <1>10 DEF Abstract!Leave

LEMMA DestroyRefines == ASSUME IInv, IInv', Destroy PROVE Abstract!Close
<1>1. mode' = "destroy" /\ answer' = answer
  BY DEF Destroy
<1>2. OpenScopes' = <<>>
  BY <1>1 DEF OpenScopes
<1> QED
  BY <1>1, <1>2 DEF Abstract!Close

\* Answers change no scope.
LEMMA AnswerHidden ==
  ASSUME UNCHANGED <<scopes, depth, symbols, allocated, freeSymbols, mode, clearing>>
  PROVE  OpenScopes' = OpenScopes
  BY DEF OpenScopes, Chain, Walk, Content, First

Greatest(S) == CHOOSE i \in S : \A j \in S : j <= i

LEMMA FindOneRefines ==
  ASSUME IInv, Lists, NEW n \in Names, FindOne(n)
  PROVE  Abstract!FindOne(n)
<1>1. /\ mode = "open"
      /\ UNCHANGED <<scopes, depth, symbols, allocated, freeSymbols, mode, clearing>>
  BY DEF FindOne
<1>2. PICK d, st : d = depth /\ st = OpenScopes
  OBVIOUS
<1>3. d \in Nat /\ OpenDepth = d /\ DOMAIN st = 1 .. d
  BY <1>1, <1>2, OpenMode
<1>4. PICK found : found = {i \in 1 .. d : First(i, n) # NULL}
  OBVIOUS
<1>5. PICK g : g = Greatest(found)
  OBVIOUS
<1>6. PICK c : c = First(g, n)
  OBVIOUS
<1>7. answer' = IF found # {} /\ symbols[c].next = NULL THEN One(symbols[c].ast) ELSE Nothing
  BY <1>2, <1>4, <1>5, <1>6 DEF FindOne, Greatest
<1>8. Abstract!Declaring(n) = found
  <2>1. \A i \in 1 .. d : st[i].decls[n] # <<>> <=> First(i, n) # NULL
    <3> SUFFICES ASSUME NEW i \in 1 .. d PROVE st[i].decls[n] # <<>> <=> First(i, n) # NULL
      OBVIOUS
    <3>1. PICK p : p = First(i, n)
      OBVIOUS
    <3>2. st[i].decls[n] = Chain(p) /\ (Chain(p) = <<>> <=> p = NULL)
      BY <1>2, <1>3, <3>1, OpenScope
    <3> QED
      BY <3>1, <3>2
  <2>2. Abstract!Declaring(n) = {i \in 1 .. d : st[i].decls[n] # <<>>}
    BY <1>2, <1>3 DEF Abstract!Declaring
  <2> QED
    BY <1>4, <2>1, <2>2
<1>9. Abstract!Nearest(n) = g
  BY <1>5, <1>8 DEF Abstract!Nearest, Greatest
<1>10. CASE found = {}
  <2>1. ~Abstract!IsSingle(n)
    BY <1>8, <1>10 DEF Abstract!IsSingle
  <2>2. answer' = Abstract!Nothing
    BY <1>7, <1>10 DEF Nothing, Abstract!Nothing
  <2>3. OpenScopes' = OpenScopes
    BY <1>1, AnswerHidden
  <2> QED
    BY <2>1, <2>2, <2>3 DEF Abstract!FindOne
<1>11. CASE found # {}
  <2>1. g \in found
    <3>1. found \subseteq 1 .. d
      BY <1>4
    <3>2. \E i \in found : \A j \in found : j <= i
      BY <1>3, <1>11, <3>1, LargestElement
    <3> QED
      BY <1>5, <3>2 DEF Greatest
  <2>2. g \in 1 .. d /\ c # NULL
    BY <1>4, <1>6, <2>1
  <2>3. /\ st[g].decls[n] = Chain(c) /\ Chain(c)[1] = Content(c)
        /\ Len(Chain(c)) = 1 <=> symbols[c].next = NULL
    BY <1>2, <1>3, <1>6, <2>2, OpenScope
  <2>4. Abstract!IsSingle(n) <=> symbols[c].next = NULL
    BY <1>2, <1>8, <1>9, <1>11, <2>3 DEF Abstract!IsSingle
  <2>5. st[g].decls[n][1].ast = symbols[c].ast
    BY <2>3 DEF Content
  <2>6. answer' = IF Abstract!IsSingle(n)
                  THEN Abstract!One(OpenScopes[Abstract!Nearest(n)].decls[n][1].ast)
                  ELSE Abstract!Nothing
    <3>1. answer' = IF symbols[c].next = NULL THEN One(symbols[c].ast) ELSE Nothing
      BY <1>7, <1>11
    <3>2. Abstract!One(OpenScopes[Abstract!Nearest(n)].decls[n][1].ast) = One(symbols[c].ast)
      BY <1>2, <1>9, <2>5 DEF One, Abstract!One
    <3>3. Abstract!Nothing = Nothing
      BY DEF Nothing, Abstract!Nothing
    <3> QED
      BY <2>4, <3>1, <3>2, <3>3
  <2>7. OpenScopes' = OpenScopes
    BY <1>1, AnswerHidden
  <2> QED
    BY <2>6, <2>7 DEF Abstract!FindOne
<1> QED
  BY <1>10, <1>11

\* The declaration of an entry.
Ast == [x \in Entry |-> x.ast]

LEMMA AstsAreImage ==
  ASSUME NEW s \in Seq(Entry)
  PROVE  /\ [i \in DOMAIN s |-> s[i].ast] = Image(Ast, s)
         /\ Image(Ast, s) \in Seq(Decls)
<1>1. PICK m : m = Len(s)
  OBVIOUS
<1>2. m \in Nat /\ DOMAIN s = 1 .. m /\ \A i \in 1 .. m : s[i] \in Entry
  BY <1>1, LenProperties, ElementOfSeq
<1>3. \A i \in 1 .. m : Ast[s[i]] = s[i].ast /\ s[i].ast \in Decls
  <2>1. \A x \in Entry : Ast[x] = x.ast /\ x.ast \in Decls
    BY DEF Ast, Entry
  <2> QED
    BY <1>2, <2>1
<1>4. Image(Ast, s) = [i \in 1 .. m |-> s[i].ast]
  BY <1>1, <1>3 DEF Image
<1>5. [i \in 1 .. m |-> s[i].ast] \in Seq(Decls)
  BY <1>2, <1>3
<1> QED
  BY <1>2, <1>4, <1>5

LEMMA InnerFirstPrepends ==
  ASSUME NEW d \in Nat, NEW seqs
  PROVE  \E g : JoinsBack(g, d, seqs) /\ InnerFirst(seqs, d) = g[d]
<1> DEFINE g == CHOOSE g : JoinsBack(g, d, seqs)
<1>1. JoinsBack(g, d, seqs)
  BY PrependExists
<1>2. InnerFirst(seqs, d) = g[d]
  BY DEF InnerFirst, JoinsBack
<1> QED
  BY <1>1, <1>2

LEMMA FlattenJoins ==
  ASSUME NEW X, NEW seqs, NEW n \in Nat \ {0}, Len(seqs) = n, AreSeqs(seqs, n, X)
  PROVE  \E f : Joins(f, n, seqs) /\ Abstract!FlattenSeq(seqs) = f[n]
<1> DEFINE f == CHOOSE f : Joins(f, n, seqs)
<1>1. \E g : Joins(g, n, seqs)
  BY JoinExists DEF AreSeqs
<1>2. Joins(f, n, seqs)
  BY <1>1
<1>3. Abstract!FlattenSeq(seqs) = f[n]
  BY DEF Abstract!FlattenSeq, Joins
<1> QED
  BY <1>2, <1>3

\* Following the scopes from the innermost one, list by list, gives the lists
\* of the scopes one after the other.
LEMMA FindAllRefines ==
  ASSUME IInv, Lists, NEW n \in Names, FindAll(n)
  PROVE  Abstract!FindAll(n)
<1>1. /\ mode = "open" /\ answer' = All(InnerFirst(AstsOf(n), depth))
      /\ UNCHANGED <<scopes, depth, symbols, allocated, freeSymbols, mode, clearing>>
  BY DEF FindAll
<1>2. PICK d, st : d = depth /\ st = OpenScopes
  OBVIOUS
<1>3. d \in Nat \ {0} /\ OpenDepth = d /\ DOMAIN st = 1 .. d /\ Len(st) = d
  BY <1>1, <1>2, OpenMode
<1>4. \A i \in 1 .. d : st[i].decls[n] \in Seq(Entry) /\ st[i].decls[n] = Chain(First(i, n))
  <2> SUFFICES ASSUME NEW i \in 1 .. d
               PROVE  st[i].decls[n] \in Seq(Entry) /\ st[i].decls[n] = Chain(First(i, n))
    OBVIOUS
  <2>1. PICK c : c = First(i, n)
    OBVIOUS
  <2>2. st[i].decls[n] = Chain(c) /\ Chain(c) \in Seq(Entry)
    BY <1>2, <1>3, <2>1, OpenScope
  <2> QED
    BY <2>1, <2>2
<1>5. PICK asts : asts = AstsOf(n)
  OBVIOUS
<1>6. \A i \in 1 .. d : asts[i] = Image(Ast, st[i].decls[n]) /\ asts[i] \in Seq(Decls)
  <2> SUFFICES ASSUME NEW i \in 1 .. d
               PROVE  asts[i] = Image(Ast, st[i].decls[n]) /\ asts[i] \in Seq(Decls)
    OBVIOUS
  <2>1. PICK l : l = Chain(First(i, n))
    OBVIOUS
  <2>2. asts[i] = [k \in DOMAIN l |-> l[k].ast]
    BY <1>2, <1>5, <2>1 DEF AstsOf
  <2>3. l = st[i].decls[n] /\ l \in Seq(Entry)
    BY <1>4, <2>1
  <2> QED
    BY <2>2, <2>3, AstsAreImage
<1>7. PICK rev : rev = [i \in DOMAIN st |-> Abstract!Outward[i].decls[n]]
  BY <1>2
<1>8. \A i \in 1 .. d : d - i + 1 \in 1 .. d /\ rev[i] = st[d - i + 1].decls[n]
  <2>1. Abstract!Outward = [i \in 1 .. d |-> st[(d - i) + 1]]
    BY <1>2, <1>3 DEF Abstract!Outward, Abstract!Reverse
  <2> QED
    BY <1>3, <1>7, <2>1
<1>9. AreSeqs(rev, d, Entry) /\ Len(rev) = d
  <2>1. \A i \in 1 .. d : rev[i] \in Seq(Entry)
    BY <1>4, <1>8
  <2>2. DOMAIN rev = 1 .. d /\ rev = [i \in 1 .. d |-> rev[i]]
    BY <1>3, <1>7
  <2>3. rev \in Seq(Seq(Entry))
    BY <1>3, <2>1, <2>2
  <2>4. Len(rev) = d
    BY <1>3, <2>2, <2>3, LenProperties
  <2> QED
    BY <2>1, <2>4 DEF AreSeqs
<1>10. PICK f : Joins(f, d, rev) /\ Abstract!FlattenSeq(rev) = f[d]
  BY <1>3, <1>9, FlattenJoins
<1>11. PICK images : images = [i \in 1 .. d |-> Image(Ast, rev[i])]
  OBVIOUS
<1>12. \A i \in 1 .. d : images[i] = Image(Ast, rev[i]) /\ images[i] = asts[d - i + 1]
  BY <1>6, <1>8, <1>11
<1>13. AreSeqs(asts, d, Decls) /\ AreSeqs(images, d, Decls)
  BY <1>6, <1>8, <1>12 DEF AreSeqs
<1>14. PICK h : Joins(h, d, images)
  BY <1>3, <1>13, JoinExists DEF AreSeqs
<1>15. h[d] = Image(Ast, f[d])
  <2>1. d \in Nat /\ d \in 1 .. d
    BY <1>3
  <2>2. AreImages(images, d, Ast, rev)
    BY <1>12 DEF AreImages
  <2>3. \A m \in 1 .. d : h[m] = Image(Ast, f[m])
    BY <1>9, <1>10, <1>14, <2>1, <2>2, ImageOfJoin
  <2> QED
    BY <2>1, <2>3
<1>16. PICK g : JoinsBack(g, d, asts) /\ InnerFirst(asts, d) = g[d]
  BY <1>3, InnerFirstPrepends
<1>17. h[d] = g[d]
  BY <1>3, <1>12, <1>13, <1>14, <1>16, JoinOfReverse
<1>18. Abstract!Asts(Abstract!FlattenSeq(rev)) = g[d]
  <2>1. f[d] \in Seq(Entry)
    BY <1>3, <1>9, <1>10, JoinWhole
  <2>2. [i \in DOMAIN f[d] |-> f[d][i].ast] = Image(Ast, f[d])
    BY <2>1, AstsAreImage
  <2>3. Abstract!Asts(f[d]) = Image(Ast, f[d])
    BY <2>2 DEF Abstract!Asts
  <2> QED
    BY <1>10, <1>15, <1>17, <2>3
<1>19. answer' = All(g[d])
  BY <1>1, <1>2, <1>5, <1>16
<1>20. answer' = Abstract!All(Abstract!Asts(Abstract!FlattenSeq(rev)))
  BY <1>18, <1>19 DEF All, Abstract!All
<1>21. OpenScopes' = OpenScopes
  BY <1>1, AnswerHidden
<1> QED
  BY <1>2, <1>7, <1>20, <1>21 DEF Abstract!FindAll

LEMMA OpenTop ==
  ASSUME IInv, Lists, mode = "open", NEW n \in Names, NEW c, c = First(depth, n)
  PROVE  /\ Abstract!Top.decls[n] = Chain(c) /\ Chain(c) \in Seq(Entry)
         /\ Chain(c) = <<>> <=> c = NULL
         /\ c # NULL => Chain(c)[1] = Content(c)
<1>1. PICK d : d = depth
  OBVIOUS
<1>2. d \in 1 .. OpenDepth /\ Len(OpenScopes) = d
  BY <1>1, OpenMode
<1>3. Abstract!Top = OpenScopes[d]
  BY <1>2 DEF Abstract!Top
<1> QED
  BY <1>1, <1>2, <1>3, OpenScope

LEMMA RefusedRefines ==
  ASSUME IInv, Lists, NEW n \in Names, NEW o \in BOOLEAN, Refused(n, o)
  PROVE  \E d \in Decls : Abstract!Declare(n, d, o)
<1>1. /\ mode = "open" /\ answer' = Done(FALSE)
      /\ UNCHANGED <<scopes, depth, symbols, allocated, freeSymbols, mode, clearing>>
  BY DEF Refused
<1>2. PICK c : c = First(depth, n)
  OBVIOUS
<1>3. c # NULL /\ ~(o /\ symbols[c].overload)
  BY <1>2 DEF Refused, Refuses
<1>4. PICK ch : ch = Abstract!Top.decls[n]
  OBVIOUS
<1>5. ch \in Seq(Entry) /\ ch # <<>> /\ ch[1] = Content(c)
  BY <1>1, <1>2, <1>3, <1>4, OpenTop
<1>6. 1 \in DOMAIN ch /\ ch[1].ast \in Decls
  <2>1. 1 \in 1 .. Len(ch)
    BY <1>5, LenProperties, EmptySeq
  <2>2. ch[1] \in Entry /\ 1 \in DOMAIN ch
    BY <1>5, <2>1, ElementOfSeq, LenProperties
  <2> QED
    BY <2>2 DEF Entry
<1>7. ~Abstract!Accepts(n, o)
  <2>1. ~(o /\ ch[1].overload)
    BY <1>3, <1>5 DEF Content
  <2> QED
    BY <1>4, <1>6, <2>1 DEF Abstract!Accepts
<1>8. answer' = Abstract!Done(Abstract!Accepts(n, o))
  <2>1. Abstract!Accepts(n, o) = FALSE
    BY <1>7 DEF Abstract!Accepts
  <2> QED
    BY <1>1, <2>1 DEF Done, Abstract!Done
<1>9. OpenScopes' = OpenScopes
  BY <1>1, AnswerHidden
<1>10. Abstract!Declare(n, ch[1].ast, o)
  BY <1>7, <1>8, <1>9 DEF Abstract!Declare
<1> QED
  BY <1>6, <1>10

\* A declaration changes what the innermost scope declares for one name.
OthersKeep(n) ==
  \A i \in 1 .. depth : \A m \in Names :
    <<i, m>> # <<depth, n>> => Chains'[First(i, m)'] = Chains[First(i, m)]

KindsKeep == \A i \in 1 .. depth : scopes'[i].kind = scopes[i].kind

LEMMA DeclareView ==
  ASSUME IInv, IInv', mode = "open", UNCHANGED <<mode, depth>>, KindsKeep,
         NEW n \in Names, OthersKeep(n),
         NEW new, Chains'[First(depth, n)'] = <<new>> \o Chains[First(depth, n)]
  PROVE  OpenScopes' = [OpenScopes EXCEPT ![Len(OpenScopes)].decls[n] = <<new>> \o @]
<1>1. PICK d, st : d = depth /\ st = OpenScopes
  OBVIOUS
<1>2. d \in Nat /\ d > 0 /\ OpenDepth = d /\ OpenDepth' = d /\ Len(st) = d /\ DOMAIN st = 1 .. d
  BY <1>1, OpenMode DEF OpenDepth
<1>3. st = [i \in 1 .. d |-> View(i)] /\ OpenScopes' = [i \in 1 .. d |-> View(i)']
  BY <1>1, <1>2, OpenStep
<1>4. PICK list : list = <<new>> \o st[d].decls[n]
  OBVIOUS
<1>5. \A i \in 1 .. d : i # d => View(i)' = st[i]
  <2> SUFFICES ASSUME NEW i \in 1 .. d, i # d PROVE View(i)' = View(i)
    BY <1>3
  <2>1. \A m \in Names : Chains'[First(i, m)'] = Chains[First(i, m)]
    BY <1>1 DEF OthersKeep
  <2>2. [m \in Names |-> Chains'[First(i, m)']] = [m \in Names |-> Chains[First(i, m)]]
    BY <2>1
  <2>3. scopes'[i].kind = scopes[i].kind
    BY <1>1 DEF KindsKeep
  <2> QED
    BY <2>2, <2>3 DEF View
<1>6. View(d)' = [st[d] EXCEPT !.decls[n] = list]
  <2>1. d \in 1 .. d /\ st[d] = View(d)
    BY <1>2, <1>3
  <2>2. \A m \in Names : m # n => Chains'[First(d, m)'] = Chains[First(d, m)]
    BY <1>1, <2>1 DEF OthersKeep
  <2>3. Chains'[First(d, n)'] = list
    <3>1. View(d).decls[n] = Chains[First(d, n)]
      BY DEF View
    <3>2. First(depth, n) = First(d, n)
      BY <1>1
    <3>3. First(depth, n)' = First(d, n)'
      BY <1>1 DEF First
    <3> QED
      BY <1>4, <2>1, <3>1, <3>2, <3>3
  <2>4. PICK f : f = [m \in Names |-> Chains[First(d, m)]]
    OBVIOUS
  <2>5. [m \in Names |-> Chains'[First(d, m)']] = [f EXCEPT ![n] = list]
    BY <2>2, <2>3, <2>4
  <2>6. PICK k : k = scopes[d].kind
    OBVIOUS
  <2>7. k = scopes'[d].kind
    BY <1>1, <2>1, <2>6 DEF KindsKeep
  <2>8. View(d)' = [kind |-> k, decls |-> [f EXCEPT ![n] = list]]
    BY <2>5, <2>7 DEF View
  <2>9. st[d] = [kind |-> k, decls |-> f]
    BY <2>1, <2>4, <2>6 DEF View
  <2> QED
    BY <2>8, <2>9
<1>7. OpenScopes' = [st EXCEPT ![d] = [st[d] EXCEPT !.decls[n] = list]]
  <2>1. OpenScopes' = [i \in 1 .. d |-> IF i = d THEN [st[d] EXCEPT !.decls[n] = list] ELSE st[i]]
    BY <1>3, <1>5, <1>6
  <2> QED
    BY <1>2, <2>1
<1> QED
  BY <1>1, <1>2, <1>4, <1>7

LEMMA PrependView ==
  ASSUME NEW X, NEW x \in X, NEW s \in Seq(X), NEW t \in Seq(X), Len(t) = Len(s) + 1,
         t[1] = x, \A i \in 2 .. Len(s) + 1 : t[i] = s[i - 1]
  PROVE  t = <<x>> \o s
<1>1. PICK u : u = <<x>> \o s
  OBVIOUS
<1>2. Len(u) = Len(s) + 1 /\ u[1] = x /\ \A i \in 2 .. Len(s) + 1 : u[i] = s[i - 1]
  BY <1>1, PrependElements
<1>3. u \in Seq(X)
  <2>1. <<x>> \in Seq(X)
    OBVIOUS
  <2> QED
    BY <1>1, <2>1, ConcatProperties
<1>4. Len(s) \in Nat
  BY LenProperties
<1>5. \A i \in 1 .. Len(t) : t[i] = u[i]
  <2>1. \A i \in 1 .. Len(t) : i = 1 \/ i \in 2 .. Len(s) + 1
    BY <1>4
  <2> QED
    BY <1>2, <2>1
<1>6. t = u
  BY <1>2, <1>3, <1>5, SeqEqual
<1> QED
  BY <1>1, <1>6

LEMMA InsertFirstRefines ==
  ASSUME IInv, IInv', Lists, NEW n \in Names, NEW d \in Decls, NEW o \in BOOLEAN,
         InsertFirst(n, d, o)
  PROVE  Abstract!Declare(n, d, o)
<1>1. /\ mode = "open" /\ UNCHANGED <<mode, depth>> /\ First(depth, n) = NULL
      /\ answer' = Done(TRUE)
      /\ TypeOK /\ TypeOK' /\ depth \in 1 .. Len(scopes) /\ depth \in 1 .. OpenDepth
  BY OpenMode DEF InsertFirst, IInv, TypeOK
<1> DEFINE new == [ast |-> d, overload |-> o]
<1>2. PICK c :
        /\ \A e \in Entries' : HeadOf(e)' = IF e = <<depth, n>> THEN c ELSE HeadOf(e)
        /\ \A e \in Entries : \A x : x = HeadOf(e) => Keeps(x)
        /\ Chain(c)' = [k \in 1 .. 1 |-> [ast |-> d, overload |-> o]]
  BY InsertFirstLists
<1>3. /\ Len(scopes') = Len(scopes)
      /\ \A j \in 1 .. Len(scopes) : scopes'[j].kind = scopes[j].kind
  <2>1. PICK a \in Cells : scopes' = [scopes EXCEPT ![depth].table[n] = a]
    BY DEF InsertFirst
  <2> DEFINE tab == [scopes[depth].table EXCEPT ![n] = a]
  <2>2. tab \in [Names -> Pointer]
    BY <1>1, TablesArePointers DEF Pointer
  <2>3. scopes' = WithTable(depth, tab)
    BY <2>1 DEF WithTable
  <2> HIDE DEF tab
  <2> QED
    BY <1>1, <2>2, <2>3, TableUpdate
<1>4. KindsKeep
  <2>1. \A j \in 1 .. depth : j \in 1 .. Len(scopes)
    BY <1>1, OpenMode, OpenIsInUse
  <2> QED
    BY <1>3, <2>1 DEF KindsKeep
<1>5. Entries' = Entries
  BY <1>1, <1>3 DEF Entries, InClear
<1>6. \A i \in 1 .. OpenDepth : \A m \in Names :
        /\ <<i, m>> \in Entries /\ HeadOf(<<i, m>>) = First(i, m)
        /\ First(i, m)' = IF <<i, m>> = <<depth, n>> THEN c ELSE First(i, m)
  <2> SUFFICES ASSUME NEW i \in 1 .. OpenDepth, NEW m \in Names
               PROVE  /\ <<i, m>> \in Entries /\ HeadOf(<<i, m>>) = First(i, m)
                      /\ First(i, m)' = IF <<i, m>> = <<depth, n>> THEN c ELSE First(i, m)
    OBVIOUS
  <2>1. <<i, m>> \in Entries
    BY OpenIsInUse
  <2>2. HeadOf(<<i, m>>) = First(i, m) /\ HeadOf(<<i, m>>)' = First(i, m)'
    BY DEF HeadOf, First
  <2> QED
    BY <1>2, <1>5, <2>1, <2>2
<1>7. OthersKeep(n)
  <2> SUFFICES ASSUME NEW i \in 1 .. depth, NEW m \in Names, <<i, m>> # <<depth, n>>
               PROVE  Chains'[First(i, m)'] = Chains[First(i, m)]
    BY DEF OthersKeep
  <2>1. i \in 1 .. OpenDepth
    BY <1>1, OpenMode
  <2>2. First(i, m)' = First(i, m) /\ <<i, m>> \in Entries /\ HeadOf(<<i, m>>) = First(i, m)
    BY <1>6, <2>1
  <2>3. \A x : x = First(i, m) => Keeps(x)
    BY <1>2, <2>2
  <2> QED
    BY <2>1, <2>2, <2>3, EntryKept
<1>8. Chains[First(depth, n)] = <<>> /\ Chain(NULL) = <<>>
  <2>1. Chain(NULL) = <<>>
    BY <1>1, EmptyChainIsEmpty DEF NoChain
  <2> QED
    BY <1>1, <2>1 DEF Chains, Pointer
<1>9. Chains'[First(depth, n)'] = <<new>> \o Chains[First(depth, n)]
  <2>1. First(depth, n)' = c
    BY <1>1, <1>6 DEF First
  <2>2. c \in Pointer
    <3>1. scopes'[depth].table \in [Names -> Pointer]
      <4>1. \A i \in 1 .. Len(scopes') : scopes'[i] \in Scope
        BY <1>1, ElementOfSeq DEF TypeOK
      <4>2. scopes'[depth] \in Scope
        BY <1>1, <1>3, <4>1
      <4> QED
        BY <4>2 DEF Scope
    <3> QED
      BY <1>1, <2>1, <3>1 DEF First
  <2>3. Chains'[c] = Chain(c)'
    <3>1. ChainsAreChain'
      BY DEF ChainsAreChain, Chains, Pointer
    <3> QED
      BY <2>2, <3>1 DEF ChainsAreChain, Pointer
  <2>4. Chain(c)' = <<new>>
    BY <1>2
  <2>5. <<new>> \o <<>> = <<new>>
    OBVIOUS
  <2> QED
    BY <1>8, <2>1, <2>3, <2>4, <2>5
<1> HIDE DEF new
<1>10. OpenScopes' = [OpenScopes EXCEPT ![Len(OpenScopes)].decls[n] = <<new>> \o @]
  BY <1>1, <1>4, <1>7, <1>9, DeclareView
<1>11. Abstract!Accepts(n, o)
  <2>1. Abstract!Top.decls[n] = <<>>
    BY <1>1, <1>8, OpenTop
  <2> QED
    BY <2>1 DEF Abstract!Accepts
<1>12. answer' = Abstract!Done(Abstract!Accepts(n, o))
  <2>1. Abstract!Accepts(n, o) = TRUE
    BY <1>11 DEF Abstract!Accepts
  <2> QED
    BY <1>1, <2>1 DEF Done, Abstract!Done
<1> QED
  BY <1>10, <1>11, <1>12 DEF Abstract!Declare, new

LEMMA InsertOverloadRefines ==
  ASSUME IInv, IInv', Lists, NEW n \in Names, NEW d \in Decls, NEW o \in BOOLEAN,
         InsertOverload(n, d, o)
  PROVE  Abstract!Declare(n, d, o)
<1>1. /\ mode = "open" /\ UNCHANGED <<mode, depth, scopes>> /\ answer' = Done(TRUE)
      /\ TypeOK /\ TypeOK' /\ depth \in 1 .. OpenDepth
  BY OpenMode DEF InsertOverload, IInv
<1> DEFINE new == [ast |-> d, overload |-> o]
<1>2. PICK f, m, s :
        /\ f = HeadOf(<<depth, n>>) /\ IsList(f, m, s) /\ m # 0
        /\ \A k \in 1 .. m : o /\ symbols[s[k]].overload
        /\ \A e \in Entries : e # <<depth, n>> => \A x : x = HeadOf(e) => Keeps(x)
        /\ Chain(f)' = [k \in 1 .. m + 1 |-> IF k = 1 THEN [ast |-> d, overload |-> o]
                                             ELSE Content(s[k - 1])]
  BY InsertOverloadLists
<1>3. f = First(depth, n)
  BY <1>2 DEF HeadOf
<1>4. KindsKeep
  BY <1>1 DEF KindsKeep
<1>5. OthersKeep(n)
  <2> SUFFICES ASSUME NEW i \in 1 .. depth, NEW k \in Names, <<i, k>> # <<depth, n>>
               PROVE  Chains'[First(i, k)'] = Chains[First(i, k)]
    BY DEF OthersKeep
  <2>1. i \in 1 .. OpenDepth
    BY <1>1, OpenMode
  <2>2. First(i, k)' = First(i, k) /\ <<i, k>> \in Entries /\ HeadOf(<<i, k>>) = First(i, k)
    BY <1>1, <2>1, OpenIsInUse DEF First, HeadOf
  <2>3. \A x : x = First(i, k) => Keeps(x)
    BY <1>2, <2>2
  <2> QED
    BY <2>1, <2>2, <2>3, EntryKept
<1>6. PICK ch : ch = Chain(f)
  OBVIOUS
<1>7. /\ m \in Nat /\ ch = [k \in 1 .. m |-> Content(s[k])]
      /\ ch \in Seq(Entry) /\ Abstract!Top.decls[n] = ch
  BY <1>1, <1>2, <1>3, <1>6, ChainOfList, OpenTop DEF ChainsAreLists, IsList
<1>8. Len(ch) = m /\ \A k \in 1 .. m : ch[k] = Content(s[k])
  <2>1. ch = [k \in 1 .. m |-> ch[k]]
    BY <1>7
  <2> QED
    BY <1>7, <2>1, LenProperties
<1>9. f \in Pointer /\ Chains[f] = ch /\ Chains'[f] = Chain(f)'
  <2>1. f \in Pointer
    BY <1>1, <1>3, OpenIsInUse, TablesArePointers DEF First
  <2>2. ChainsAreChain
    BY DEF ChainsAreChain, Chains
  <2>3. ChainsAreChain'
    BY DEF ChainsAreChain, Chains, Pointer
  <2> QED
    BY <1>6, <2>1, <2>2, <2>3 DEF ChainsAreChain, Pointer
<1>10. Chain(f)' = <<new>> \o ch
  <2>1. PICK t : t = Chain(f)'
    OBVIOUS
  <2>2. new \in Entry
    BY DEF Entry
  <2>3. t = [k \in 1 .. m + 1 |-> IF k = 1 THEN new ELSE Content(s[k - 1])]
    BY <1>2, <2>1
  <2> HIDE DEF new
  <2>4. \A k \in 2 .. m + 1 : k - 1 \in 1 .. m /\ k # 1 /\ k \in 1 .. m + 1
    BY <1>7
  <2>5. t[1] = new /\ \A k \in 2 .. m + 1 : t[k] = ch[k - 1]
    BY <1>7, <1>8, <2>3, <2>4
  <2>6. t \in Seq(Entry) /\ Len(t) = m + 1
    <3>1. \A k \in 1 .. m : ch[k] \in Entry
      BY <1>7, <1>8, ElementOfSeq
    <3>2. \A k \in 1 .. m + 1 : t[k] \in Entry
      <4>1. \A k \in 1 .. m + 1 : k = 1 \/ k \in 2 .. m + 1
        BY <1>7
      <4> QED
        BY <2>2, <2>4, <2>5, <3>1, <4>1
    <3>3. t = [k \in 1 .. m + 1 |-> t[k]]
      BY <2>3
    <3>4. t \in [1 .. m + 1 -> Entry]
      BY <3>2, <3>3
    <3> QED
      BY <1>7, <3>3, <3>4
  <2> QED
    BY <1>7, <1>8, <2>1, <2>2, <2>5, <2>6, PrependView
<1>11. Chains'[First(depth, n)'] = <<new>> \o Chains[First(depth, n)]
  <2>1. First(depth, n)' = f
    BY <1>1, <1>3 DEF First
  <2> QED
    BY <1>3, <1>9, <1>10, <2>1
<1> HIDE DEF new
<1>12. OpenScopes' = [OpenScopes EXCEPT ![Len(OpenScopes)].decls[n] = <<new>> \o @]
  BY <1>1, <1>4, <1>5, <1>11, DeclareView
<1>13. Abstract!Accepts(n, o)
  <2>1. \A k \in 1 .. m : o /\ ch[k].overload
    BY <1>2, <1>8 DEF Content
  <2>2. DOMAIN ch = 1 .. m
    BY <1>7
  <2> QED
    BY <1>7, <2>1, <2>2 DEF Abstract!Accepts
<1>14. answer' = Abstract!Done(Abstract!Accepts(n, o))
  <2>1. Abstract!Accepts(n, o) = TRUE
    BY <1>13 DEF Abstract!Accepts
  <2> QED
    BY <1>1, <2>1 DEF Done, Abstract!Done
<1> QED
  BY <1>12, <1>13, <1>14 DEF Abstract!Declare, new

LEMMA StepRefines ==
  ASSUME IInv, IInv', Lists, [Next]_vars
  PROVE  [Abstract!Next]_(Abstract!vars)
<1> DEFINE Same == OpenScopes' = OpenScopes /\ answer' = answer
<1>1. Same => UNCHANGED Abstract!vars
  BY DEF Abstract!vars
<1>2. CASE UNCHANGED vars
  BY <1>1, <1>2, AnswerHidden DEF vars
<1>3. CASE (\E n \in Names : ClearName(n)) \/ ClearSymbol \/ ScopePopped \/ ScopeDestroyed \/ FreeSymbol
  BY <1>1, <1>3, ClearingIsHidden
<1>4. ASSUME mode = "open",
             \/ \E k \in Kinds : PushScope(k)
             \/ PopScope \/ Destroy
             \/ \E n \in Names, overload \in BOOLEAN : Refused(n, overload)
             \/ \E n \in Names, d \in Decls, overload \in BOOLEAN :
                  InsertFirst(n, d, overload) \/ InsertOverload(n, d, overload)
             \/ \E n \in Names : FindOne(n) \/ FindAll(n)
      PROVE  Abstract!Next
  <2>1. OpenScopes # <<>>
    BY <1>4, OpenMode
  <2>2. ASSUME NEW k \in Kinds, PushScope(k) PROVE Abstract!Next
    BY <2>1, <2>2, PushScopeRefines DEF Abstract!Next
  <2>3. CASE PopScope
    BY <2>1, <2>3, PopScopeRefines DEF Abstract!Next
  <2>4. CASE Destroy
    BY <2>1, <2>4, DestroyRefines DEF Abstract!Next
  <2>5. ASSUME NEW n \in Names, NEW o \in BOOLEAN, Refused(n, o) PROVE Abstract!Next
    <3>1. \E d \in Decls : Abstract!Declare(n, d, o)
      BY <2>5, RefusedRefines
    <3> QED
      BY <2>1, <3>1 DEF Abstract!Next
  <2>6. ASSUME NEW n \in Names, NEW d \in Decls, NEW o \in BOOLEAN,
               InsertFirst(n, d, o) \/ InsertOverload(n, d, o)
        PROVE  Abstract!Next
    <3>1. Abstract!Declare(n, d, o)
      BY <2>6, InsertFirstRefines, InsertOverloadRefines
    <3> QED
      BY <2>1, <3>1 DEF Abstract!Next
  <2>7. ASSUME NEW n \in Names, FindOne(n) \/ FindAll(n) PROVE Abstract!Next
    <3>1. Abstract!FindOne(n) \/ Abstract!FindAll(n)
      BY <2>7, FindOneRefines, FindAllRefines
    <3> QED
      BY <2>1, <3>1 DEF Abstract!Next
  <2> QED
    BY <1>4, <2>2, <2>3, <2>4, <2>5, <2>6, <2>7
<1>5. CASE Next
  <2>1. ASSUME NEW n \in Names, NEW d \in Decls, NEW o \in BOOLEAN,
               InsertFirst(n, d, o) \/ InsertOverload(n, d, o)
        PROVE  mode = "open"
    BY <2>1 DEF InsertFirst, InsertOverload
  <2>2. ASSUME NEW n \in Names, NEW o \in BOOLEAN, Refused(n, o) PROVE mode = "open"
    BY <2>2 DEF Refused
  <2>3. ASSUME NEW n \in Names, FindOne(n) \/ FindAll(n) PROVE mode = "open"
    BY <2>3 DEF FindOne, FindAll
  <2>4. ASSUME NEW k \in Kinds, PushScope(k) PROVE mode = "open"
    BY <2>4 DEF PushScope
  <2>5. PopScope \/ Destroy => mode = "open"
    BY DEF PopScope, Destroy
  <2> QED
    BY <1>3, <1>4, <1>5, <2>1, <2>2, <2>3, <2>4, <2>5, Zenon DEF Next
<1> QED
  BY <1>2, <1>5

\* For all names, declarations and addresses, and any number of scopes.
THEOREM Invariance == Spec => []IInv
<1>1. Init => IInv
  BY InitOK
<1>2. IInv /\ [Next]_vars => IInv'
  BY StepKeeps
<1> QED
  BY <1>1, <1>2, PTL DEF Spec

\* No symbol is in two lists: popping a scope never frees the symbols of
\* another, and no symbol is freed twice.
THEOREM ListsAreDisjoint == Spec => []NoSharedSymbols
<1>1. IInv => NoSharedSymbols
  BY DEF IInv
<1> QED
  BY <1>1, Invariance, PTL

\* Every list from a table ends and meets no symbol twice, so that following its
\* links, as env_find_all_symbols and clear_scope do, comes to an end; all its
\* symbols allow overloads or none does, so that env_insert_symbol may look at
\* the first one only.
THEOREM ListsEnd == Spec => []Lists
<1>1. Init => IInv /\ Lists
  BY InitOK, InitLists
<1>2. IInv /\ Lists /\ [Next]_vars => IInv' /\ Lists'
  BY StepKeeps, NextLists
<1> QED
  BY <1>1, <1>2, PTL DEF Spec

\* The environment is a stack of scopes: lookups find what was declared last in
\* the innermost scope, a refusal changes nothing, popping a scope restores the
\* declarations that were visible before, and clearing is not seen.
THEOREM EnvironmentImplementsScopes == Spec => ImplementsScopeSpec
<1>1. Init => Abstract!Init
  BY InitRefines
<1>2. IInv /\ IInv' /\ Lists /\ [Next]_vars => [Abstract!Next]_(Abstract!vars)
  BY StepRefines
<1> QED
  BY <1>1, <1>2, Invariance, ListsEnd, PTL DEF Spec, ImplementsScopeSpec, Abstract!Spec
=============================================================================
