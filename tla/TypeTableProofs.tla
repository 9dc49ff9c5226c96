-------------------------- MODULE TypeTableProofs --------------------------
(***************************************************************************)
(* Proofs about TypeTable: a registered type is found by its description   *)
(* for every hash, what the checker was given stays what it asked for, and *)
(* the table implements Interning. A type is registered after those it is  *)
(* made of, so that types alike all the way down are one pointer.          *)
(***************************************************************************)
EXTENDS TypeTable, SeqLemmas

-----------------------------------------------------------------------------
(* Descriptions. *)

\* What the checker asks for has one of seven tags, which tells what else it has.
LEMMA DescriptionKinds ==
  ASSUME NEW d \in Descriptions
  PROVE  /\ d.tag \in {"error", "prim", "shader", "closure", "array", "func", "compound"}
         /\ d.tag = "func" => d \in Funcs(Seq(ParamsOf(Pointers)))
         /\ d.tag = "compound" => d \in Compounds(Seq(Pointers))
<1>1. \A e \in Plain : e.tag \in {"error", "prim", "shader", "closure", "array"}
  BY DEF Plain, ErrorType
<1>2. \A P : (\A e \in Funcs(P) : e.tag = "func") /\ (\A e \in Compounds(P) : e.tag = "compound")
  BY DEF Funcs, Compounds
<1> QED
  BY <1>1, <1>2 DEF Descriptions

LEMMA StoredBodies ==
  ASSUME TypeOK, NEW a \in Pointers
  PROVE  types[a].is \in Plain \cup Funcs(DOMAIN paramArrays) \cup Compounds(DOMAIN elemArrays) \cup Structs
<1> DEFINE B == Plain \cup Funcs(DOMAIN paramArrays) \cup Compounds(DOMAIN elemArrays) \cup Structs
<1>1. types \in Seq([id : Nat, is : B]) /\ a \in 1 .. Len(types)
  BY DEF TypeOK, Pointers
<1> HIDE DEF B
<1>2. types[a] \in [id : Nat, is : B]
  BY <1>1, ElementOfSeq
<1>3. types[a].is \in B
  BY <1>2
<1> QED
  BY <1>3 DEF B

\* A registered type is described by what was asked for, or is a structure.
LEMMA DescribedTypes ==
  ASSUME TypeOK, NEW a \in Pointers
  PROVE  /\ IsStruct(a) => Described(a) = StructType(a)
         /\ ~IsStruct(a) => Described(a) \in Descriptions
<1> DEFINE t == types[a].is
<1>1. t \in Plain \cup Funcs(DOMAIN paramArrays) \cup Compounds(DOMAIN elemArrays) \cup Structs
  BY StoredBodies
<1>2. CASE t \in Plain
  <2>1. t.tag \in {"error", "prim", "shader", "closure", "array"}
    BY <1>2 DEF Plain, ErrorType
  <2>2. Described(a) = t /\ ~IsStruct(a)
    BY <2>1 DEF Described, IsStruct
  <2> QED
    BY <1>2, <2>2 DEF Descriptions
<1>3. CASE t \in Funcs(DOMAIN paramArrays)
  <2>1. /\ t.tag = "func" /\ t.ret \in Pointers /\ t.params \in DOMAIN paramArrays
        /\ t.hasEllipsis \in BOOLEAN
    BY <1>3 DEF Funcs
  <2>2. t.params # Null /\ paramArrays[t.params] \in Seq(ParamsOf(Pointers))
    <3>1. paramArrays \in Seq(Seq(ParamsOf(Pointers)))
      BY DEF TypeOK
    <3>2. t.params \in 1 .. Len(paramArrays)
      BY <2>1, <3>1
    <3> QED
      BY <3>1, <3>2, ElementOfSeq DEF Null
  <2>3. Described(a) = FuncType(t.ret, paramArrays[t.params], t.hasEllipsis)
    BY <2>1, <2>2 DEF Described, Contents
  <2>4. Described(a) \in Funcs(Seq(ParamsOf(Pointers)))
    BY <2>1, <2>2, <2>3 DEF Funcs, FuncType
  <2> QED
    BY <2>1, <2>4 DEF Descriptions, IsStruct
<1>4. CASE t \in Compounds(DOMAIN elemArrays)
  <2>1. t.tag = "compound" /\ t.elems \in DOMAIN elemArrays
    BY <1>4 DEF Compounds
  <2>2. t.elems # Null /\ elemArrays[t.elems] \in Seq(Pointers)
    <3>1. elemArrays \in Seq(Seq(Pointers))
      BY DEF TypeOK
    <3>2. t.elems \in 1 .. Len(elemArrays)
      BY <2>1, <3>1
    <3> QED
      BY <3>1, <3>2, ElementOfSeq DEF Null
  <2>3. Described(a) = CompoundType(elemArrays[t.elems])
    BY <2>1, <2>2 DEF Described, Contents
  <2> QED
    BY <2>1, <2>2, <2>3 DEF Descriptions, IsStruct, Compounds, CompoundType
<1>5. CASE t \in Structs
  <2>1. t.tag = "struct"
    BY <1>5 DEF Structs
  <2> QED
    BY <2>1 DEF Described, IsStruct
<1> QED
  BY <1>1, <1>2, <1>3, <1>4, <1>5

\* The array of a registered type is in the pool.
LEMMA StoredArrays ==
  ASSUME TypeOK, NEW a \in Pointers
  PROVE  /\ types[a].is.tag = "func" => types[a].is.params \in DOMAIN paramArrays
         /\ types[a].is.tag = "compound" => types[a].is.elems \in DOMAIN elemArrays
<1> DEFINE t == types[a].is
           B == Plain \cup Funcs(DOMAIN paramArrays) \cup Compounds(DOMAIN elemArrays) \cup Structs
<1>1. t \in B
  BY StoredBodies
<1>2. /\ \A d \in Plain : d.tag \notin {"func", "compound"}
      /\ \A d \in Structs : d.tag \notin {"func", "compound"}
      /\ \A d \in Funcs(DOMAIN paramArrays) : d.tag = "func" /\ d.params \in DOMAIN paramArrays
      /\ \A d \in Compounds(DOMAIN elemArrays) : d.tag = "compound" /\ d.elems \in DOMAIN elemArrays
  BY DEF Plain, Structs, Funcs, Compounds, ErrorType
<1> QED
  BY <1>1, <1>2

\* Comparing two descriptions part by part is comparing them.
LEMMA SameIsEqual ==
  ASSUME NEW d \in Descriptions, NEW e \in Descriptions
  PROVE  Same(d, e) <=> d = e
<1>1. Same(d, d)
  BY DescriptionKinds DEF Same, SameParams, SameElems
<1>2. SUFFICES ASSUME Same(d, e) PROVE d = e
  BY <1>1
<1>3. d.tag = e.tag
  BY <1>2 DEF Same
<1>4. CASE d.tag \in {"error", "prim", "shader", "closure", "array"}
  <2>1. d \in Plain /\ e \in Plain
    BY <1>3, <1>4 DEF Descriptions, Funcs, Compounds
  <2> QED
    BY <1>2, <1>4, <2>1 DEF Plain, ErrorType, Same
<1>5. CASE d.tag = "func"
  <2>1. d \in Funcs(Seq(ParamsOf(Pointers))) /\ e \in Funcs(Seq(ParamsOf(Pointers)))
    BY <1>3, <1>5, DescriptionKinds
  <2>2. /\ d.params \in Seq(ParamsOf(Pointers)) /\ e.params \in Seq(ParamsOf(Pointers))
        /\ d = FuncType(d.ret, d.params, d.hasEllipsis)
        /\ e = FuncType(e.ret, e.params, e.hasEllipsis)
    BY <2>1 DEF Funcs, FuncType
  <2>3. Len(d.params) = Len(e.params) /\ \A k \in DOMAIN d.params : d.params[k] = e.params[k]
    BY <1>2, <1>5 DEF Same, SameParams
  <2>4. d.params = e.params
    BY <2>2, <2>3, SeqEqual
  <2>5. d.ret = e.ret /\ d.hasEllipsis = e.hasEllipsis
    BY <1>2, <1>5 DEF Same
  <2> QED
    BY <2>2, <2>4, <2>5
<1>6. CASE d.tag = "compound"
  <2>1. d \in Compounds(Seq(Pointers)) /\ e \in Compounds(Seq(Pointers))
    BY <1>3, <1>6, DescriptionKinds
  <2>2. /\ d.elems \in Seq(Pointers) /\ e.elems \in Seq(Pointers)
        /\ d = CompoundType(d.elems) /\ e = CompoundType(e.elems)
    BY <2>1 DEF Compounds, CompoundType
  <2>3. Len(d.elems) = Len(e.elems) /\ \A k \in DOMAIN d.elems : d.elems[k] = e.elems[k]
    BY <1>2, <1>6 DEF Same, SameElems
  <2>4. d.elems = e.elems
    BY <2>2, <2>3, SeqEqual
  <2> QED
    BY <2>2, <2>4
<1> QED
  BY <1>4, <1>5, <1>6, DescriptionKinds

\* The same for registered types, structures included.
LEMMA SameTypeIsEqual ==
  ASSUME TypeOK, NEW a \in Pointers, NEW d, d \in Descriptions \/ \E b \in Pointers : d = StructType(b)
  PROVE  Same(Described(a), d) <=> Described(a) = d
<1>1. CASE IsStruct(a)
  <2>1. Described(a) = StructType(a)
    BY <1>1, DescribedTypes
  <2>2. CASE d \in Descriptions
    BY <2>1, <2>2, DescriptionKinds DEF Same, StructType
  <2>3. CASE \E b \in Pointers : d = StructType(b)
    BY <2>1, <2>3 DEF Same, StructType
  <2> QED
    BY <2>2, <2>3
<1>2. CASE ~IsStruct(a)
  <2>1. Described(a) \in Descriptions
    BY <1>2, DescribedTypes
  <2>2. CASE d \in Descriptions
    BY <2>1, <2>2, SameIsEqual
  <2>3. CASE \E b \in Pointers : d = StructType(b)
    BY <2>1, <2>3, DescriptionKinds DEF Same, StructType
  <2> QED
    BY <2>2, <2>3
<1> QED
  BY <1>1, <1>2

\* A lookup finds the types that are the description: hashing never hides one.
LEMMA FoundAreEqual ==
  ASSUME TypeOK, TableInOrder,
         NEW d, d \in Descriptions \/ \E b \in Pointers : d = StructType(b)
  PROVE  Found(d) = {a \in Pointers : Described(a) = d}
<1>1. ASSUME NEW a \in Pointers, Described(a) = d
      PROVE  \E k \in DOMAIN table : table[k] = [type |-> a, hash |-> HashOf(d)]
  BY <1>1 DEF TableInOrder
<1>2. \A a \in Pointers : Same(Described(a), d) <=> Described(a) = d
  BY SameTypeIsEqual
<1> QED
  BY <1>1, <1>2 DEF Found

LEMMA RegisteredFound ==
  ASSUME IInv
  PROVE  RegisteredAreFound
<1> SUFFICES ASSUME NEW a \in Pointers PROVE Found(Described(a)) = {a}
  BY DEF RegisteredAreFound
<1>1. Described(a) \in Descriptions \/ \E b \in Pointers : Described(a) = StructType(b)
  BY DescribedTypes DEF IInv
<1>2. Found(Described(a)) = {b \in Pointers : Described(b) = Described(a)}
  BY <1>1, FoundAreEqual DEF IInv
<1> QED
  BY <1>2 DEF IInv, NoneTwice

-----------------------------------------------------------------------------
(* What stays when the memory pool grows and fields are set. *)

\* Registered types keep their identifiers and what they are, but for the fields of
\* structures, and arrays stay.
Kept ==
  /\ \A a \in Pointers : /\ a \in Pointers' /\ types'[a].id = types[a].id
                         /\ \/ types'[a].is = types[a].is
                            \/ IsStruct(a) /\ types'[a].is.tag = "struct"
  /\ \A p \in DOMAIN paramArrays : p \in DOMAIN paramArrays' /\ paramArrays'[p] = paramArrays[p]
  /\ \A p \in DOMAIN elemArrays : p \in DOMAIN elemArrays' /\ elemArrays'[p] = elemArrays[p]

LEMMA KeptDescriptions ==
  ASSUME TypeOK, Kept
  PROVE  /\ \A a \in Pointers : Described(a)' = Described(a) /\ IsStruct(a)' = IsStruct(a)
         /\ Descriptions \subseteq Descriptions'
<1>1. Pointers \subseteq Pointers'
  BY DEF Kept
<1>2. ASSUME NEW a \in Pointers PROVE Described(a)' = Described(a) /\ IsStruct(a)' = IsStruct(a)
  <2>1. CASE IsStruct(a)
    <3>1. types'[a].is.tag = "struct" /\ types[a].is.tag = "struct"
      BY <2>1 DEF Kept, IsStruct
    <3> QED
      BY <3>1 DEF Described, IsStruct
  <2>2. CASE ~IsStruct(a)
    <3>1. types'[a].is = types[a].is
      BY <2>2 DEF Kept
    <3>2. types[a].is.tag = "func" => paramArrays'[types[a].is.params] = paramArrays[types[a].is.params]
      BY StoredArrays DEF Kept
    <3>3. types[a].is.tag = "compound" => elemArrays'[types[a].is.elems] = elemArrays[types[a].is.elems]
      BY StoredArrays DEF Kept
    <3>4. IsStruct(a)' = IsStruct(a)
      BY <3>1 DEF IsStruct
    <3>5. Described(a)' = Described(a)
      BY <3>1, <3>2, <3>3 DEF Described, Contents
    <3> QED
      BY <3>4, <3>5
  <2> QED
    BY <2>1, <2>2
<1>3. Descriptions \subseteq Descriptions'
  <2>1. Seq(Pointers) \subseteq Seq(Pointers')
    BY <1>1, SeqMonotonic
  <2>2. ParamsOf(Pointers) \subseteq ParamsOf(Pointers')
    BY <1>1 DEF ParamsOf
  <2>3. Seq(ParamsOf(Pointers)) \subseteq Seq(ParamsOf(Pointers'))
    BY <2>2, SeqMonotonic
  <2>4. Plain \subseteq Plain'
    BY <1>1 DEF Plain
  <2>5. Funcs(Seq(ParamsOf(Pointers))) \subseteq Funcs(Seq(ParamsOf(Pointers)))'
    BY <1>1, <2>3 DEF Funcs, ParamsOf
  <2>6. Compounds(Seq(Pointers)) \subseteq Compounds(Seq(Pointers))'
    BY <2>1 DEF Compounds
  <2> QED
    BY <2>4, <2>5, <2>6 DEF Descriptions
<1> QED
  BY <1>2, <1>3

LEMMA KeptHashes ==
  ASSUME TypeOK, Kept, NEW d, d \in Descriptions \/ \E b \in Pointers : d = StructType(b)
  PROVE  HashOf(d)' = HashOf(d)
<1>1. \A a \in Pointers : Identifier(a)' = Identifier(a)
  BY DEF Kept, Identifier
<1>2. CASE \E b \in Pointers : d = StructType(b)
  BY <1>1, <1>2 DEF HashOf, HashOfStruct, StructType
<1>3. CASE d \in Descriptions
  <2>1. CASE d \in Plain
    BY <1>1, <2>1 DEF Plain, ErrorType, HashOf
  <2>2. CASE d \in Funcs(Seq(ParamsOf(Pointers)))
    <3>1. d.tag = "func" /\ d.ret \in Pointers /\ d.params \in Seq(ParamsOf(Pointers))
      BY <2>2 DEF Funcs
    <3>2. \A k \in DOMAIN d.params : d.params[k].type \in Pointers
      <4>1. \A k \in DOMAIN d.params : d.params[k] \in ParamsOf(Pointers)
        BY <3>1, ElementOfSeq
      <4> QED
        BY <4>1 DEF ParamsOf
    <3>3. [k \in DOMAIN d.params |-> Identifier(d.params[k].type)]' = [k \in DOMAIN d.params |-> Identifier(d.params[k].type)]
      BY <1>1, <3>2
    <3> QED
      BY <1>1, <3>1, <3>3 DEF HashOf
  <2>3. CASE d \in Compounds(Seq(Pointers))
    <3>1. d.tag = "compound" /\ d.elems \in Seq(Pointers)
      BY <2>3 DEF Compounds
    <3>2. \A k \in DOMAIN d.elems : d.elems[k] \in Pointers
      BY <3>1, ElementOfSeq
    <3>3. Identifiers(d.elems)' = Identifiers(d.elems)
      BY <1>1, <3>2 DEF Identifiers
    <3> QED
      BY <3>1, <3>3 DEF HashOf
  <2> QED
    BY <1>3, <2>1, <2>2, <2>3 DEF Descriptions
<1> QED
  BY <1>2, <1>3

-----------------------------------------------------------------------------
(* A type is registered. *)

LEMMA TableLength ==
  ASSUME IInv
  PROVE  /\ Len(types) \in Nat /\ Len(table) = Len(types) /\ DOMAIN table = Pointers
         /\ \E E : table \in Seq(E)
<1> DEFINE n == Len(types)
           E == {table[a] : a \in Pointers}
<1>1. n \in Nat /\ Pointers = 1 .. n
  BY LenProperties DEF IInv, TypeOK, Pointers
<1>2. table = [a \in 1 .. n |-> table[a]] /\ \A a \in 1 .. n : table[a] \in E
  BY <1>1 DEF IInv, TableInOrder
<1>3. DOMAIN table = 1 .. n
  BY <1>1 DEF IInv, TableInOrder
<1> HIDE DEF E
<1>4. table \in Seq(E)
  BY <1>1, <1>2, IsASeq
<1> QED
  BY <1>1, <1>3, <1>4, LenProperties

\* What a new type adds: a pointer, and a body that is a description with its
\* array in the pool, or a structure without fields.
LEMMA Registered ==
  ASSUME IInv, NEW t, NEW hash, Register(t, hash),
         paramArrays' = paramArrays \/ \E x : paramArrays' = Append(paramArrays, x),
         elemArrays' = elemArrays \/ \E x : elemArrays' = Append(elemArrays, x)
  PROVE  /\ Len(types) \in Nat /\ Pointers' = Pointers \cup {Len(types) + 1}
         /\ Len(types) + 1 \notin Pointers /\ Len(types) + 1 # Null
         /\ \A a \in Pointers : types'[a] = types[a]
         /\ types'[Len(types) + 1] = [id |-> Len(types), is |-> t]
         /\ Len(types') = Len(types) + 1
         /\ Kept
         /\ \A a \in Pointers : table'[a] = table[a]
         /\ table'[Len(types) + 1] = [type |-> Len(types) + 1, hash |-> hash]
         /\ DOMAIN table' = Pointers'
<1> DEFINE n == Len(types)
           B == Plain \cup Funcs(DOMAIN paramArrays) \cup Compounds(DOMAIN elemArrays) \cup Structs
           R == [id : Nat, is : B]
<1>1. types \in Seq(R)
  BY DEF IInv, TypeOK
<1> HIDE DEF R, B
<1>2. n \in Nat /\ Pointers = 1 .. n
  BY <1>1 DEF Pointers
<1>3. Len(table) = n /\ DOMAIN table = Pointers
  BY TableLength
<1>3a. PICK E : table \in Seq(E)
  BY TableLength
<1>4. /\ types' = Append(types, [id |-> n, is |-> t])
      /\ table' = Append(table, [type |-> n + 1, hash |-> hash])
  BY <1>3 DEF Register
<1>5. /\ Len(types') = n + 1 /\ types'[n + 1] = [id |-> n, is |-> t]
      /\ \A a \in 1 .. n : types'[a] = types[a]
  <2>1. types \in Seq(R \cup {[id |-> n, is |-> t]})
    BY <1>1, SeqMonotonic
  <2> QED
    BY <1>2, <1>4, <2>1, AppendProperties
<1>6. /\ Len(table') = n + 1 /\ DOMAIN table' = 1 .. n + 1
      /\ table'[n + 1] = [type |-> n + 1, hash |-> hash]
      /\ \A a \in 1 .. n : table'[a] = table[a]
  <2>1. table \in Seq(E \cup {[type |-> n + 1, hash |-> hash]})
    BY <1>3a, SeqMonotonic
  <2> QED
    BY <1>2, <1>3, <1>4, <2>1, AppendProperties
<1>7. Pointers' = Pointers \cup {n + 1} /\ n + 1 \notin Pointers /\ n + 1 # Null
  BY <1>2, <1>5 DEF Pointers, Null
<1>8. Kept
  <2>1. ASSUME NEW pool, NEW pool1, NEW S, pool \in Seq(S), pool1 = pool \/ \E x : pool1 = Append(pool, x)
        PROVE  \A p \in DOMAIN pool : p \in DOMAIN pool1 /\ pool1[p] = pool[p]
    <3>1. CASE pool1 = pool
      BY <3>1
    <3>2. ASSUME NEW x, pool1 = Append(pool, x)
          PROVE  \A p \in DOMAIN pool : p \in DOMAIN pool1 /\ pool1[p] = pool[p]
      <4>1. pool \in Seq(S \cup {x})
        BY <2>1, SeqMonotonic
      <4>2. Len(pool1) = Len(pool) + 1 /\ \A p \in 1 .. Len(pool) : pool1[p] = pool[p]
        BY <3>2, <4>1, AppendProperties
      <4>3. pool1 \in Seq(S \cup {x})
        BY <3>2, <4>1, AppendProperties
      <4> QED
        BY <4>1, <4>2, <4>3
    <3> QED
      BY <2>1, <3>1, <3>2
  <2>2. paramArrays \in Seq(Seq(ParamsOf(Pointers))) /\ elemArrays \in Seq(Seq(Pointers))
    BY DEF IInv, TypeOK
  <2>3. \A p \in DOMAIN paramArrays : p \in DOMAIN paramArrays' /\ paramArrays'[p] = paramArrays[p]
    BY <2>1, <2>2
  <2>4. \A p \in DOMAIN elemArrays : p \in DOMAIN elemArrays' /\ elemArrays'[p] = elemArrays[p]
    BY <2>1, <2>2
  <2> QED
    BY <1>2, <1>5, <1>7, <2>3, <2>4 DEF Kept
<1> QED
  BY <1>2, <1>3, <1>5, <1>6, <1>7, <1>8

\* The bodies that a registered type may have.
Bodies == Plain \cup Funcs(DOMAIN paramArrays) \cup Compounds(DOMAIN elemArrays) \cup Structs

\* The sets that bodies and arrays are of only grow.
LEMMA KeptBodies ==
  ASSUME TypeOK, Kept
  PROVE  /\ Bodies \subseteq Bodies'
         /\ Seq(Pointers) \subseteq Seq(Pointers)'
         /\ Seq(ParamsOf(Pointers)) \subseteq Seq(ParamsOf(Pointers))'
<1>1. /\ Pointers \subseteq Pointers' /\ DOMAIN paramArrays \subseteq DOMAIN paramArrays'
      /\ DOMAIN elemArrays \subseteq DOMAIN elemArrays'
  BY DEF Kept
<1>2. Seq(Pointers) \subseteq Seq(Pointers')
  BY <1>1, SeqMonotonic
<1>3. Seq(ParamsOf(Pointers)) \subseteq Seq(ParamsOf(Pointers'))
  <2>1. ParamsOf(Pointers) \subseteq ParamsOf(Pointers')
    BY <1>1 DEF ParamsOf
  <2> QED
    BY <2>1, SeqMonotonic
<1>4. Seq(Pointers \cup {Null}) \subseteq Seq(Pointers' \cup {Null})
  BY <1>1, SeqMonotonic
<1>5. Plain \subseteq Plain' /\ Structs \subseteq Structs'
  BY <1>1, <1>4 DEF Plain, Structs
<1>6. /\ Funcs(DOMAIN paramArrays) \subseteq Funcs(DOMAIN paramArrays)'
      /\ Compounds(DOMAIN elemArrays) \subseteq Compounds(DOMAIN elemArrays)'
  BY <1>1 DEF Funcs, Compounds
<1> QED
  BY <1>2, <1>3, <1>5, <1>6 DEF Bodies, ParamsOf

\* Arrays that stay are arrays of the types there are then.
LEMMA KeptArrays ==
  ASSUME TypeOK, Kept, UNCHANGED <<paramArrays, elemArrays>>
  PROVE  /\ paramArrays' \in Seq(Seq(ParamsOf(Pointers)))'
         /\ elemArrays' \in Seq(Seq(Pointers))'
<1>1. paramArrays \in Seq(Seq(ParamsOf(Pointers))) /\ elemArrays \in Seq(Seq(Pointers))
  BY DEF TypeOK
<1>2. /\ Seq(Pointers) \subseteq Seq(Pointers)'
      /\ Seq(ParamsOf(Pointers)) \subseteq Seq(ParamsOf(Pointers))'
  BY KeptBodies
<1>3. /\ Seq(Seq(Pointers)) \subseteq Seq(Seq(Pointers)')
      /\ Seq(Seq(ParamsOf(Pointers))) \subseteq Seq(Seq(ParamsOf(Pointers))')
  BY <1>2, SeqMonotonic
<1> QED
  BY <1>1, <1>3

\* The new type is what was asked for.
LEMMA AddedAsAsked ==
  ASSUME IInv, NEW d \in Descriptions, Add(d), NEW n, n = Len(types)
  PROVE  \E t : /\ Register(t, HashOf(d))
                /\ paramArrays' = paramArrays \/ \E x : paramArrays' = Append(paramArrays, x)
                /\ elemArrays' = elemArrays \/ \E x : elemArrays' = Append(elemArrays, x)
                /\ t \in Bodies' /\ t.tag # "struct"
                /\ paramArrays' \in Seq(Seq(ParamsOf(Pointers)))'
                /\ elemArrays' \in Seq(Seq(Pointers))'
                /\ types'[n + 1].is = t => Described(n + 1)' = d
<1>1. paramArrays \in Seq(Seq(ParamsOf(Pointers))) /\ elemArrays \in Seq(Seq(Pointers))
  BY DEF IInv, TypeOK
<1>2. ASSUME NEW t, NEW hash, Register(t, hash),
             paramArrays' = paramArrays \/ \E x : paramArrays' = Append(paramArrays, x),
             elemArrays' = elemArrays \/ \E x : elemArrays' = Append(elemArrays, x)
      PROVE  /\ Bodies \subseteq Bodies'
             /\ paramArrays \in Seq(Seq(ParamsOf(Pointers)))' /\ elemArrays \in Seq(Seq(Pointers))'
             /\ Descriptions \subseteq Descriptions'
             /\ Seq(Pointers) \subseteq Seq(Pointers)'
             /\ Seq(ParamsOf(Pointers)) \subseteq Seq(ParamsOf(Pointers))'
  <2>1. Kept
    BY <1>2, Registered
  <2>2. /\ Bodies \subseteq Bodies'
        /\ Seq(Pointers) \subseteq Seq(Pointers)'
        /\ Seq(ParamsOf(Pointers)) \subseteq Seq(ParamsOf(Pointers))'
    BY <2>1, KeptBodies DEF IInv
  <2>3. /\ Seq(Seq(Pointers)) \subseteq Seq(Seq(Pointers)')
        /\ Seq(Seq(ParamsOf(Pointers))) \subseteq Seq(Seq(ParamsOf(Pointers))')
    BY <2>2, SeqMonotonic
  <2> QED
    BY <1>1, <2>1, <2>2, <2>3, KeptDescriptions DEF IInv
<1>3. CASE d.tag = "func"
  <2>0. PICK t : t = [d EXCEPT !.params = Len(paramArrays) + 1]
    OBVIOUS
  <2>1. /\ Register(t, HashOf(d)) /\ paramArrays' = Append(paramArrays, d.params)
        /\ elemArrays' = elemArrays
    BY <1>3, <2>0 DEF Add, CopiedArray
  <2>2. d \in Funcs(Seq(ParamsOf(Pointers)))
    BY <1>3, DescriptionKinds
  <2>3. /\ d.ret \in Pointers /\ d.hasEllipsis \in BOOLEAN /\ d.params \in Seq(ParamsOf(Pointers))
        /\ d = FuncType(d.ret, d.params, d.hasEllipsis)
    BY <2>2 DEF Funcs, FuncType
  <2>4. t = FuncType(d.ret, Len(paramArrays) + 1, d.hasEllipsis)
    BY <2>0, <2>3 DEF FuncType
  <2>5. /\ paramArrays' \in Seq(Seq(ParamsOf(Pointers)))
        /\ Len(paramArrays') = Len(paramArrays) + 1 /\ Len(paramArrays) \in Nat
        /\ paramArrays'[Len(paramArrays) + 1] = d.params
    BY <1>1, <2>1, <2>3, AppendProperties, LenProperties
  <2>6. /\ Bodies \subseteq Bodies' /\ elemArrays \in Seq(Seq(Pointers))'
        /\ Seq(ParamsOf(Pointers)) \subseteq Seq(ParamsOf(Pointers))'
    BY <1>2, <2>1
  <2>7. paramArrays' \in Seq(Seq(ParamsOf(Pointers)))'
    <3>1. Seq(Seq(ParamsOf(Pointers))) \subseteq Seq(Seq(ParamsOf(Pointers))')
      BY <2>6, SeqMonotonic
    <3> QED
      BY <2>5, <3>1
  <2>8. t \in Bodies' /\ t.tag = "func" /\ t.params = Len(paramArrays) + 1
    <3>1. d.ret \in Pointers'
      BY <2>1, <2>3, Registered
    <3>2. Len(paramArrays) + 1 \in DOMAIN paramArrays'
      BY <2>5
    <3> QED
      BY <2>3, <2>4, <3>1, <3>2 DEF Bodies, Funcs, FuncType
  <2>9. types'[n + 1].is = t => Described(n + 1)' = d
    <3> SUFFICES ASSUME types'[n + 1].is = t PROVE Described(n + 1)' = d
      OBVIOUS
    <3>1. Described(n + 1)' = FuncType(d.ret, d.params, d.hasEllipsis)
      <4>1. t.tag = "func" /\ t.ret = d.ret /\ t.hasEllipsis = d.hasEllipsis
        BY <2>4 DEF FuncType
      <4>2. Contents(paramArrays, t.params)' = d.params
        BY <2>5, <2>8 DEF Contents, Null
      <4> QED
        BY <4>1, <4>2 DEF Described
    <3> QED
      BY <2>3, <3>1
  <2> QED
    BY <2>1, <2>6, <2>7, <2>8, <2>9
<1>4. CASE d.tag = "compound"
  <2>0. PICK t : t = [d EXCEPT !.elems = Len(elemArrays) + 1]
    OBVIOUS
  <2>1. /\ Register(t, HashOf(d)) /\ elemArrays' = Append(elemArrays, d.elems)
        /\ paramArrays' = paramArrays
    BY <1>4, <2>0 DEF Add, CopiedArray
  <2>2. d \in Compounds(Seq(Pointers))
    BY <1>4, DescriptionKinds
  <2>3. d.elems \in Seq(Pointers) /\ d = CompoundType(d.elems)
    BY <2>2 DEF Compounds, CompoundType
  <2>4. t = CompoundType(Len(elemArrays) + 1)
    BY <2>0, <2>3 DEF CompoundType
  <2>5. /\ elemArrays' \in Seq(Seq(Pointers))
        /\ Len(elemArrays') = Len(elemArrays) + 1 /\ Len(elemArrays) \in Nat
        /\ elemArrays'[Len(elemArrays) + 1] = d.elems
    BY <1>1, <2>1, <2>3, AppendProperties, LenProperties
  <2>6. /\ Bodies \subseteq Bodies' /\ paramArrays \in Seq(Seq(ParamsOf(Pointers)))'
        /\ Seq(Pointers) \subseteq Seq(Pointers)'
    BY <1>2, <2>1
  <2>7. elemArrays' \in Seq(Seq(Pointers))'
    <3>1. Seq(Seq(Pointers)) \subseteq Seq(Seq(Pointers)')
      BY <2>6, SeqMonotonic
    <3> QED
      BY <2>5, <3>1
  <2>8. t \in Bodies' /\ t.tag = "compound" /\ t.elems = Len(elemArrays) + 1
    <3>1. Len(elemArrays) + 1 \in DOMAIN elemArrays'
      BY <2>5
    <3> QED
      BY <2>4, <3>1 DEF Bodies, Compounds, CompoundType
  <2>9. types'[n + 1].is = t => Described(n + 1)' = d
    <3> SUFFICES ASSUME types'[n + 1].is = t PROVE Described(n + 1)' = d
      OBVIOUS
    <3>1. Contents(elemArrays, t.elems)' = d.elems
      BY <2>5, <2>8 DEF Contents, Null
    <3>2. Described(n + 1)' = CompoundType(d.elems)
      BY <2>8, <3>1 DEF Described
    <3> QED
      BY <2>3, <3>2
  <2> QED
    BY <2>1, <2>6, <2>7, <2>8, <2>9
<1>5. CASE d.tag \notin {"func", "compound"}
  <2>1. Register(d, HashOf(d)) /\ paramArrays' = paramArrays /\ elemArrays' = elemArrays
    BY <1>5 DEF Add
  <2>2. d \in Plain /\ d.tag # "struct"
    BY <1>5, DescriptionKinds DEF Descriptions, Funcs, Compounds
  <2>3. d \in Bodies'
    BY <1>2, <2>1, <2>2 DEF Bodies
  <2>4. types'[n + 1].is = d => Described(n + 1)' = d
    BY <1>5, <2>2 DEF Described
  <2> QED
    BY <1>2, <2>1, <2>2, <2>3, <2>4
<1> QED
  BY <1>3, <1>4, <1>5

\* Whatever is registered, as long as it is new, the table stays in order.
LEMMA RegisterKeeps ==
  ASSUME IInv, NEW n, n = Len(types), NEW t, NEW hash, NEW d, Register(t, hash),
         paramArrays' = paramArrays \/ \E x : paramArrays' = Append(paramArrays, x),
         elemArrays' = elemArrays \/ \E x : elemArrays' = Append(elemArrays, x),
         t \in Bodies',
         paramArrays' \in Seq(Seq(ParamsOf(Pointers)))',
         elemArrays' \in Seq(Seq(Pointers))',
         Described(n + 1)' = d,
         hash = HashOf(d)',
         \A a \in Pointers : Described(a) # d
  PROVE  /\ types' \in Seq([id : Nat, is : Bodies])'
         /\ \A a \in Pointers' : types'[a].id = a - 1
         /\ TableInOrder' /\ NoneTwice'
<1>1. /\ n \in Nat /\ Pointers' = Pointers \cup {n + 1} /\ n + 1 \notin Pointers
      /\ \A a \in Pointers : types'[a] = types[a]
      /\ types'[n + 1] = [id |-> n, is |-> t]
      /\ Kept
      /\ \A a \in Pointers : table'[a] = table[a]
      /\ table'[n + 1] = [type |-> n + 1, hash |-> hash]
      /\ DOMAIN table' = Pointers'
  BY Registered
<1>2. /\ Bodies \subseteq Bodies'
      /\ \A a \in Pointers : Described(a)' = Described(a)
  BY <1>1, KeptBodies, KeptDescriptions DEF IInv
<1>3. types' \in Seq([id : Nat, is : Bodies'])
  <2>1. types \in Seq([id : Nat, is : Bodies])
    BY DEF IInv, TypeOK, Bodies
  <2>2. [id : Nat, is : Bodies] \subseteq [id : Nat, is : Bodies']
    BY <1>2
  <2>3. types \in Seq([id : Nat, is : Bodies'])
    BY <2>1, <2>2, SeqMonotonic
  <2>4. [id |-> n, is |-> t] \in [id : Nat, is : Bodies']
    BY <1>1
  <2>5. types' = Append(types, [id |-> n, is |-> t])
    <3>1. Len(table) = n
      BY TableLength
    <3> QED
      BY <3>1 DEF Register
  <2> QED
    BY <2>3, <2>4, <2>5, AppendProperties
<1>4. \A a \in Pointers' : types'[a].id = a - 1
  <2>1. \A a \in Pointers : types'[a].id = a - 1
    BY <1>1 DEF IInv, TypeOK
  <2>2. types'[n + 1].id = (n + 1) - 1
    BY <1>1
  <2> QED
    BY <1>1, <2>1, <2>2
<1>5. TableInOrder'
  <2>1. ASSUME NEW a \in Pointers
        PROVE  table'[a] = [type |-> a, hash |-> HashOf(Described(a))']
    <3>1. PICK e : e = Described(a)
      OBVIOUS
    <3>2. e \in Descriptions \/ \E b \in Pointers : e = StructType(b)
      BY <3>1, DescribedTypes DEF IInv
    <3>3. HashOf(e)' = HashOf(e)
      BY <1>1, <3>2, KeptHashes DEF IInv
    <3>4. table[a] = [type |-> a, hash |-> HashOf(e)]
      BY <3>1 DEF IInv, TableInOrder
    <3>5. Described(a)' = e
      BY <1>2, <3>1
    <3> QED
      BY <1>1, <3>3, <3>4, <3>5
  <2>2. table'[n + 1] = [type |-> n + 1, hash |-> HashOf(Described(n + 1))']
    BY <1>1
  <2>3. \A a \in Pointers' : table'[a] = [type |-> a, hash |-> HashOf(Described(a))']
    BY <1>1, <2>1, <2>2
  <2>4. table' = [a \in DOMAIN table' |-> table'[a]]
    BY DEF Register
  <2> QED
    BY <1>1, <2>3, <2>4 DEF TableInOrder
<1>6. NoneTwice'
  BY <1>1, <1>2 DEF IInv, NoneTwice
<1> QED
  BY <1>3, <1>4, <1>5, <1>6

-----------------------------------------------------------------------------
(* Steps. *)

\* A new description is answered with a pointer that stands for nothing yet.
LEMMA AddKeeps ==
  ASSUME IInv, NEW d \in Descriptions, Found(d) = {}, Add(d),
         UNCHANGED <<struct, fieldCount>> \/ struct' = Null
  PROVE  IInv' /\ Interned!Next
<1>0. PICK n : n = Len(types)
  OBVIOUS
<1>1. PICK t : /\ Register(t, HashOf(d))
               /\ paramArrays' = paramArrays \/ \E x : paramArrays' = Append(paramArrays, x)
               /\ elemArrays' = elemArrays \/ \E x : elemArrays' = Append(elemArrays, x)
               /\ t \in Bodies' /\ t.tag # "struct"
               /\ paramArrays' \in Seq(Seq(ParamsOf(Pointers)))'
               /\ elemArrays' \in Seq(Seq(Pointers))'
               /\ types'[n + 1].is = t => Described(n + 1)' = d
  BY <1>0, AddedAsAsked
<1>2. /\ n \in Nat /\ Pointers' = Pointers \cup {n + 1} /\ n + 1 \notin Pointers
      /\ n + 1 # Null
      /\ \A a \in Pointers : types'[a] = types[a]
      /\ types'[n + 1] = [id |-> n, is |-> t]
      /\ Kept
  BY <1>0, <1>1, Registered
<1>3. Described(n + 1)' = d /\ ~IsStruct(n + 1)'
  <2>1. types'[n + 1].is = t
    BY <1>2
  <2> QED
    BY <1>1, <2>1 DEF IsStruct
<1>4. HashOf(d)' = HashOf(d)
  BY <1>2, KeptHashes DEF IInv
<1>5. \A a \in Pointers : Described(a) # d
  BY FoundAreEqual DEF IInv
<1>6. /\ types' \in Seq([id : Nat, is : Bodies])'
      /\ \A a \in Pointers' : types'[a].id = a - 1
      /\ TableInOrder' /\ NoneTwice'
  <2>1. PICK hash : hash = HashOf(d)
    OBVIOUS
  <2>2. Register(t, hash) /\ hash = HashOf(d)'
    BY <1>1, <1>4, <2>1
  <2> QED
    BY <1>0, <1>1, <1>3, <1>5, <2>2, RegisterKeeps
<1>7. \A a \in Pointers : Described(a)' = Described(a) /\ IsStruct(a)' = IsStruct(a)
  BY <1>2, KeptDescriptions DEF IInv
<1>8. answers' = answers \cup {<<d, n + 1>>}
  BY <1>0 DEF Add
<1>9. TypeOK'
  <2>1. struct' # Null => struct' \in Pointers' /\ IsStruct(struct)'
    BY <1>2 DEF IInv, TypeOK, IsStruct
  <2>2. \A p \in answers' : p = <<p[1], p[2]>> /\ p[2] \in Pointers' /\ ~IsStruct(p[2])'
    BY <1>2, <1>3, <1>7, <1>8 DEF IInv, TypeOK
  <2> QED
    BY <1>1, <1>6, <2>1, <2>2 DEF TypeOK, Bodies
<1>10. TypesWereAskedFor'
  BY <1>2, <1>3, <1>7, <1>8 DEF IInv, TypesWereAskedFor
<1>11. AnswersHold'
  BY <1>2, <1>3, <1>7, <1>8 DEF IInv, AnswersHold
<1>13. FieldsAreSet'
  BY <1>2 DEF IInv, TypeOK, FieldsAreSet, Fields
<1>12. Interned!Next
  <2> DEFINE S == {a \in Pointers : IsStruct(a)}
  <2>1. {a \in Pointers : IsStruct(a)}' = S
    BY <1>2, <1>3, <1>7
  <2>2. n + 1 \notin S \cup {p[2] : p \in answers}
    BY <1>2 DEF IInv, TypeOK
  <2>3. ~\E q \in answers : q[1] = d
    BY <1>5 DEF IInv, AnswersHold
  <2>4. Interned!Intern(<<d, n + 1>>)
    BY <1>8, <2>1, <2>2, <2>3 DEF Interned!Intern, Interned!Taken
  <2> QED
    BY <1>8, <2>4 DEF Interned!Next
<1> QED
  BY <1>6, <1>9, <1>10, <1>11, <1>12, <1>13 DEF IInv

\* A description that is in the set is answered with the pointer it has.
LEMMA InsertKeeps ==
  ASSUME IInv, NEW d \in Descriptions, Insert(d), UNCHANGED <<struct, fieldCount>> \/ struct' = Null
  PROVE  IInv' /\ [Interned!Next]_(Interned!vars)
<1>1. CASE Found(d) = {} /\ Add(d)
  BY <1>1, AddKeeps
<1>2. ASSUME NEW a \in Found(d), answers' = answers \cup {<<d, a>>},
             UNCHANGED <<types, paramArrays, elemArrays, table>>
      PROVE  IInv' /\ UNCHANGED Interned!vars
  <2>1. a \in Pointers /\ Described(a) = d
    BY FoundAreEqual DEF IInv
  <2>2. ~IsStruct(a)
    BY <2>1, DescribedTypes, DescriptionKinds DEF IInv, StructType
  <2>3. answers' = answers
    BY <1>2, <2>1, <2>2 DEF IInv, TypesWereAskedFor
  <2>4. /\ Pointers' = Pointers
        /\ \A b : Described(b)' = Described(b) /\ IsStruct(b)' = IsStruct(b)
        /\ \A e : HashOf(e)' = HashOf(e)
    BY <1>2 DEF Pointers, Described, IsStruct, Contents, HashOf, HashOfStruct, Identifiers, Identifier
  <2>5. TypeOK'
    BY <1>2, <2>3, <2>4 DEF IInv, TypeOK, Plain, Funcs, Compounds, Structs, ParamsOf, Pointers, IsStruct
  <2>6. FieldsAreSet'
    BY <1>2, <2>4 DEF IInv, FieldsAreSet, Fields
  <2>7. TableInOrder' /\ TypesWereAskedFor' /\ AnswersHold' /\ NoneTwice'
    BY <1>2, <2>3, <2>4 DEF IInv, TableInOrder, TypesWereAskedFor, AnswersHold, NoneTwice
  <2>8. UNCHANGED Interned!vars
    BY <2>3, <2>4 DEF Interned!vars
  <2> QED
    BY <2>5, <2>6, <2>7, <2>8 DEF IInv
<1> QED
  BY <1>1, <1>2 DEF Insert

\* A structure is a type of its own, whatever the fields of others.
LEMMA CreateKeeps ==
  ASSUME IInv, CreateStructType
  PROVE  IInv' /\ Interned!Next
<1>0. PICK m : m = Len(types)
  OBVIOUS
<1>1. PICK k \in 0 .. MaxParts :
        Register([tag |-> "struct", fields |-> [j \in 1 .. k |-> Null]], Len(table))
  BY DEF CreateStructType
<1>2. PICK t : t = [tag |-> "struct", fields |-> [j \in 1 .. k |-> Null]]
  OBVIOUS
<1>3. /\ Register(t, Len(table)) /\ struct' = m + 1 /\ fieldCount' = 0
      /\ UNCHANGED <<paramArrays, elemArrays, answers>>
  BY <1>0, <1>1, <1>2 DEF CreateStructType
<1>4. /\ m \in Nat /\ Pointers' = Pointers \cup {m + 1} /\ m + 1 \notin Pointers
      /\ m + 1 # Null
      /\ \A a \in Pointers : types'[a] = types[a]
      /\ types'[m + 1] = [id |-> m, is |-> t]
      /\ Kept
  BY <1>0, <1>3, Registered
<1>5. t.tag = "struct" /\ t.fields = [j \in 1 .. k |-> Null] /\ Len(t.fields) = k /\ k \in Nat
  <2>1. MaxParts \in Nat
    BY TypeTableAssumption
  <2>2. k \in Nat
    BY <2>1
  <2>3. [j \in 1 .. k |-> Null] \in Seq({Null})
    BY <2>2, IsASeq
  <2> QED
    BY <1>2, <2>2, <2>3, LenProperties
<1>6. t \in Bodies'
  <2>1. [j \in 1 .. k |-> Null] \in Seq(Pointers' \cup {Null})
    BY <1>5, IsASeq
  <2> QED
    BY <1>2, <2>1 DEF Bodies, Structs
<1>7. types'[m + 1].is = t
  BY <1>4
<1>8. Described(m + 1)' = StructType(m + 1) /\ IsStruct(m + 1)'
  BY <1>5, <1>7 DEF Described, IsStruct
<1>9. HashOf(StructType(m + 1))' = Len(table)
  <2>1. Identifier(m + 1)' = m
    BY <1>4 DEF Identifier
  <2>2. Len(table) = m
    BY <1>0, TableLength
  <2> QED
    BY <2>1, <2>2 DEF HashOf, HashOfStruct, StructType
<1>10. \A a \in Pointers : Described(a) # StructType(m + 1)
  BY <1>4, DescribedTypes, DescriptionKinds DEF IInv, StructType
<1>11. /\ types' \in Seq([id : Nat, is : Bodies])'
       /\ \A a \in Pointers' : types'[a].id = a - 1
       /\ TableInOrder' /\ NoneTwice'
  <2>1. PICK hash : hash = Len(table)
    OBVIOUS
  <2>2. PICK d : d = StructType(m + 1)
    OBVIOUS
  <2>3. Register(t, hash) /\ hash = HashOf(d)' /\ Described(m + 1)' = d
    BY <1>3, <1>8, <1>9, <2>1, <2>2
  <2>4. /\ paramArrays' \in Seq(Seq(ParamsOf(Pointers)))'
        /\ elemArrays' \in Seq(Seq(Pointers))'
    BY <1>3, <1>4, KeptArrays DEF IInv
  <2> QED
    BY <1>0, <1>3, <1>6, <1>10, <2>2, <2>3, <2>4, RegisterKeeps
<1>12. \A a \in Pointers : Described(a)' = Described(a) /\ IsStruct(a)' = IsStruct(a)
  BY <1>4, KeptDescriptions DEF IInv
<1>13. TypeOK'
  <2>1. \A p \in answers' : p = <<p[1], p[2]>> /\ p[2] \in Pointers' /\ ~IsStruct(p[2])'
    BY <1>3, <1>4, <1>12 DEF IInv, TypeOK
  <2>2. /\ paramArrays' \in Seq(Seq(ParamsOf(Pointers)))'
        /\ elemArrays' \in Seq(Seq(Pointers))'
    BY <1>3, <1>4, KeptArrays DEF IInv
  <2>3. struct' \in Pointers' /\ IsStruct(struct)'
    BY <1>3, <1>4, <1>8 DEF IsStruct
  <2> QED
    BY <1>11, <2>1, <2>2, <2>3 DEF TypeOK, Bodies
<1>14. FieldsAreSet'
  <2>1. Fields' = t.fields
    BY <1>3, <1>7 DEF Fields
  <2> QED
    BY <1>3, <1>5, <2>1 DEF FieldsAreSet
<1>15. TypesWereAskedFor' /\ AnswersHold'
  BY <1>3, <1>4, <1>8, <1>12 DEF IInv, TypesWereAskedFor, AnswersHold
<1>16. Interned!Next
  <2>1. {a \in Pointers : IsStruct(a)}' = {a \in Pointers : IsStruct(a)} \cup {m + 1}
    BY <1>4, <1>8, <1>12
  <2>2. m + 1 \notin {a \in Pointers : IsStruct(a)} \cup {p[2] : p \in answers}
    BY <1>4 DEF IInv, TypeOK
  <2>3. Interned!Declare(m + 1)
    BY <1>3, <2>1, <2>2 DEF Interned!Declare, Interned!Taken
  <2> QED
    BY <2>1, <2>3 DEF Interned!Next
<1> QED
  BY <1>11, <1>13, <1>14, <1>15, <1>16 DEF IInv

\* Setting a field changes neither what a structure is nor where it is found.
LEMMA SetFieldKeeps ==
  ASSUME IInv, SetField
  PROVE  IInv' /\ UNCHANGED Interned!vars /\ Kept /\ Pointers' = Pointers
<1> DEFINE s == types[struct].is
<1>1. /\ struct \in Pointers /\ IsStruct(struct) /\ fieldCount \in 0 .. Len(s.fields)
      /\ fieldCount < Len(s.fields)
      /\ \A k \in 1 .. fieldCount : s.fields[k] \in Pointers
  BY DEF SetField, IInv, TypeOK, FieldsAreSet, Fields
<1>2. PICK a \in Pointers : types' = [types EXCEPT ![struct].is.fields[fieldCount + 1] = a]
  BY DEF SetField, Known
<1>3. UNCHANGED <<paramArrays, elemArrays, table, answers, struct>> /\ fieldCount' = fieldCount + 1
  BY DEF SetField
<1>4. s \in Structs /\ s.fields \in Seq(Pointers \cup {Null}) /\ s.tag = "struct"
  <2>1. s \in Plain \cup Funcs(DOMAIN paramArrays) \cup Compounds(DOMAIN elemArrays) \cup Structs
    BY <1>1, StoredBodies DEF IInv
  <2>2. s.tag = "struct"
    BY <1>1 DEF IsStruct
  <2>3. s \in Structs
    BY <2>1, <2>2 DEF Plain, ErrorType, Funcs, Compounds
  <2> QED
    BY <2>2, <2>3 DEF Structs
<1>5. PICK fields : fields = [s.fields EXCEPT ![fieldCount + 1] = a]
  OBVIOUS
<1>6. /\ fields \in Seq(Pointers \cup {Null}) /\ Len(fields) = Len(s.fields)
      /\ fieldCount + 1 \in 0 .. Len(fields)
      /\ \A k \in 1 .. fieldCount + 1 : fields[k] \in Pointers
  <2>1. Len(s.fields) \in Nat /\ DOMAIN s.fields = 1 .. Len(s.fields)
    BY <1>4, LenProperties
  <2>2. fieldCount \in Nat /\ fieldCount + 1 \in 1 .. Len(s.fields)
    BY <1>1, <2>1
  <2>3. fields \in Seq(Pointers \cup {Null}) /\ Len(fields) = Len(s.fields)
    BY <1>4, <1>5, <2>2, ExceptSeq
  <2>4. \A k \in 1 .. Len(s.fields) : fields[k] = IF k = fieldCount + 1 THEN a ELSE s.fields[k]
    BY <1>5, <2>1
  <2> QED
    BY <1>1, <2>1, <2>2, <2>3, <2>4
<1>7. /\ types \in Seq([id : Nat, is : Bodies]) /\ DOMAIN types = Pointers
      /\ \A b \in Pointers : types[b] \in [id : Nat, is : Bodies]
  <2>1. types \in Seq([id : Nat, is : Bodies])
    BY DEF IInv, TypeOK, Bodies
  <2> QED
    BY <2>1, ElementOfSeq, LenProperties DEF Pointers
<1>8. /\ DOMAIN types' = Pointers
      /\ \A b \in Pointers \ {struct} : types'[b] = types[b]
      /\ types'[struct] = [id |-> types[struct].id, is |-> [tag |-> "struct", fields |-> fields]]
  <2>1. types'[struct] = [types[struct] EXCEPT !.is.fields[fieldCount + 1] = a]
    BY <1>1, <1>2, <1>7
  <2>2. types[struct] = [id |-> types[struct].id, is |-> s]
    BY <1>1, <1>7
  <2>3. s = [tag |-> "struct", fields |-> s.fields]
    BY <1>4 DEF Structs
  <2>4. PICK j : j = fieldCount + 1
    OBVIOUS
  <2>5. types'[struct].id = types[struct].id /\ types'[struct].is = [s EXCEPT !.fields[j] = a]
    BY <2>1, <2>2, <2>4
  <2>6. [s EXCEPT !.fields[j] = a] = [tag |-> "struct", fields |-> [s.fields EXCEPT ![j] = a]]
    BY <2>3
  <2>7. types'[struct] \in [id : Nat, is : {[s EXCEPT !.fields[j] = a]}]
    <3>1. types[struct].id \in Nat
      BY <1>1, <1>7
    <3> QED
      BY <2>1, <2>2, <2>4, <3>1
  <2>8. types'[struct] = [id |-> types[struct].id, is |-> [tag |-> "struct", fields |-> fields]]
    BY <1>5, <2>4, <2>5, <2>6, <2>7
  <2>9. DOMAIN types' = Pointers /\ \A b \in Pointers \ {struct} : types'[b] = types[b]
    BY <1>2, <1>7
  <2> QED
    BY <2>8, <2>9
<1>9. Pointers' = Pointers
  <2>1. Len(types') = Len(types)
    BY <1>1, <1>2, <1>7, LenProperties
  <2> QED
    BY <2>1 DEF Pointers
<1>10. Kept
  BY <1>1, <1>3, <1>8, <1>9 DEF Kept, IsStruct
<1>11. \A b \in Pointers : Described(b)' = Described(b) /\ IsStruct(b)' = IsStruct(b)
  BY <1>10, KeptDescriptions DEF IInv
<1>12. TypeOK'
  <2>1. Bodies' = Bodies
    BY <1>3, <1>9 DEF Bodies, Plain, Funcs, Compounds, Structs
  <2>2. [tag |-> "struct", fields |-> fields] \in Bodies
    BY <1>6 DEF Bodies, Structs
  <2>3. \A b \in Pointers : types'[b] \in [id : Nat, is : Bodies]
    <3>1. types'[struct] \in [id : Nat, is : Bodies]
      <4>1. types[struct].id \in Nat
        BY <1>1, <1>7
      <4> QED
        BY <1>8, <2>2, <4>1
    <3> QED
      BY <1>7, <1>8, <3>1
  <2>4. types' \in Seq([id : Nat, is : Bodies])
    <3>1. types' = [b \in 1 .. Len(types) |-> types'[b]]
      BY <1>2, <1>7, <1>8 DEF Pointers
    <3>2. Len(types) \in Nat
      BY <1>7, LenProperties
    <3>3. \A b \in 1 .. Len(types) : types'[b] \in [id : Nat, is : Bodies]
      BY <2>3 DEF Pointers
    <3> DEFINE R == [id : Nat, is : Bodies]
               f == types'
    <3>4. \A b \in 1 .. Len(types) : f[b] \in R
      BY <3>3
    <3>5. f = [b \in 1 .. Len(types) |-> f[b]]
      BY <3>1
    <3> HIDE DEF R, f
    <3>6. f \in Seq(R)
      BY <3>2, <3>4, <3>5, IsASeq
    <3> QED
      BY <3>6 DEF R, f
  <2>5. \A b \in Pointers' : types'[b].id = b - 1
    <3>1. \A b \in Pointers : types'[b].id = types[b].id
      BY <1>8
    <3> QED
      BY <1>9, <3>1 DEF IInv, TypeOK
  <2>6. /\ struct' # Null => struct' \in Pointers' /\ IsStruct(struct)'
        /\ \A p \in answers' : p = <<p[1], p[2]>> /\ p[2] \in Pointers' /\ ~IsStruct(p[2])'
    BY <1>1, <1>3, <1>8, <1>9, <1>11 DEF IInv, TypeOK, IsStruct
  <2>7. /\ paramArrays' \in Seq(Seq(ParamsOf(Pointers)))'
        /\ elemArrays' \in Seq(Seq(Pointers))'
    BY <1>3, <1>10, KeptArrays DEF IInv
  <2> QED
    BY <2>1, <2>4, <2>5, <2>6, <2>7 DEF TypeOK, Bodies
<1>13. FieldsAreSet'
  <2>1. Fields' = fields
    BY <1>3, <1>8 DEF Fields
  <2> QED
    BY <1>3, <1>6, <1>9, <2>1 DEF FieldsAreSet
<1>14. TableInOrder'
  <2>1. ASSUME NEW b \in Pointers PROVE HashOf(Described(b))' = HashOf(Described(b))
    <3>1. PICK e : e = Described(b)
      OBVIOUS
    <3>2. e \in Descriptions \/ \E c \in Pointers : e = StructType(c)
      BY <3>1, DescribedTypes DEF IInv
    <3>3. HashOf(e)' = HashOf(e)
      BY <1>10, <3>2, KeptHashes DEF IInv
    <3> QED
      BY <1>11, <3>1, <3>3
  <2> QED
    BY <1>3, <1>9, <2>1 DEF IInv, TableInOrder
<1>15. TypesWereAskedFor' /\ AnswersHold' /\ NoneTwice'
  BY <1>3, <1>9, <1>11 DEF IInv, TypesWereAskedFor, AnswersHold, NoneTwice
<1>16. UNCHANGED Interned!vars
  BY <1>3, <1>9, <1>11 DEF Interned!vars
<1> QED
  BY <1>9, <1>10, <1>12, <1>13, <1>14, <1>15, <1>16 DEF IInv

LEMMA InitHolds ==
  ASSUME Init
  PROVE  IInv /\ Interned!Init
<1>1. Pointers = {}
  BY DEF Init, Pointers
<1>2. types = <<>> /\ paramArrays = <<>> /\ elemArrays = <<>> /\ table = <<>> /\ answers = {} /\ struct = Null
  BY DEF Init
<1>3. TypeOK
  BY <1>1, <1>2, EmptySeq DEF TypeOK
<1>4. TableInOrder
  BY <1>1, <1>2 DEF TableInOrder
<1> QED
  BY <1>1, <1>2, <1>3, <1>4
     DEF IInv, FieldsAreSet, TypesWereAskedFor, AnswersHold, NoneTwice, Interned!Init

\* Lists of types of the checker are sequences of pointers.
LEMMA ListsOfKnown ==
  /\ Known \subseteq Pointers
  /\ Lists(Known) \subseteq Seq(Pointers)
  /\ Lists(ParamsOf(Known)) \subseteq Seq(ParamsOf(Pointers))
<1>1. Known \subseteq Pointers
  BY DEF Known
<1>2. ASSUME NEW S PROVE Lists(S) \subseteq Seq(S)
  <2>1. ASSUME NEW m \in 0 .. MaxParts, NEW l \in [1 .. m -> S] PROVE l \in Seq(S)
    <3>1. m \in Nat
      BY TypeTableAssumption
    <3>2. l = [k \in 1 .. m |-> l[k]] /\ \A k \in 1 .. m : l[k] \in S
      OBVIOUS
    <3> QED
      BY <3>1, <3>2, IsASeq
  <2> QED
    BY <2>1 DEF Lists
<1>3. ParamsOf(Known) \subseteq ParamsOf(Pointers)
  BY <1>1 DEF ParamsOf
<1> QED
  BY <1>1, <1>2, <1>3, SeqMonotonic

\* Every call of the checker asks for a description, or declares a structure.
LEMMA Asks ==
  ASSUME IInv, Next
  PROVE  \/ \E d \in Descriptions : Insert(d) /\ (UNCHANGED <<struct, fieldCount>> \/ struct' = Null)
         \/ CreateStructType
         \/ SetField
<1> DEFINE Goal == \E d \in Descriptions : Insert(d) /\ (UNCHANGED <<struct, fieldCount>> \/ struct' = Null)
<1>1. ASSUME NEW d \in Descriptions, Insert(d), Unstructured PROVE Goal
  BY <1>1 DEF Unstructured
<1>2. CASE MakeErrorType
  BY <1>1, <1>2 DEF MakeErrorType, Descriptions, Plain
<1>3. CASE MakePrimType
  <2>1. \A p \in PrimTypes : PrimType(p) \in Descriptions
    BY DEF PrimType, Descriptions, Plain
  <2> QED
    BY <1>1, <1>3, <2>1 DEF MakePrimType
<1>4. CASE MakeShaderType
  <2>1. \A p \in ShaderTypes : ShaderType(p) \in Descriptions
    BY DEF ShaderType, Descriptions, Plain
  <2> QED
    BY <1>1, <1>4, <2>1 DEF MakeShaderType
<1>5. CASE MakeClosureType
  <2>1. \A a \in Known : ClosureType(a) \in Descriptions
    BY ListsOfKnown DEF ClosureType, Descriptions, Plain
  <2> QED
    BY <1>1, <1>5, <2>1 DEF MakeClosureType
<1>6. CASE MakeSizedArrayType
  <2>1. \A a \in Known, n \in Sizes : ArrayType(a, n) \in Descriptions
    BY ListsOfKnown DEF ArrayType, Descriptions, Plain
  <2> QED
    BY <1>1, <1>6, <2>1 DEF MakeSizedArrayType
<1>7. CASE MakeUnsizedArrayType
  <2>1. \A a \in Known : ArrayType(a, 0) \in Descriptions
    BY ListsOfKnown DEF ArrayType, Descriptions, Plain
  <2> QED
    BY <1>1, <1>7, <2>1 DEF MakeUnsizedArrayType
<1>8. CASE MakeFuncType
  <2>1. \A a \in Known, ps \in Lists(ParamsOf(Known)), e \in BOOLEAN : FuncType(a, ps, e) \in Descriptions
    BY ListsOfKnown DEF FuncType, Descriptions, Funcs
  <2> QED
    BY <1>1, <1>8, <2>1 DEF MakeFuncType
<1>9. CASE MakeCompoundType
  <2>1. \A ts \in Lists(Known) : CompoundType(ts) \in Descriptions
    BY ListsOfKnown DEF CompoundType, Descriptions, Compounds
  <2> QED
    BY <1>1, <1>9, <2>1 DEF MakeCompoundType
<1>10. CASE FinishStructType
  <2> DEFINE ps == [k \in 1 .. Len(Fields) |-> [type |-> Fields[k], isOutput |-> FALSE]]
  <2>1. Insert(FuncType(struct, ps, FALSE)) /\ struct' = Null
    BY <1>10 DEF FinishStructType
  <2>2. struct \in Pointers /\ \A k \in 1 .. Len(Fields) : Fields[k] \in Pointers
    BY <1>10 DEF FinishStructType, IInv, TypeOK, FieldsAreSet
  <2>3. Len(Fields) \in Nat
    <3>1. fieldCount = Len(Fields) /\ fieldCount \in 0 .. Len(Fields)
      BY <1>10 DEF FinishStructType, IInv, FieldsAreSet
    <3>2. types[struct].is \in Bodies /\ IsStruct(struct)
      BY <1>10, <2>2, StoredBodies DEF FinishStructType, IInv, TypeOK, Bodies
    <3>3. types[struct].is \in Structs
      BY <3>2 DEF Bodies, IsStruct, Plain, ErrorType, Funcs, Compounds
    <3> QED
      BY <3>3, LenProperties DEF Structs, Fields
  <2>4. ps \in Seq(ParamsOf(Pointers))
    <3>1. \A k \in 1 .. Len(Fields) : [type |-> Fields[k], isOutput |-> FALSE] \in ParamsOf(Pointers)
      BY <2>2 DEF ParamsOf
    <3> QED
      BY <2>3, <3>1, IsASeq
  <2> HIDE DEF ps
  <2>5. FuncType(struct, ps, FALSE) \in Descriptions
    BY <2>2, <2>4 DEF FuncType, Descriptions, Funcs
  <2> QED
    BY <2>1, <2>5
<1> QED
  BY <1>2, <1>3, <1>4, <1>5, <1>6, <1>7, <1>8, <1>9, <1>10 DEF Next

LEMMA StepKeeps ==
  ASSUME IInv, [Next]_vars
  PROVE  IInv' /\ [Interned!Next]_(Interned!vars)
<1>1. CASE \E d \in Descriptions : Insert(d) /\ (UNCHANGED <<struct, fieldCount>> \/ struct' = Null)
  BY <1>1, InsertKeeps
<1>2. CASE CreateStructType
  BY <1>2, CreateKeeps
<1>3. CASE SetField
  BY <1>3, SetFieldKeeps
<1>4. CASE UNCHANGED vars
  <2>1. UNCHANGED <<types, paramArrays, elemArrays, table, answers, struct, fieldCount>>
    BY <1>4 DEF vars
  <2>2. /\ Pointers' = Pointers /\ Fields' = Fields
        /\ \A b : Described(b)' = Described(b) /\ IsStruct(b)' = IsStruct(b)
        /\ \A e : HashOf(e)' = HashOf(e)
    BY <2>1 DEF Pointers, Fields, Described, IsStruct, Contents, HashOf, HashOfStruct, Identifiers, Identifier
  <2>3. TypeOK'
    BY <2>1, <2>2 DEF IInv, TypeOK, Plain, Funcs, Compounds, Structs, ParamsOf, Pointers, IsStruct
  <2>4. FieldsAreSet' /\ TableInOrder' /\ TypesWereAskedFor' /\ AnswersHold' /\ NoneTwice'
    BY <2>1, <2>2 DEF IInv, FieldsAreSet, TableInOrder, TypesWereAskedFor, AnswersHold, NoneTwice
  <2> QED
    BY <2>1, <2>2, <2>3, <2>4 DEF IInv, Interned!vars
<1> QED
  BY <1>1, <1>2, <1>3, <1>4, Asks

-----------------------------------------------------------------------------
(* Taking types apart. *)

\* A description refers to registered types only, a structure to none.
LEMMA ComponentsArePointers ==
  /\ \A d \in Descriptions : Components(d) \subseteq Pointers
  /\ \A b : Components(StructType(b)) = {}
<1>1. ASSUME NEW d \in Plain PROVE Components(d) \subseteq Pointers
  BY <1>1 DEF Plain, ErrorType, Components
<1>2. ASSUME NEW d \in Funcs(Seq(ParamsOf(Pointers))) PROVE Components(d) \subseteq Pointers
  <2>1. d.tag = "func" /\ d.ret \in Pointers /\ d.params \in Seq(ParamsOf(Pointers))
    BY <1>2 DEF Funcs
  <2>2. ASSUME NEW k \in DOMAIN d.params PROVE d.params[k].type \in Pointers
    <3>1. d.params[k] \in ParamsOf(Pointers)
      BY <2>1, ElementOfSeq
    <3> QED
      BY <3>1 DEF ParamsOf
  <2> QED
    BY <2>1, <2>2 DEF Components
<1>3. ASSUME NEW d \in Compounds(Seq(Pointers)) PROVE Components(d) \subseteq Pointers
  <2>1. d.tag = "compound" /\ d.elems \in Seq(Pointers)
    BY <1>3 DEF Compounds
  <2>2. \A k \in DOMAIN d.elems : d.elems[k] \in Pointers
    BY <2>1, ElementOfSeq
  <2> QED
    BY <2>1, <2>2 DEF Components
<1>4. \A b : Components(StructType(b)) = {}
  BY DEF Components, StructType
<1> QED
  BY <1>1, <1>2, <1>3, <1>4 DEF Descriptions

\* What a step registers is a structure, or is described in terms of what there was.
LEMMA NewTypes ==
  ASSUME IInv, [Next]_vars, NEW n, n = Len(types)
  PROVE  \A a \in Pointers' : \/ a \in Pointers /\ Described(a)' = Described(a)
                              \/ /\ n \in Nat /\ a = n + 1
                                 /\ \/ Described(a)' = StructType(a)
                                    \/ Described(a)' \in Descriptions
<1> DEFINE Goal(a) == \/ a \in Pointers /\ Described(a)' = Described(a)
                      \/ /\ n \in Nat /\ a = n + 1
                         /\ \/ Described(a)' = StructType(a)
                            \/ Described(a)' \in Descriptions
<1>1. ASSUME Kept, Pointers' = Pointers, NEW a \in Pointers' PROVE Goal(a)
  BY <1>1, KeptDescriptions DEF IInv
<1>2. ASSUME NEW t, NEW hash, Register(t, hash),
             paramArrays' = paramArrays \/ \E x : paramArrays' = Append(paramArrays, x),
             elemArrays' = elemArrays \/ \E x : elemArrays' = Append(elemArrays, x),
             types'[n + 1].is = t => Described(n + 1)' = StructType(n + 1) \/ Described(n + 1)' \in Descriptions,
             NEW a \in Pointers'
      PROVE  Goal(a)
  <2>1. /\ n \in Nat /\ Pointers' = Pointers \cup {n + 1} /\ types'[n + 1] = [id |-> n, is |-> t]
        /\ Kept
    BY <1>2, Registered
  <2>2. \A b \in Pointers : Described(b)' = Described(b)
    BY <2>1, KeptDescriptions DEF IInv
  <2>3. types'[n + 1].is = t
    BY <2>1
  <2> QED
    BY <1>2, <2>1, <2>2, <2>3
<1>3. ASSUME NEW d \in Descriptions, Insert(d), NEW a \in Pointers' PROVE Goal(a)
  <2>1. CASE Add(d)
    <3>1. PICK t : /\ Register(t, HashOf(d))
                   /\ paramArrays' = paramArrays \/ \E x : paramArrays' = Append(paramArrays, x)
                   /\ elemArrays' = elemArrays \/ \E x : elemArrays' = Append(elemArrays, x)
                   /\ types'[n + 1].is = t => Described(n + 1)' = d
      BY <2>1, AddedAsAsked
    <3> QED
      BY <1>2, <1>3, <3>1
  <2>2. CASE UNCHANGED <<types, paramArrays, elemArrays, table>>
    <3>1. Pointers' = Pointers /\ \A b : Described(b)' = Described(b)
      BY <2>2 DEF Pointers, Described, Contents
    <3> QED
      BY <1>3, <3>1
  <2> QED
    BY <1>3, <2>1, <2>2 DEF Insert
<1>4. ASSUME CreateStructType, NEW a \in Pointers' PROVE Goal(a)
  <2>1. PICK k \in 0 .. MaxParts :
          Register([tag |-> "struct", fields |-> [j \in 1 .. k |-> Null]], Len(table))
    BY <1>4 DEF CreateStructType
  <2>2. PICK t : t = [tag |-> "struct", fields |-> [j \in 1 .. k |-> Null]]
    OBVIOUS
  <2>3. Register(t, Len(table)) /\ UNCHANGED <<paramArrays, elemArrays>>
    BY <1>4, <2>1, <2>2 DEF CreateStructType
  <2>4. types'[n + 1].is = t => Described(n + 1)' = StructType(n + 1)
    BY <2>2 DEF Described
  <2> QED
    BY <1>2, <1>4, <2>3, <2>4
<1>5. ASSUME SetField, NEW a \in Pointers' PROVE Goal(a)
  BY <1>1, <1>5, SetFieldKeeps
<1>6. ASSUME UNCHANGED vars, NEW a \in Pointers' PROVE Goal(a)
  <2>1. Pointers' = Pointers /\ \A b : Described(b)' = Described(b)
    BY <1>6 DEF vars, Pointers, Described, Contents
  <2> QED
    BY <1>6, <2>1
<1> QED
  BY <1>3, <1>4, <1>5, <1>6, Asks

\* So each type is made of types that were registered before it.
LEMMA StaysOlder ==
  ASSUME IInv, ComponentsAreOlder, [Next]_vars
  PROVE  ComponentsAreOlder'
<1>0. PICK n : n = Len(types)
  OBVIOUS
<1>1. SUFFICES ASSUME NEW a \in Pointers', NEW d, d = Described(a)' PROVE Components(d) \subseteq 1 .. a - 1
  BY DEF ComponentsAreOlder, Components
<1>2. CASE a \in Pointers /\ Described(a)' = Described(a)
  BY <1>1, <1>2 DEF ComponentsAreOlder
<1>3. CASE n \in Nat /\ a = n + 1 /\ (d = StructType(a) \/ d \in Descriptions)
  <2>1. Components(d) \subseteq Pointers
    BY <1>3, ComponentsArePointers
  <2>2. a - 1 = n
    BY <1>3
  <2> QED
    BY <1>0, <2>1, <2>2 DEF Pointers
<1> QED
  BY <1>0, <1>1, <1>2, <1>3, NewTypes

\* Spelling a description out looks at its components only.
LEMMA SpelledAgree ==
  ASSUME NEW u, NEW w, NEW d, \A x \in Components(d) : u[x] = w[x]
  PROVE  Spelled(u, d) = Spelled(w, d)
<1>1. CASE d.tag = "func"
  <2>1. \A k \in DOMAIN d.params : u[d.params[k].type] = w[d.params[k].type]
    BY <1>1 DEF Components
  <2>2. u[d.ret] = w[d.ret]
    BY <1>1 DEF Components
  <2> QED
    BY <1>1, <2>1, <2>2 DEF Spelled
<1>2. CASE d.tag = "compound"
  <2>1. \A k \in DOMAIN d.elems : u[d.elems[k]] = w[d.elems[k]]
    BY <1>2 DEF Components
  <2> QED
    BY <1>2, <2>1 DEF Spelled
<1>3. CASE d.tag = "closure"
  BY <1>3 DEF Spelled, Components
<1>4. CASE d.tag = "array"
  BY <1>4 DEF Spelled, Components
<1>5. CASE d.tag \notin {"func", "compound", "closure", "array"}
  BY <1>5 DEF Spelled
<1> QED
  BY <1>1, <1>2, <1>3, <1>4, <1>5

\* The recursion that takes types apart has a solution, since it goes to older types.
Spells(u, n, desc) == u = [a \in 1 .. n |-> Spelled(u, desc[a])]

LEMMA SpellingExists ==
  ASSUME NEW n \in Nat, NEW desc, \A a \in 1 .. n : Components(desc[a]) \subseteq 1 .. a - 1
  PROVE  \E u : Spells(u, n, desc)
<1> DEFINE S == {m \in 0 .. n : \E u : Spells(u, m, desc)}
<1>1. 0 \in S
  <2> DEFINE u == [a \in 1 .. 0 |-> a]
  <2>1. u = [a \in 1 .. 0 |-> Spelled(u, desc[a])]
    OBVIOUS
  <2> HIDE DEF u
  <2>2. Spells(u, 0, desc)
    BY <2>1 DEF Spells
  <2> QED
    BY <2>2
<1>2. ASSUME NEW m \in Nat, m < n, m \in S PROVE m + 1 \in S
  <2>1. PICK u : Spells(u, m, desc)
    BY <1>2
  <2> DEFINE w == [a \in 1 .. m + 1 |-> IF a <= m THEN u[a] ELSE Spelled(u, desc[a])]
  <2>2. ASSUME NEW a \in 1 .. m + 1 PROVE w[a] = Spelled(u, desc[a]) /\ (a <= m => w[a] = u[a])
    <3>1. a <= m => u[a] = Spelled(u, desc[a])
      BY <2>1 DEF Spells
    <3>2. w[a] = IF a <= m THEN u[a] ELSE Spelled(u, desc[a])
      OBVIOUS
    <3> HIDE DEF w
    <3> QED
      BY <3>1, <3>2
  <2>3. w = [a \in 1 .. m + 1 |-> w[a]]
    OBVIOUS
  <2> HIDE DEF w
  <2>4. ASSUME NEW a \in 1 .. m + 1 PROVE w[a] = Spelled(w, desc[a])
    <3>1. Components(desc[a]) \subseteq 1 .. a - 1
      BY <1>2
    <3>2. ASSUME NEW x \in Components(desc[a]) PROVE u[x] = w[x]
      <4>1. x \in 1 .. m + 1 /\ x <= m
        BY <3>1
      <4> QED
        BY <2>2, <4>1
    <3>3. Spelled(u, desc[a]) = Spelled(w, desc[a])
      BY <3>2, SpelledAgree
    <3> QED
      BY <2>2, <3>3
  <2>5. Spells(w, m + 1, desc)
    BY <2>3, <2>4 DEF Spells
  <2> QED
    BY <1>2, <2>5
<1> HIDE DEF S
<1>3. n \in S
  <2>1. n \in 0 .. n
    OBVIOUS
  <2> QED
    BY <1>1, <1>2, <2>1, SetInduction
<1> QED
  BY <1>3 DEF S

LEMMA StructuresSpelled ==
  ASSUME IInv, ComponentsAreOlder
  PROVE  \A a \in Pointers : Structures[a] = Spelled(Structures, Described(a))
<1> DEFINE n == Len(types)
           desc == [a \in 1 .. n |-> Described(a)]
           u == CHOOSE f : Spells(f, n, desc)
<1>1. n \in Nat
  BY TableLength
<1>2. \A a \in 1 .. n : desc[a] = Described(a) /\ Components(desc[a]) \subseteq 1 .. a - 1
  BY DEF ComponentsAreOlder, Pointers
<1>3. u = Structures
  BY DEF Structures, Spells, Pointers
<1> HIDE DEF n, desc
<1>4. Spells(u, n, desc)
  BY <1>1, <1>2, SpellingExists
<1> HIDE DEF u
<1>5. \A a \in 1 .. n : u[a] = Spelled(u, desc[a])
  BY <1>4 DEF Spells
<1> QED
  BY <1>2, <1>3, <1>5 DEF Pointers, n

\* What a description is made of, by its tag.
LEMMA DescriptionParts ==
  ASSUME NEW d \in Descriptions
  PROVE  /\ d.tag = "closure" => d = ClosureType(d.inner)
         /\ d.tag = "array" => d = ArrayType(d.elem, d.count)
         /\ d.tag = "func" => d = FuncType(d.ret, d.params, d.hasEllipsis) /\ d.params \in Seq(ParamsOf(Pointers))
         /\ d.tag = "compound" => d = CompoundType(d.elems) /\ d.elems \in Seq(Pointers)
<1>1. CASE d.tag \in {"closure", "array"}
  <2>1. d \in Plain
    BY <1>1 DEF Descriptions, Funcs, Compounds
  <2>2. CASE d.tag = "closure"
    <3>1. d \in [tag : {"closure"}, inner : Pointers]
      BY <2>1, <2>2 DEF Plain, ErrorType
    <3> QED
      BY <2>2, <3>1 DEF ClosureType
  <2>3. CASE d.tag = "array"
    <3>1. d \in [tag : {"array"}, elem : Pointers, count : Sizes \cup {0}]
      BY <2>1, <2>3 DEF Plain, ErrorType
    <3> QED
      BY <2>3, <3>1 DEF ArrayType
  <2> QED
    BY <1>1, <2>2, <2>3
<1>2. CASE d.tag = "func"
  <2>1. d \in Funcs(Seq(ParamsOf(Pointers)))
    BY <1>2, DescriptionKinds
  <2> QED
    BY <1>2, <2>1 DEF Funcs, FuncType
<1>3. CASE d.tag = "compound"
  <2>1. d \in Compounds(Seq(Pointers))
    BY <1>3, DescriptionKinds
  <2> QED
    BY <1>3, <2>1 DEF Compounds, CompoundType
<1>4. CASE d.tag \notin {"closure", "array", "func", "compound"}
  BY <1>4
<1> QED
  BY <1>1, <1>2, <1>3, <1>4

\* Spelling out keeps the tag.
LEMMA SpelledTag ==
  ASSUME NEW u, NEW d PROVE Spelled(u, d).tag = d.tag
<1>1. CASE d.tag = "func"
  BY <1>1 DEF Spelled, FuncType
<1>2. CASE d.tag = "compound"
  BY <1>2 DEF Spelled, CompoundType
<1>3. CASE d.tag = "closure"
  BY <1>3 DEF Spelled, ClosureType
<1>4. CASE d.tag = "array"
  BY <1>4 DEF Spelled, ArrayType
<1>5. CASE d.tag \notin {"func", "compound", "closure", "array"}
  BY <1>5 DEF Spelled
<1> QED
  BY <1>1, <1>2, <1>3, <1>4, <1>5

\* Two descriptions that are spelled out alike are one, if that is so of their components.
LEMMA SpelledApart ==
  ASSUME NEW d \in Descriptions, NEW e \in Descriptions, NEW u,
         Spelled(u, d) = Spelled(u, e),
         \A x \in Components(d), y \in Components(e) : u[x] = u[y] => x = y
  PROVE  d = e
<1>1. d.tag = e.tag
  BY SpelledTag
<1>2. CASE d.tag = "closure"
  <2>1. Components(d) = {d.inner} /\ Components(e) = {e.inner}
    BY <1>1, <1>2 DEF Components
  <2>2. u[d.inner] = u[e.inner]
    BY <1>1, <1>2 DEF Spelled, ClosureType
  <2> QED
    BY <1>1, <1>2, <2>1, <2>2, DescriptionParts
<1>3. CASE d.tag = "array"
  <2>1. Components(d) = {d.elem} /\ Components(e) = {e.elem}
    BY <1>1, <1>3 DEF Components
  <2>2. u[d.elem] = u[e.elem] /\ d.count = e.count
    BY <1>1, <1>3 DEF Spelled, ArrayType
  <2> QED
    BY <1>1, <1>3, <2>1, <2>2, DescriptionParts
<1>4. CASE d.tag = "func"
  <2>1. /\ Components(d) = {d.ret} \cup {d.params[k].type : k \in DOMAIN d.params}
        /\ Components(e) = {e.ret} \cup {e.params[k].type : k \in DOMAIN e.params}
    BY <1>1, <1>4 DEF Components
  <2>2. PICK p, q : /\ p = [k \in DOMAIN d.params |-> [type |-> u[d.params[k].type], isOutput |-> d.params[k].isOutput]]
                    /\ q = [k \in DOMAIN e.params |-> [type |-> u[e.params[k].type], isOutput |-> e.params[k].isOutput]]
    OBVIOUS
  <2>3. FuncType(u[d.ret], p, d.hasEllipsis) = FuncType(u[e.ret], q, e.hasEllipsis)
    BY <1>1, <1>4, <2>2 DEF Spelled
  <2>4. u[d.ret] = u[e.ret] /\ p = q /\ d.hasEllipsis = e.hasEllipsis
    BY <2>3 DEF FuncType
  <2>5. d.params \in Seq(ParamsOf(Pointers)) /\ e.params \in Seq(ParamsOf(Pointers))
    BY <1>1, <1>4, DescriptionParts
  <2>6. DOMAIN d.params = DOMAIN e.params
    BY <2>2, <2>4
  <2>7. ASSUME NEW k \in DOMAIN d.params PROVE d.params[k] = e.params[k]
    <3>1. /\ p[k] = [type |-> u[d.params[k].type], isOutput |-> d.params[k].isOutput]
          /\ q[k] = [type |-> u[e.params[k].type], isOutput |-> e.params[k].isOutput]
      BY <2>2, <2>6, <2>7
    <3>2. u[d.params[k].type] = u[e.params[k].type] /\ d.params[k].isOutput = e.params[k].isOutput
      BY <2>4, <3>1
    <3>3. d.params[k].type = e.params[k].type
      BY <2>1, <2>6, <2>7, <3>2
    <3>4. d.params[k] \in ParamsOf(Pointers) /\ e.params[k] \in ParamsOf(Pointers)
      BY <2>5, <2>6, <2>7, ElementOfSeq
    <3> QED
      BY <3>2, <3>3, <3>4 DEF ParamsOf
  <2>8. d.params = e.params
    BY <2>5, <2>6, <2>7, SeqEqual
  <2>9. d.ret = e.ret
    BY <2>1, <2>4
  <2> QED
    BY <1>1, <1>4, <2>4, <2>8, <2>9, DescriptionParts
<1>5. CASE d.tag = "compound"
  <2>1. /\ Components(d) = {d.elems[k] : k \in DOMAIN d.elems}
        /\ Components(e) = {e.elems[k] : k \in DOMAIN e.elems}
    BY <1>1, <1>5 DEF Components
  <2>2. PICK p, q : p = [k \in DOMAIN d.elems |-> u[d.elems[k]]] /\ q = [k \in DOMAIN e.elems |-> u[e.elems[k]]]
    OBVIOUS
  <2>3. CompoundType(p) = CompoundType(q)
    BY <1>1, <1>5, <2>2 DEF Spelled
  <2>4. p = q
    BY <2>3 DEF CompoundType
  <2>5. d.elems \in Seq(Pointers) /\ e.elems \in Seq(Pointers)
    BY <1>1, <1>5, DescriptionParts
  <2>6. DOMAIN d.elems = DOMAIN e.elems
    BY <2>2, <2>4
  <2>7. ASSUME NEW k \in DOMAIN d.elems PROVE d.elems[k] = e.elems[k]
    <3>1. p[k] = u[d.elems[k]] /\ q[k] = u[e.elems[k]]
      BY <2>2, <2>6, <2>7
    <3> QED
      BY <2>1, <2>4, <2>6, <2>7, <3>1
  <2>8. d.elems = e.elems
    BY <2>5, <2>6, <2>7, SeqEqual
  <2> QED
    BY <1>1, <1>5, <2>8, DescriptionParts
<1>6. CASE d.tag \notin {"closure", "array", "func", "compound"}
  BY <1>1, <1>6 DEF Spelled
<1> QED
  BY <1>2, <1>3, <1>4, <1>5, <1>6

\* The oldest of two types with the same structure is no younger than the components
\* of either, so those are apart, and so are the two.
LEMMA StructuresApart ==
  ASSUME IInv, ComponentsAreOlder
  PROVE  EqualTypesAreOne
<1> DEFINE u == Structures
           S == {a \in Pointers : \E b \in Pointers : u[a] = u[b] /\ a # b}
<1>1. S = {} => EqualTypesAreOne
  BY DEF EqualTypesAreOne
<1>2. SUFFICES ASSUME S # {} PROVE FALSE
  BY <1>1
<1>3. S \in SUBSET Nat /\ Len(types) \in Nat
  BY TableLength DEF Pointers
<1>4. PICK a \in S : \A c \in S : a <= c
  <2> HIDE DEF S
  <2> QED
    BY <1>2, <1>3, SmallestElement
<1>5. PICK b \in Pointers : u[a] = u[b] /\ a # b
  BY <1>4
<1>6. a \in Pointers
  BY <1>4
<1>7. PICK d, e : d = Described(a) /\ e = Described(b)
  OBVIOUS
<1>8. Spelled(u, d) = Spelled(u, e) /\ d # e
  <2>1. u[a] = Spelled(u, d) /\ u[b] = Spelled(u, e)
    BY <1>5, <1>6, <1>7, StructuresSpelled
  <2>2. d # e
    BY <1>5, <1>6, <1>7 DEF IInv, NoneTwice
  <2> QED
    BY <1>5, <2>1, <2>2
<1>9. CASE d \in Descriptions /\ e \in Descriptions
  <2>1. Components(d) \subseteq Pointers /\ Components(e) \subseteq Pointers
    BY <1>9, ComponentsArePointers
  <2>2. \A x \in Components(d) : x \in Pointers /\ ~(a <= x)
    <3>1. Components(d) \subseteq 1 .. a - 1
      BY <1>6, <1>7 DEF ComponentsAreOlder
    <3>2. a \in Nat
      BY <1>3, <1>4
    <3> QED
      BY <2>1, <3>1, <3>2
  <2>3. \A x \in Components(d) : x \notin S
    <3> HIDE DEF S
    <3> QED
      BY <1>4, <2>2
  <2>4. \A x \in Components(d), y \in Components(e) : u[x] = u[y] => x = y
    BY <2>1, <2>2, <2>3
  <2> HIDE DEF u
  <2> QED
    BY <1>8, <1>9, <2>4, SpelledApart
<1>10. CASE d = StructType(a) \/ e = StructType(b)
  <2>1. Spelled(u, d).tag = d.tag /\ Spelled(u, e).tag = e.tag
    BY SpelledTag
  <2>2. d.tag = e.tag
    BY <1>8, <2>1
  <2>3. d.tag = "struct" /\ e.tag = "struct"
    BY <1>10, <2>2 DEF StructType
  <2>4. Spelled(u, d) = d /\ Spelled(u, e) = e
    BY <2>3 DEF Spelled
  <2> QED
    BY <1>8, <2>4
<1> QED
  BY <1>5, <1>6, <1>7, <1>9, <1>10, DescribedTypes DEF IInv

-----------------------------------------------------------------------------
(* Theorems. *)

\* The invariant of the table, for every hash function: what was registered is
\* found by insert_type under the hash that it has now.
THEOREM Invariance == Spec => []IInv
<1>1. Init => IInv
  BY InitHolds
<1>2. IInv /\ [Next]_vars => IInv'
  BY StepKeeps
<1> QED
  BY <1>1, <1>2, PTL DEF Spec

\* Whatever the hash, a registered type is found by its description, and it is the
\* only one (type_set_find in insert_type and type_table_finalize_struct_type).
THEOREM TypesAreFound == Spec => []RegisteredAreFound
<1>1. IInv => RegisteredAreFound
  BY RegisteredFound
<1> QED
  BY <1>1, Invariance, PTL

\* A pointer that was returned stands for what was asked for, for as long as the
\* table exists.
THEOREM AnswersStand == Spec => []AnswersHold
<1>1. IInv => AnswersHold
  BY DEF IInv
<1> QED
  BY <1>1, Invariance, PTL

\* The table implements Interning: a description has one pointer, and a pointer one
\* description.
THEOREM Refinement == Spec => ImplementsInterning
<1>1. Init => Interned!Init
  BY DEF Init, Interned!Init, Pointers
<1>2. IInv /\ [Next]_vars => [Interned!Next]_(Interned!vars)
  BY StepKeeps
<1> QED
  BY <1>1, <1>2, Invariance, PTL DEF Spec, ImplementsInterning, Interned!Spec

\* Types that are made alike, however deep, have one pointer, so comparing pointers
\* compares types (is_type_equal looks at one level only).
THEOREM EqualTypesHaveOnePointer == Spec => []EqualTypesAreOne
<1>1. Init => ComponentsAreOlder
  BY DEF Init, ComponentsAreOlder, Pointers
<1>2. IInv /\ ComponentsAreOlder /\ [Next]_vars => ComponentsAreOlder'
  BY StaysOlder
<1>3. IInv /\ ComponentsAreOlder => EqualTypesAreOne
  BY StructuresApart
<1> QED
  BY <1>1, <1>2, <1>3, Invariance, PTL DEF Spec
=============================================================================
