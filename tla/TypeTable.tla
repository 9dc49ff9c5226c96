----------------------------- MODULE TypeTable -----------------------------
(***************************************************************************)
(* The type table (type_table.c): every type is registered once in a hash  *)
(* set, so that the checker compares types by pointer.  A type refers to   *)
(* its components by pointer and is hashed by their identifiers; a         *)
(* structure is hashed by its own identifier, since its fields are set     *)
(* after it is registered (check_struct_decl).                             *)
(*                                                                         *)
(* A pointer to a type is its index in types; one to an array of           *)
(* parameters is its index in paramArrays, and one to an array of element  *)
(* types is its index in elemArrays.                                       *)
(***************************************************************************)
EXTENDS Naturals, Sequences

CONSTANTS
  PrimTypes, ShaderTypes,  \* enum prim_type and enum shader_type
  Sizes,       \* numbers of elements of sized arrays
  MaxParts,    \* bound on parameters, elements and fields
  MaxTypes,    \* bound on the types registered
  Hash(_, _)   \* hash_uint8, hash_uint32 and hash_uint64 over a tag and numbers

ASSUME TypeTableAssumption ==
  /\ PrimTypes \subseteq Nat /\ ShaderTypes \subseteq Nat
  /\ Sizes \subseteq Nat \ {0}
  /\ MaxParts \in Nat /\ MaxTypes \in Nat

VARIABLES
  types,      \* the types in the memory pool
  paramArrays, elemArrays,  \* the arrays there
  table,      \* the set: the types registered, with the hash each was put in with
  answers,    \* history: what was asked for, and the pointer that was returned
  struct,     \* the structure that is being declared
  fieldCount  \* field_index in check_struct_decl: how many of its fields are set

vars == <<types, paramArrays, elemArrays, table, answers, struct, fieldCount>>

Null == 0

Pointers == 1 .. Len(types)

-----------------------------------------------------------------------------
(* Descriptions: what a type is, with its arrays spelled out. *)

ErrorType          == [tag |-> "error"]
PrimType(p)        == [tag |-> "prim", prim |-> p]
ShaderType(s)      == [tag |-> "shader", shader |-> s]
ClosureType(a)     == [tag |-> "closure", inner |-> a]
ArrayType(a, n)    == [tag |-> "array", elem |-> a, count |-> n]   \* unsized if n = 0
FuncType(a, ps, e) == [tag |-> "func", ret |-> a, params |-> ps, hasEllipsis |-> e]
CompoundType(ts)   == [tag |-> "compound", elems |-> ts]
StructType(a)      == [tag |-> "struct", self |-> a]

\* An array at a pointer; one of a caller is gone when the call has returned.
Contents(pool, p) == IF p = Null THEN <<>> ELSE pool[p]

\* What the type at a pointer is.
Described(a) ==
  LET t == types[a].is IN
    CASE t.tag = "func"     -> FuncType(t.ret, Contents(paramArrays, t.params), t.hasEllipsis)
      [] t.tag = "compound" -> CompoundType(Contents(elemArrays, t.elems))
      [] t.tag = "struct"   -> StructType(a)
      [] OTHER              -> t

\* Slip: parameters are compared by type only.
SameTypes(ps, qs) ==
  Len(ps) = Len(qs) /\ \A k \in DOMAIN ps : ps[k].type = qs[k].type

SameParams(ps, qs) ==
  Len(ps) = Len(qs) /\ \A k \in DOMAIN ps : ps[k] = qs[k]

\* Slip: there is no case for compounds, which are left to the comparison of
\* pointers, and the key has a pointer of its own.
SameKey(ts, us) == FALSE

SameElems(ts, us) ==
  Len(ts) = Len(us) /\ \A k \in DOMAIN ts : ts[k] = us[k]

\* is_type_equal: components are compared by pointer, and so are structures.
Same(d, e) ==
  /\ d.tag = e.tag
  /\ d.tag = "prim" => d.prim = e.prim
  /\ d.tag = "shader" => d.shader = e.shader
  /\ d.tag = "closure" => d.inner = e.inner
  /\ d.tag = "array" => d.count = e.count /\ d.elem = e.elem
  /\ d.tag = "func" => d.ret = e.ret /\ d.hasEllipsis = e.hasEllipsis /\ SameParams(d.params, e.params)
  /\ d.tag = "compound" => SameElems(d.elems, e.elems)
  /\ d.tag = "struct" => d.self = e.self

Identifier(a) == IF a = Null THEN 0 ELSE types[a].id
Identifiers(as) == [k \in DOMAIN as |-> Identifier(as[k])]
Bit(b) == IF b THEN 1 ELSE 0

\* Slip: a structure is hashed by its fields.
HashOfFields(a) == Hash("struct", Identifiers(types[a].is.fields))

HashOfStruct(a) == Identifier(a)

\* hash_type
HashOf(d) ==
  CASE d.tag = "error"   -> Hash("error", <<>>)
    [] d.tag = "prim"    -> Hash("prim", <<d.prim>>)
    [] d.tag = "shader"  -> Hash("shader", <<d.shader>>)
    [] d.tag = "closure" -> Hash("closure", <<Identifier(d.inner)>>)
    [] d.tag = "array"   -> Hash("array", <<d.count, Identifier(d.elem)>>)
    [] d.tag = "func"    ->
         Hash("func", <<Bit(d.hasEllipsis), Identifier(d.ret)>>
                        \o [k \in DOMAIN d.params |-> Identifier(d.params[k].type)]
                        \o [k \in DOMAIN d.params |-> Bit(d.params[k].isOutput)])
    [] d.tag = "compound" -> Hash("compound", Identifiers(d.elems))
    [] d.tag = "struct"  -> HashOfStruct(d.self)

\* type_set_find: an entry is found by the hash it was put in with.
Found(d) ==
  LET hash == HashOf(d) IN
    {a \in Pointers : /\ Same(Described(a), d)
                     /\ \E k \in DOMAIN table : table[k] = [type |-> a, hash |-> hash]}

-----------------------------------------------------------------------------
(* Operations. *)

\* Slip: the array of the caller is kept.
KeptArray(pool, xs) == [pool |-> pool, at |-> Null]

\* copy_func_params and copy_types
CopiedArray(pool, xs) == [pool |-> Append(pool, xs), at |-> Len(pool) + 1]

\* A new type is put in the set, with the number of types before it as its identifier.
Register(t, hash) ==
  /\ Len(types) < MaxTypes
  /\ types' = Append(types, [id |-> Len(table), is |-> t])
  /\ table' = Append(table, [type |-> Len(types) + 1, hash |-> hash])

\* insert_type, for a description that is not in the set
Add(d) ==
  /\ CASE d.tag = "func" ->
            LET copy == CopiedArray(paramArrays, d.params) IN
              /\ Register([d EXCEPT !.params = copy.at], HashOf(d))
              /\ paramArrays' = copy.pool /\ UNCHANGED elemArrays
       [] d.tag = "compound" ->
            LET copy == CopiedArray(elemArrays, d.elems) IN
              /\ Register([d EXCEPT !.elems = copy.at], HashOf(d))
              /\ elemArrays' = copy.pool /\ UNCHANGED paramArrays
       [] OTHER -> Register(d, HashOf(d)) /\ UNCHANGED <<paramArrays, elemArrays>>
  /\ answers' = answers \cup {<<d, Len(types) + 1>>}

\* insert_type
Insert(d) ==
  LET found == Found(d) IN
    \/ found = {} /\ Add(d)
    \/ \E a \in found :
         /\ answers' = answers \cup {<<d, a>>}
         /\ UNCHANGED <<types, paramArrays, elemArrays, table>>

\* The types that the checker has been given.
Known == Pointers \ {struct}

ParamsOf(S) == [type : S, isOutput : BOOLEAN]
Lists(S) == UNION {[1 .. n -> S] : n \in 0 .. MaxParts}

Unstructured == UNCHANGED <<struct, fieldCount>>

MakeErrorType   == Insert(ErrorType) /\ Unstructured
MakePrimType    == (\E p \in PrimTypes : Insert(PrimType(p))) /\ Unstructured
MakeShaderType  == (\E s \in ShaderTypes : Insert(ShaderType(s))) /\ Unstructured
MakeClosureType == (\E a \in Known : Insert(ClosureType(a))) /\ Unstructured
MakeSizedArrayType ==
  (\E a \in Known, n \in Sizes : Insert(ArrayType(a, n))) /\ Unstructured
MakeUnsizedArrayType == (\E a \in Known : Insert(ArrayType(a, 0))) /\ Unstructured
MakeFuncType ==
  /\ \E a \in Known, ps \in Lists(ParamsOf(Known)), e \in BOOLEAN : Insert(FuncType(a, ps, e))
  /\ Unstructured
MakeCompoundType == (\E ts \in Lists(Known) : Insert(CompoundType(ts))) /\ Unstructured

\* type_table_create_struct_type: the fields are not known yet.
CreateStructType ==
  /\ struct = Null
  /\ \E n \in 0 .. MaxParts :
       Register([tag |-> "struct", fields |-> [k \in 1 .. n |-> Null]], Len(table))
  /\ struct' = Len(types) + 1 /\ fieldCount' = 0
  /\ UNCHANGED <<paramArrays, elemArrays, answers>>

Fields == types[struct].is.fields

\* check_struct_decl, one field
SetField ==
  /\ struct # Null /\ fieldCount < Len(Fields)
  /\ \E a \in Known : types' = [types EXCEPT ![struct].is.fields[fieldCount + 1] = a]
  /\ fieldCount' = fieldCount + 1
  /\ UNCHANGED <<paramArrays, elemArrays, table, answers, struct>>

\* type_table_finalize_struct_type asserts that the structure is found; the
\* constructor takes its fields (type_table_make_constructor_type).
FinishStructType ==
  /\ struct # Null /\ fieldCount = Len(Fields)
  /\ Insert(FuncType(struct, [k \in 1 .. Len(Fields) |-> [type |-> Fields[k], isOutput |-> FALSE]], FALSE))
  /\ struct' = Null /\ fieldCount' = 0

Init ==
  /\ types = <<>> /\ paramArrays = <<>> /\ elemArrays = <<>> /\ table = <<>> /\ answers = {}
  /\ struct = Null /\ fieldCount = 0

Next ==
  \/ MakeErrorType \/ MakePrimType \/ MakeShaderType \/ MakeClosureType
  \/ MakeSizedArrayType \/ MakeUnsizedArrayType \/ MakeFuncType \/ MakeCompoundType
  \/ CreateStructType \/ SetField \/ FinishStructType

Spec == Init /\ [][Next]_vars

-----------------------------------------------------------------------------
(* Properties. *)

\* What the checker asks for: types without an array, and those with one.
Plain ==
  {ErrorType}
    \cup [tag : {"prim"}, prim : PrimTypes]
    \cup [tag : {"shader"}, shader : ShaderTypes]
    \cup [tag : {"closure"}, inner : Pointers]
    \cup [tag : {"array"}, elem : Pointers, count : Sizes \cup {0}]
Funcs(P)     == [tag : {"func"}, ret : Pointers, params : P, hasEllipsis : BOOLEAN]
Compounds(P) == [tag : {"compound"}, elems : P]
Structs      == [tag : {"struct"}, fields : Seq(Pointers \cup {Null})]

Descriptions == Plain \cup Funcs(Seq(ParamsOf(Pointers))) \cup Compounds(Seq(Pointers))

IsStruct(a) == types[a].is.tag = "struct"

TypeOK ==
  /\ types \in Seq([id : Nat, is : Plain \cup Funcs(DOMAIN paramArrays)
                           \cup Compounds(DOMAIN elemArrays) \cup Structs])
  /\ paramArrays \in Seq(Seq(ParamsOf(Pointers)))
  /\ elemArrays \in Seq(Seq(Pointers))
  /\ \A a \in Pointers : types[a].id = a - 1    \* elem_count when it was registered
  /\ struct # Null => struct \in Pointers /\ IsStruct(struct)
  /\ \A p \in answers : p = <<p[1], p[2]>> /\ p[2] \in Pointers /\ ~IsStruct(p[2])

\* A type that was registered is found by its description ever after, although
\* the fields of a structure change while it is in the set: the assertion of
\* type_table_finalize_struct_type, and that of register_type for its absence.
RegisteredAreFound == \A a \in Pointers : Found(Described(a)) = {a}

\* What the checker was given is still what it asked for, although the arrays it
\* passed are gone (insert_type).
AnswersHold == \A p \in answers : p[2] \in Pointers /\ Described(p[2]) = p[1]

\* The table holds the types in order, each with the hash it would be looked up
\* with now, every type but a structure was asked for, and no two are the same.
TableInOrder == table = [a \in Pointers |-> [type |-> a, hash |-> HashOf(Described(a))]]

TypesWereAskedFor == \A a \in Pointers : ~IsStruct(a) => <<Described(a), a>> \in answers

NoneTwice == \A a, b \in Pointers : Described(a) = Described(b) => a = b

\* The fields of the structure that is being declared are set in order.
FieldsAreSet ==
  struct # Null =>
    fieldCount \in 0 .. Len(Fields) /\ \A k \in 1 .. fieldCount : Fields[k] \in Pointers

IInv == TypeOK /\ FieldsAreSet /\ TableInOrder /\ TypesWereAskedFor /\ AnswersHold /\ NoneTwice

\* The types a description refers to.  They were registered before it, so taking a
\* type apart ends.
Components(d) ==
  CASE d.tag = "closure"  -> {d.inner}
    [] d.tag = "array"    -> {d.elem}
    [] d.tag = "func"     -> {d.ret} \cup {d.params[k].type : k \in DOMAIN d.params}
    [] d.tag = "compound" -> {d.elems[k] : k \in DOMAIN d.elems}
    [] OTHER              -> {}

ComponentsAreOlder == \A a \in Pointers : Components(Described(a)) \subseteq 1 .. a - 1

\* A description with what u gives for its components in their place.
Spelled(u, d) ==
  CASE d.tag = "closure"  -> ClosureType(u[d.inner])
    [] d.tag = "array"    -> ArrayType(u[d.elem], d.count)
    [] d.tag = "func"     ->
         FuncType(u[d.ret],
                  [k \in DOMAIN d.params |->
                     [type |-> u[d.params[k].type], isOutput |-> d.params[k].isOutput]],
                  d.hasEllipsis)
    [] d.tag = "compound" -> CompoundType([k \in DOMAIN d.elems |-> u[d.elems[k]]])
    [] OTHER              -> d

\* Each type with its components spelled out, and theirs; a structure has none but
\* its declaration.
Structures == LET u[a \in Pointers] == Spelled(u, Described(a)) IN u

\* The checker compares types by pointer: two types with the same structure are
\* one, however deep the difference would be (is_type_equal compares only one
\* level).
EqualTypesAreOne ==
  LET u == Structures IN \A a, b \in Pointers : u[a] = u[b] => a = b

\* A description has one pointer, and each declaration of a structure another one.
Interned == INSTANCE Interning
  WITH interned <- answers,
       structs <- {a \in Pointers : IsStruct(a)}
ImplementsInterning == Interned!Spec
=============================================================================
