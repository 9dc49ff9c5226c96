------------------------------ MODULE Coercion ------------------------------
(***************************************************************************)
(* How well a value of one type converts to another (type.c): the ranks of *)
(* enum coercion_rank, best last, for primitive types, closures, arrays,   *)
(* structures and the compounds that initialize them.                      *)
(***************************************************************************)
EXTENDS Integers, Sequences, FiniteSetsExt

Ranks ==
  <<"ellipsis", "matrixToBool", "tripleToBool", "scalarToMatrix", "scalarToTriple",
    "colorToSpatial", "spatialToColor", "spatialToNormal", "spatialToPoint",
    "spatialToVector", "stringToBool", "closureToBool", "scalarToBool", "toArray",
    "toFloat", "toInt", "toVoid", "exact">>

Number(rank) == CHOOSE k \in DOMAIN Ranks : Ranks[k] = rank
None  == 0                       \* COERCION_IMPOSSIBLE
Exact == Number("exact")

Scalars == {"int", "bool", "float"}
Spatial == {"point", "vector", "normal"}
Triples == Spatial \cup {"color"}

Components(prim) == IF prim \in Triples THEN 3 ELSE IF prim = "matrix" THEN 16 ELSE 1

Prim(p)      == [tag |-> "prim", prim |-> p]
Closure(t)   == [tag |-> "closure", inner |-> t]
Array(t, n)  == [tag |-> "array", elem |-> t, size |-> n]    \* unsized if n = 0
Compound(ts) == [tag |-> "compound", elems |-> ts]
Struct(ts)   == [tag |-> "struct", fields |-> ts]

\* prim_type_coercion_rank, the matrix
PrimRank(from, to) ==
  CASE from = to                               -> Exact
    [] from # to /\ to = "void"                -> Number("toVoid")
    [] from \in Scalars /\ to = "matrix"       -> Number("scalarToMatrix")
    [] from \in Scalars /\ to \in Triples      -> Number("scalarToTriple")
    [] from = "color" /\ to \in Spatial        -> Number("colorToSpatial")
    [] from \in Spatial /\ to = "color"        -> Number("spatialToColor")
    [] from \in Spatial \ {to} /\ to = "vector" -> Number("spatialToVector")
    [] from \in Spatial \ {to} /\ to = "normal" -> Number("spatialToNormal")
    [] from \in Spatial \ {to} /\ to = "point" -> Number("spatialToPoint")
    [] from = "matrix" /\ to = "bool"          -> Number("matrixToBool")
    [] from \in Triples /\ to = "bool"         -> Number("tripleToBool")
    [] from = "string" /\ to = "bool"          -> Number("stringToBool")
    [] from \in {"float", "int"} /\ to = "bool" -> Number("scalarToBool")
    [] from \in {"int", "bool"} /\ to = "float" -> Number("toFloat")
    [] from = "bool" /\ to = "int"             -> Number("toInt")
    [] OTHER                                   -> None

\* type_coercion_rank_to_prim_type
RECURSIVE RankToPrim(_, _)
RankToPrim(from, to) ==
  CASE to = "void" -> Number("toVoid")
    [] to # "void" /\ from.tag = "prim" -> PrimRank(from.prim, to)
    [] from.tag = "closure" /\ to = "bool" -> Number("closureToBool")
    [] from.tag = "compound" /\ to \in Triples \cup {"matrix"}
         /\ Components(to) = Len(from.elems) ->
           Min({RankToPrim(from.elems[k], "float") : k \in DOMAIN from.elems} \cup {Exact})
    [] OTHER -> None

\* The worst rank of the elements of a compound; one that is too short for what
\* it initializes is no better than an ellipsis.
Worst(ranks, isComplete) ==
  Min(ranks \cup {IF isComplete THEN Exact ELSE Number("ellipsis")})

\* type_coercion_rank
RECURSIVE TypeRank(_, _)
TypeRank(from, to) ==
  CASE from = to -> Exact
    [] from # to /\ to.tag = "prim" -> RankToPrim(from, to.prim)
    [] from # to /\ from.tag = "array" /\ to.tag = "array"
         /\ from.elem = to.elem /\ (to.size = 0 \/ from.size \in 1 .. to.size) ->
           Number("toArray")
    [] from.tag = "compound" /\ to.tag = "struct" /\ Len(from.elems) <= Len(to.fields) ->
           Worst({TypeRank(from.elems[k], to.fields[k]) : k \in DOMAIN from.elems},
                 Len(from.elems) = Len(to.fields))
    [] from.tag = "compound" /\ to.tag = "array"
         /\ (to.size = 0 \/ Len(from.elems) <= to.size) ->
           Worst({TypeRank(from.elems[k], to.elem) : k \in DOMAIN from.elems},
                 Len(from.elems) = to.size)
    [] OTHER -> None
=============================================================================
