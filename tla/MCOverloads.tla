----------------------------- MODULE MCOverloads -----------------------------
(***************************************************************************)
(* Overloads with the ranks of type.c, for functions of one and two        *)
(* parameters, some with an output parameter or an ellipsis.               *)
(***************************************************************************)
EXTENDS Overloads, Coercion

CONSTANT MCNoType, MCNoFunction

IntT    == Prim("int")
FloatT  == Prim("float")
ColorT  == Prim("color")
VectorT == Prim("vector")
VoidT   == Prim("void")
Braces  == Compound(<<IntT, FloatT, IntT>>)
Triple  == Array(IntT, 3)
Record  == Struct(<<IntT, FloatT, IntT, IntT>>)

MCTypes == {IntT, FloatT, ColorT, VectorT, VoidT, Braces, Triple, Record}

MCRank == [p \in MCTypes \X MCTypes |-> TypeRank(p[1], p[2])]

In(t)  == [type |-> t, isOutput |-> FALSE]
Out(t) == [type |-> t, isOutput |-> TRUE]
Takes(params, returned) == [params |-> params, hasEllipsis |-> FALSE, ret |-> returned]
TakesMore(params, returned) == [params |-> params, hasEllipsis |-> TRUE, ret |-> returned]

MCFunctions ==
  {Takes(<<In(FloatT)>>, FloatT), Takes(<<In(ColorT)>>, ColorT), Takes(<<In(ColorT)>>, VectorT),
   Takes(<<In(Triple)>>, VectorT), TakesMore(<<In(IntT)>>, IntT), Takes(<<Out(FloatT)>>, VoidT),
   Takes(<<In(ColorT), In(FloatT)>>, VectorT), Takes(<<In(FloatT), In(VectorT)>>, ColorT),
   Takes(<<In(IntT), In(ColorT)>>, ColorT), TakesMore(<<>>, FloatT),
   Takes(<<In(Record)>>, FloatT)}

ArgumentTypes == {IntT, FloatT, ColorT, Braces}
MCArgument == {[type |-> t, isMutable |-> m] : t \in ArgumentTypes, m \in BOOLEAN}

\* At most one argument is a variable.
MCArguments ==
  {s \in UNION {[1 .. n -> MCArgument] : n \in 1 .. 2} :
     \A k \in DOMAIN s : s[k].isMutable => k = 1 /\ s[k].type = FloatT}

MCReturnTypes == {FloatT, VectorT, MCNoType}
=============================================================================
