--------------------------- MODULE MCExpressions ---------------------------
(***************************************************************************)
(* Trees over a dozen of names and literals: every operator on every pair, *)
(* calls, constructors, casts and accesses, some of them within each       *)
(* other, in every place that expects a type.                              *)
(***************************************************************************)
EXTENDS TypedTrees

Pair == Struct(<<FloatType, ColorType>>)
Row  == Array(FloatType, 2)

MCStructure == [name |-> "Pair", fields |-> Pair.fields, names |-> <<"x", "tint">>]

Var(type)   == [type |-> type, isMutable |-> TRUE]
Input(type) == [type |-> type, isMutable |-> FALSE]
MCVariables ==
  "i" :> Var(IntType) @@ "n" :> Input(IntType) @@ "x" :> Var(FloatType) @@ "b" :> Var(BoolType)
  @@ "c" :> Var(ColorType) @@ "v" :> Var(Prim("vector")) @@ "m" :> Var(Prim("matrix"))
  @@ "e" :> Var(Closure(ColorType)) @@ "p" :> Var(Pair) @@ "a" :> Var(Row) @@ "t" :> Var(Array(Row, 2))

In(type)  == [type |-> type, isOutput |-> FALSE]
Out(type) == [type |-> type, isOutput |-> TRUE]
Func(params, ret) == [params |-> params, hasEllipsis |-> FALSE, ret |-> ret]
MCFunctions ==
     "f" :> <<Func(<<In(FloatType)>>, FloatType), Func(<<In(ColorType)>>, ColorType), Func(<<In(Pair)>>, IntType)>>
  @@ "g" :> <<Func(<<Out(FloatType)>>, VoidType)>>
  @@ "h" :> <<[Func(<<In(StringType)>>, VoidType) EXCEPT !.hasEllipsis = TRUE]>>
  @@ "r" :> <<Func(<<>>, IntType), Func(<<>>, Pair)>>
  @@ "+" :> <<Func(<<In(Pair), In(Pair)>>, Pair), Func(<<In(Pair), In(FloatType)>>, Pair)>>
  @@ "*" :> <<Func(<<In(FloatType), In(Pair)>>, Pair)>>
  @@ "-x" :> <<Func(<<In(Pair)>>, Pair)>>

-----------------------------------------------------------------------------
Lit(op)  == Node("lit", op, <<>>)
Id(name) == Node("ident", name, <<>>)
Of(tag, ops, argLists) == {Node(tag, op, args) : op \in ops, args \in argLists}
Ones(S)   == {<<a>> : a \in S}
Twos(S, T) == {<<a, b>> : a \in S, b \in T}

Literals == {Lit(op) : op \in DOMAIN LiteralTypes}
Names    == {Id(name) : name \in DOMAIN MCVariables}
Wrong    == {Id("u"), Id("f"), Id("g"), Id("Pair")}
Atoms    == (Literals \ {Lit("0")}) \cup Names \cup Wrong
Few      == {Id("i"), Id("x"), Id("c"), Id("p"), Lit("1.5"), Id("u")}

Operators == {"+", "*", "-", "&", "%", "<", "+=", "*=", "<<="}
Simple == UNION {
  Atoms,
  Of("binary", Operators, Twos(Atoms, Atoms)),
  Of("unary", {"-x", "+x", "!x", "~x", "++x", "x++"}, Ones(Atoms)),
  Of("assign", {"="}, Twos(Atoms, Few)),
  Of("call", {"f", "g", "Pair", "u", "i"}, Ones(Atoms)),
  Of("call", {"h", "Pair", "+"}, Twos(Few \cup {Lit("text")}, Few)),
  Of("call", {"r", "f"}, {<<>>}),
  Of("construct", {"int", "color", "matrix", "string"}, Ones(Atoms) \cup Twos({Lit("text"), Id("x")}, Few)),
  {Node("construct", "color", <<Id("i"), a, Lit("1.5")>>) : a \in Few},
  Of("cast", {"int", "bool", "vector", "void"}, Ones(Atoms)),
  Of("index", {""}, Twos(Names \cup {Id("u")}, {Lit("0"), Lit("true"), Lit("1.5")})),
  Of("proj", {"x", "r", "tint", "w"}, Ones(Names \cup {Id("u")}))}

Inner ==
  Of("binary", {"+", "*"}, Twos({Id("i"), Id("p"), Id("e")}, {Id("x"), Id("p"), Id("c")}))
  \cup {Node("call", "f", <<Id("i")>>), Node("call", "r", <<>>), Node("proj", "tint", <<Id("p")>>),
        Node("index", "", <<Id("t"), Lit("0")>>), Node("index", "", <<Id("m"), Lit("0")>>),
        Node("index", "", <<Id("p"), Id("b")>>), Node("paren", "", <<Id("x")>>)}
Braces == Of("braces", {""}, {<<Lit("2"), Id("i")>>, <<Id("x"), Id("c")>>, <<Lit("2")>>,
                              <<Id("u"), Id("i")>>, <<Id("i"), Id("x"), Lit("2")>>})
Commas(op) == Of("comma", {op}, Twos(Few, Few \ {Id("u")}))
Rich == UNION {
  Inner,
  Braces,
  Of("logic", {"&&", "||"}, Twos(Few, Few \cup Inner)),
  {Node("paren", "", <<tree>>) : tree \in Commas("last")},
  {Node("ternary", "", <<a, b, d>>) : a \in {Id("b"), Id("x"), Id("u")},
           b \in Few \cup Braces, d \in Few \cup {Node("braces", "", <<Lit("2"), Id("c")>>)}},
  Of("apply", {""}, {<<Lit("2")>>, <<Lit("2"), Id("x")>>, <<Node("paren", "", <<Id("u")>>), Id("x")>>,
                          <<Lit("2"), Id("u")>>}),
  Of("index", {""}, Twos(Inner, {Lit("0"), Id("b"), Id("u")})),
  Of("proj", {"x", "r"}, Ones(Inner)),
  Of("call", {"f", "g"}, Ones(Inner \cup Braces)),
  Of("unary", {"-x", "++x"}, Ones(Inner)),
  Of("assign", {"="}, Twos(Inner, Few \cup Braces)),
  Of("binary", {"+", "*", "+=", "=="}, Twos(Few, Inner) \cup Twos(Inner, Few)),
  Of("binary", {"+"}, Twos({Node("paren", "", <<Node("comma", "last", <<Id("c"), Id("i")>>)>>)}, Few)),
  Of("call", {"Pair"}, Twos(Few, Inner))}

Parens == {Node("paren", "", <<tree>>) : tree \in Rich \cup Commas("last")}

-----------------------------------------------------------------------------
Pieces(kinds, types, dims, exprs) == [kind : kinds, type : types, dim : dims, expr : exprs]
Sizes == {<<>>, <<Lit("2")>>, <<Lit("0")>>, <<Lit("1.5")>>, <<Id("i")>>, <<Node("paren", "", <<Lit("2")>>)>>,
          <<Node("unsized", "", <<>>)>>}

MCUnits == <<
  Pieces({"statement"}, {VoidType}, {<<>>}, Ones(Simple)),
  Pieces({"statement"}, {VoidType}, {<<>>}, Ones(Rich \cup Commas("last") \cup Commas("followed"))),
  Pieces({"statement"}, {VoidType}, {<<>>}, Ones(Parens)),
  Pieces({"condition"}, {BoolType}, {<<>>}, Ones(Simple)),
  Pieces({"condition"}, {BoolType}, {<<>>}, Ones(Rich \cup Commas("last"))),
  Pieces({"return"}, {VoidType, IntType, Pair, ShaderType}, {<<>>}, UNION {{<<>>}, Ones(Atoms), Ones(Inner)}),
  Pieces({"variable"}, {FloatType, Pair}, {<<>>}, Ones(Simple)),
  Pieces({"variable"}, {FloatType, ColorType, Closure(ColorType), Pair}, {<<>>}, Ones(Rich)),
  Pieces({"variable"}, {VoidType, IntType, Row}, Sizes, UNION {{<<>>, <<Id("a")>>}, Ones(Braces)}),
  Pieces({"parameter"}, {VoidType, IntType, Pair}, Sizes, {<<>>})>>
=============================================================================
