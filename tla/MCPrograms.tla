----------------------------- MODULE MCPrograms -----------------------------
(* Programs for Programs: files, each a sequence of packages.              *)
EXTENDS Programs

IntType == Type("int")
Long    == Type("long")
Object  == Type("object")

(* The core, with what it has of each kind.                                *)
Wrapper(name, type) ==
  <<Package(name, <<>>,
      <<Has("val", type, <<"ro">>),
        Sub("new", Type(name), <<type>>,
            <<Do(New(Type(name))), Assign(FieldAccess(Type(name), "val")), Return(Nothing)>>)>>)>>

Core ==
  <<Package("SPVM::CORE", <<>>,
      <<Use("SPVM::Complex_2f", <<>>), Use("SPVM::Comparator", <<>>), Our("EOF", IntType, <<"ro">>),
        Begin(<<Do(Call("function", "", "init", <<>>)), Assign(VarAccess("", "EOF"))>>),
        [Sub("init", VoidType, <<>>, <<>>) EXCEPT !.block = FALSE, !.descriptors = <<"native">>],
        Sub("print", VoidType, <<Type("string")>>, <<>>),
        Sub("sum", IntType, <<IntType, IntType>>, <<>>)>>)>>

Library ==
  [f \in ToSet(CorePackages) \cup {"SPVM::Complex_2f", "SPVM::Comparator"} |->
     CASE f = "SPVM::CORE"   -> Core
       [] f = "SPVM::Byte"   -> Wrapper(f, Type("byte"))
       [] f = "SPVM::Short"  -> Wrapper(f, Type("short"))
       [] f = "SPVM::Int"    -> Wrapper(f, IntType)
       [] f = "SPVM::Long"   -> Wrapper(f, Long)
       [] f = "SPVM::Float"  -> Wrapper(f, Type("float"))
       [] f = "SPVM::Double" -> Wrapper(f, Type("double"))
       [] f = "SPVM::Complex_2f"   ->
            <<Package(f, <<"value_t">>, <<Has("re", Type("float"), <<>>), Has("im", Type("float"), <<>>)>>)>>
       [] f = "SPVM::Comparator"   ->
            <<Package(f, <<"interface_t">>,
                <<[Sub("compare", IntType, <<SelfType, Object, Object>>, <<>>) EXCEPT !.block = FALSE]>>)>>]

Program(entry, files) == [entry |-> entry, files |-> files @@ Library]
One(name, decls) == Program(name, name :> <<Package(name, <<>>, decls)>>)
Main(decls) == One("Main", decls)
Runs(body) == Sub("main", VoidType, <<>>, body)

-----------------------------------------------------------------------------
(* Two packages that use each other; fields of every width, accessors, and *)
(* BEGIN blocks that write each other's variables.                         *)
Item ==
  Package("Item", <<"public">>,
    <<Use("Shop", <<>>),
      Has("weight", Type("byte"), <<"rw">>), Has("price", Long, <<"rw", "public">>),
      Has("owner", Type("Shop"), <<"wo">>), Has("code", Type("short"), <<"ro">>),
      Has("stock", IntType, <<>>),
      Our("COUNT", IntType, <<"rw">>), Our("BEST", Type("Item"), <<"ro">>),
      Begin(<<Assign(VarAccess("", "COUNT")), Do(Call("class", "Shop", "SET_OPEN", <<IntType>>))>>),
      Sub("new", Type("Item"), <<>>, <<Return(New(Type("Item")))>>),
      Sub("DESTROY", VoidType, <<SelfType>>, <<Assign(FieldAccess(SelfType, "stock"))>>)>>)

Shop ==
  Package("Shop", <<>>,
    <<Use("Item", <<>>), Enum(<<[name |-> "SMALL", number |-> <<>>], [name |-> "BIG", number |-> <<7>>],
                                [name |-> "HUGE", number |-> <<>>]>>),
      Our("OPEN", IntType, <<"wo">>), Our("ALL", ArrayOf(Type("Item")), <<>>),
      Begin(<<Do(Call("class", "Item", "SET_COUNT", <<IntType>>))>>),
      Sub("sell", Long, <<SelfType, Type("Item")>>,
          <<Do(Call("method", Type("Item"), "set_weight", <<Type("byte")>>)),
            Do(Call("method", Type("Item"), "code", <<>>)),
            Assign(FieldAccess(Type("Item"), "price")),
            Do(Call("class", "Item", "COUNT", <<>>)), Assign(VarAccess("", "ALL")),
            Do(Call("class", "Item", "new", <<>>)), Do(Call("class", "Shop", "HUGE", <<>>)),
            Do(Call("class", "Shop", "SMALL", <<>>)), Do(Call("class", "Shop", "rate", <<>>)),
            Return(Call("method", Type("Item"), "price", <<>>))>>),
      Sub("rate", IntType, <<>>, <<Return(Constant(3))>>)>>)

Circle == Program("Shop", "Shop" :> <<Shop>> @@ "Item" :> <<Item>>)

(* Names that the package, an import and the core all have, and modules    *)
(* that are there only perhaps.                                            *)
Util ==
  Package("Util", <<>>,
    <<Sub("print", VoidType, <<Type("string")>>, <<>>), Sub("max", IntType, <<ArrayOf(IntType)>>, <<>>),
      [Sub("log", VoidType, <<Type("string"), ArrayOf(Object)>>, <<>>) EXCEPT !.vaarg = TRUE]>>)

Names ==
  Program("Main",
    "Main" :> <<Package("Main", <<>>,
      <<Use("Util", <<"max", "print", "missing">>),
        Sub("sum", IntType, <<IntType, IntType>>, <<>>),
        Our("LOADED", IntType, <<>>),
        Begin(<<IfRequire("Absent", Assign(VarAccess("", "LOADED")))>>),
        Sub("other", VoidType, <<>>, <<Do(Call("function", "", "print", <<Type("string")>>))>>),
        Runs(<<Do(Call("function", "", "print", <<Type("string")>>)),
               Do(Call("function", "", "sum", <<IntType, IntType>>)),
               Do(Call("function", "", "max", <<ArrayOf(IntType)>>)),
               Do(Call("class", "Util", "log", <<Type("string"), IntType, IntType>>)),
               Do(Call("class", "Util", "log", <<Type("string"), ArrayOf(Object)>>)),
               IfRequire("Absent", Do(Call("class", "Absent", "run", <<>>))),
               IfRequire("Extra", Do(Call("class", "Extra", "run", <<>>)))>>)>>)>>
    @@ "Util" :> <<Util>>
    @@ "Extra" :> <<Package("Extra", <<>>,
         <<Use("Util", <<>>),
           Sub("run", VoidType, <<>>, <<Return(Call("function", "", "sum", <<IntType, IntType>>))>>)>>)>>)

(* Values, references, and an anonymous subroutine with what it captures.  *)
Point ==
  Package("Point_2i", <<"value_t">>, <<Has("y", IntType, <<>>), Has("x", IntType, <<>>)>>)

Closures ==
  Program("Main",
    "Main" :>
      <<AnonPackage([Sub("", IntType, <<SelfType, Object, Object>>,
                         <<Assign(Outer("limit")), Do(Outer("base")),
                           Return(Call("function", "", "sum", <<IntType, IntType>>))>>)
                       EXCEPT !.captures = <<[name |-> "limit", type |-> IntType],
                                             [name |-> "base", type |-> Type("byte")]>>]),
        Package("Main", <<>>,
          <<Use("Point_2i", <<>>),
            Sub("move", VoidType, <<Type("Point_2i"), RefTo(Type("Point_2i")), RefTo(IntType)>>,
                <<Assign(FieldAccess(Type("Point_2i"), "x")),
                  Assign(FieldAccess(RefTo(Type("Point_2i")), "y"))>>),
            Runs(<<Do(New(Type("anon0"))),
                   Do(Call("method", Type("SPVM::Comparator"), "compare", <<Object, Object>>))>>)>>)>>
    @@ "Point_2i" :> <<Point>>)

(* A package that has a file of its own and is also in another's.          *)
Lone(name) == name :> <<Package(name, <<>>, <<Has("x", IntType, <<>>), Our("X", IntType, <<>>),
                          Sub("f", IntType, <<SelfType>>, <<>>), Sub("DESTROY", VoidType, <<SelfType>>, <<>>)>>)>>
Nested ==
  Program("Main", Lone("Other") @@
    "Main" :> Lone("Other")["Other"] \o <<Package("Main", <<>>, <<Use("Other", <<>>)>>)>>)

-----------------------------------------------------------------------------
(* Programs that do not compile, one rule each.                            *)
Using(body) ==
  Program("Main", Lone("Other") @@ "Main" :> <<Package("Main", <<>>, <<Use("Other", <<>>), Runs(body)>>)>>)
Kind(descriptors, decls) == Program("Main", "Main" :> <<Package("Main", descriptors, decls)>>)

Rejected ==
  {Main(<<Use("Nowhere", <<>>)>>),
   Program("Main", "Main" :> <<Package("Mine", <<>>, <<>>)>>),
   Program("Main", "Main" :> <<Package("Main", <<>>, <<Use("Odd", <<>>)>>)>>
                   @@ "Odd" :> <<Package("Mine", <<>>, <<>>)>>),
   Main(<<Use("Main", <<"f">>), Sub("f", IntType, <<>>, <<>>)>>),
   Main(<<Has("x", IntType, <<"ro">>), Sub("x", IntType, <<SelfType>>, <<>>)>>),
   Main(<<Has("x", Type("SPVM::Complex_2f"), <<>>)>>),
   Main(<<Our("X", IntType, <<"ro", "rw">>)>>),
   Main(<<[Runs(<<>>) EXCEPT !.descriptors = <<"native">>]>>),
   Main(<<[Runs(<<>>) EXCEPT !.vaarg = TRUE, !.args = <<IntType>>]>>),
   Main(<<Sub("DESTROY", VoidType, <<>>, <<>>)>>),
   Main(<<Sub("f", VoidType, <<RefTo(Object)>>, <<>>)>>),
   Main(<<Runs(<<Do(Outer("limit"))>>)>>),
   Kind(<<"interface_t">>, <<Sub("f", IntType, <<SelfType>>, <<>>)>>),
   Kind(<<"value_t">>, <<Has("x", IntType, <<>>), Has("y", Long, <<>>)>>),
   Kind(<<"pointer_t">>, <<Has("x", IntType, <<>>)>>),
   Using(<<Do(FieldAccess(Type("Other"), "x"))>>),
   Using(<<Do(FieldAccess(Type("Other"), "z"))>>),
   Using(<<Do(VarAccess("Other", "X"))>>),
   Using(<<Do(New(Type("Other")))>>),
   Using(<<Do(Call("class", "Other", "f", <<>>))>>),
   Using(<<Do(Call("class", "Other", "g", <<>>))>>),
   Using(<<Do(Call("method", Type("Other"), "f", <<IntType>>))>>),
   Using(<<Do(Call("method", Type("Other"), "DESTROY", <<>>))>>)}

MCRepositories == {Circle, Names, Closures, Nested} \cup Rejected

(* As strcmp sorts them.                                                   *)
MCNameOrder ==
  <<"", "ALL", "Absent", "BEGIN", "BEST", "BIG", "CORE", "COUNT", "DESTROY", "EOF", "Extra",
    "HUGE", "Item", "LOADED", "Main", "Mine", "Nowhere", "OPEN", "Odd", "Other", "Point_2i",
    "SET_COUNT", "SET_OPEN", "SET_X", "SMALL", "SPVM::Byte", "SPVM::CORE",
    "SPVM::Comparator", "SPVM::Complex_2f", "SPVM::Double", "SPVM::Float", "SPVM::Int",
    "SPVM::Long", "SPVM::Short", "Shop", "Util", "X", "anon0", "base", "byte", "code",
    "compare", "double", "f", "float", "im", "init", "int", "limit", "log", "long", "main",
    "max", "missing", "move", "new", "oarray", "object", "other", "owner", "price", "print",
    "rate", "re", "run", "sell", "set_owner", "set_price", "set_weight", "set_x", "short",
    "stock", "string", "sum", "undef", "unknown", "val", "void", "weight", "x", "y", "z">>
=============================================================================
