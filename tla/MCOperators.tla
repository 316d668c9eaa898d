---------------------------- MODULE MCOperators ----------------------------
(***************************************************************************)
(* Statements over variables of two numeric types: every operator on every *)
(* pair of types at the ends of their ranges, every kind of place as       *)
(* source and destination of =, op=, ++ and --, and every condition.       *)
(***************************************************************************)
EXTENDS Operators

Bases == {"byte", "short", "int", "long", "float", "double"}
Ends(t) == IF Integral(t) THEN {MinOf(t), -1, 0, MaxOf(t)} ELSE {-3, 0, IF t = "float" THEN 12 ELSE 25}
Usual(t) == IF Integral(t) THEN 1 ELSE 3

IntVar(n) == Var(n, Num("int"))
Assignment(src, dist) == Op("ASSIGN", <<src, dist>>)
ToNew(src) == Assignment(src, Var("z", NoType))
Both(k, e, f) == Op(k, <<e, f>>)
X(t) == Var("x", Num(t))
Y(t) == Var("y", Num(t))
ArrayOf(t) == Var("a", Type("numeric[]", t))
ValuesOf(t) == Var("va", Type("value[]", t))
Point(n, t) == Var(n, Type("value", t))
Object(n, t) == Var(n, Type("object", t))
String(n) == Var(n, Type("string", "byte"))
Element(array, index) == Op("ARRAY_ACCESS", <<array, index>>)
Places(t) ==
  {X(t), Element(ArrayOf(t), IntVar("i")), FieldAccess(Element(ValuesOf(t), IntVar("i")), 1),
   FieldAccess(Point("v", t), 1), FieldAccess(Var("w", Type("value&", t)), 1),
   FieldAccess(Object("o", t), 1), PackageVar(t), Op("DEREF", <<Var("r", Type("numeric&", t))>>)}

\* x and every other place of its type hold vx, y holds vy; the index i is 1.
Memory(t, u, vx, vy) ==
  [regs |-> (Reg(t, <<"x", <<>>>>, 0) :> vx) @@ (Reg(u, <<"y", <<>>>>, 0) :> vy) @@
            (Reg("int", <<"i", <<>>>>, 0) :> 1) @@ (Reg("int", <<"far", <<>>>>, 0) :> 2) @@
            (Reg(t, <<"v", <<>>>>, 0) :> 0) @@ (Reg(t, <<"v", <<>>>>, 1) :> vx) @@
            (Reg("ref", <<"r", <<>>>>, 0) :> Reg(t, <<"x", <<>>>>, 0)) @@
            (Reg("ref", <<"w", <<>>>>, 0) :> Reg(t, <<"v", <<>>>>, 0)) @@
            [r \in {Reg("object", <<n, <<>>>>, 0) : n \in {"a", "va", "o", "s1", "s2", "none"}} |->
               [a |-> 1, va |-> 2, o |-> 3, s1 |-> 4, s2 |-> 5, none |-> 0][r[2][1]]],
   heap |-> <<[length |-> 2, data |-> <<0, vx>>], [length |-> 2, data |-> <<0, 0, 0, vx>>],
              [length |-> 0, data |-> <<0, vx>>], [length |-> 1, data |-> <<1>>], [length |-> 1, data |-> <<2>>]>>,
   pv |-> vx, flag |-> 0, raised |-> FALSE]
\* The trees run with every x of xs and y of ys.
Run(trees, t, u, xs, ys) == [tree : trees, memory : {Memory(t, u, x, y) : x \in xs, y \in ys}]

BinaryTrees(t, u) == {ToNew(Both(k, X(t), Y(u))) : k \in Arithmetic \cup IntegralOps \cup Shifts}
RelationTrees(t, u) == {Both(k, X(t), Y(u)) : k \in NumericEq \cup NumericOrder}
ConversionTrees(t, u) == {ToNew(Conversion(Y(u), Num(t))), Assignment(Y(u), X(t))}
PairPrograms ==
  UNION {Run(BinaryTrees(t, u) \cup RelationTrees(t, u) \cup ConversionTrees(t, u), t, u, Ends(t), Ends(u)) :
           t \in Bases, u \in Bases}

StepTrees(t) == UNION {{Op(k, <<p>>), ToNew(Op(k, <<p>>))} :
                         k \in {"PRE_INC", "PRE_DEC", "POST_INC", "POST_DEC"}, p \in Places(t)}
UnaryTrees(t) == {ToNew(Op(k, <<X(t)>>)) : k \in Unary}
StepPrograms == UNION {Run(StepTrees(t) \cup UnaryTrees(t), t, t, Ends(t), {0}) : t \in Bases}

PlaceTrees(t, u) ==
  UNION {{ToNew(p), Assignment(Y(u), p), Assignment(Conversion(Y(u), Num(t)), p), ToNew(Assignment(Y(u), p)),
          Assignment(Both("ADD", p, Y(u)), Y(u))}
         \cup {SpecialAssign(k, Y(u), p) : k \in {"ADD", "DIVIDE", "REMAINDER", "BIT_XOR", "LEFT_SHIFT"}} : p \in Places(t)}
\* An index that changes is computed once, however often the place is named.
StepDown == Op("POST_DEC", <<IntVar("i")>>)
MovingPlaces(t) == {Element(ArrayOf(t), StepDown), FieldAccess(Element(ValuesOf(t), StepDown), 1)}
NestedTrees(t, u) ==
  UNION {{SpecialAssign(k, Y(u), p) : k \in {"ADD", "RIGHT_LOGICAL_SHIFT"}}
         \cup {ToNew(Op(k, <<p>>)) : k \in {"PRE_INC", "POST_DEC"}}
         \cup {ToNew(p), Assignment(Y(u), p), Assignment(Both("SUBTRACT", p, Y(u)), p)} : p \in MovingPlaces(t)}
  \cup UNION {{SpecialAssign("SUBTRACT", Both("MULTIPLY", p, Y(u)), p),
                ToNew(Assignment(SpecialAssign("ADD", Y(u), p), X(t))),
                Both("NUMERIC_LT", Both("ADD", p, Y(u)), Op("MINUS", <<p>>))} : p \in Places(t)}
  \cup {Assignment(Op(k, <<Y(u)>>), p) : k \in {"PRE_INC", "POST_DEC"}, p \in Places(t)}
PlacePrograms == UNION {Run(PlaceTrees(t, u) \cup NestedTrees(t, u), t, u, {Usual(t)}, {Usual(u)}) : t \in Bases, u \in Bases}

WholeTrees(t) ==
  LET at == Element(ValuesOf(t), IntVar("i"))
      w == Var("w", Type("value&", t))
      none(form) == Var("none", Type(form, t))
  IN {Assignment(at, Point("v", t)), Assignment(Point("v", t), at), ToNew(Point("v", t)),
      ToNew(Op("DEREF", <<w>>)), ToNew(Op("REF", <<Point("v", t)>>)), ToNew(Op("REF", <<X(t)>>)), ToNew(w),
      ToNew(Object("o", t)), Assignment(Undef, Object("o", t)),
      ToNew(Op("ARRAY_LENGTH", <<ArrayOf(t)>>)), ToNew(Op("ARRAY_LENGTH", <<none("numeric[]")>>)),
      ToNew(Element(ArrayOf(t), IntVar("far"))), ToNew(Element(ValuesOf(t), IntVar("far"))),
      ToNew(Element(none("numeric[]"), IntVar("i"))), ToNew(FieldAccess(none("object"), 1)),
      ToNew(FieldAccess(Element(none("value[]"), IntVar("i")), 1)),
      Assignment(X(t), Element(ArrayOf(t), IntVar("far"))), Assignment(Point("v", t), Element(ValuesOf(t), IntVar("far"))),
      Assignment(X(t), FieldAccess(Element(ValuesOf(t), IntVar("far")), 1)),
      Assignment(X(t), FieldAccess(none("object"), 1)),
      Assignment(Constant("int", 1), X(t)), Assignment(Constant("int", 1), PackageVar(t)),
      Assignment(Op("PRE_INC", <<PackageVar(t)>>), Element(ArrayOf(t), Both("SUBTRACT", IntVar("far"), Constant("int", 1)))),
      SpecialAssign("MULTIPLY", Constant("int", 3), X(t)), Element(ArrayOf(t), Constant("int", 0))}
ObjectConditions ==
  {Both(k, e, f) : k \in NumericEq, e \in {Object("o", "int"), Object("none", "int"), Undef},
                   f \in {Object("o", "int"), Object("none", "int"), Undef}}
  \cup {Op("BOOL", <<e>>) : e \in {Object("o", "int"), Object("none", "int"), Undef}}
  \cup {Both(k, String("s1"), String("s2")) : k \in StringCompare}
  \cup {Both(k, String("s2"), String("s1")) : k \in StringCompare}
  \cup {Both(k, String("s1"), String("s1")) : k \in StringCompare \ {"STRING_LT"}}
  \cup {Both(k, String("s1"), String("none")) : k \in StringCompare}
Truths(t) == {Op("BOOL", <<X(t)>>), Op("BOOL", <<Both("ADD", X(t), Constant("int", 1))>>),
              Both("NUMERIC_GT", X(t), Constant("int", 0))}
OtherPrograms ==
  UNION {Run(WholeTrees(t), t, t, {Usual(t)}, {0}) : t \in Bases}
  \cup UNION {Run(Truths(t), t, t, Ends(t), {0}) : t \in Bases \ {"byte", "short"}}
  \cup Run(ObjectConditions, "int", "int", {1}, {0})

MCPrograms == PairPrograms \cup StepPrograms \cup PlacePrograms \cup OtherPrograms
=============================================================================
