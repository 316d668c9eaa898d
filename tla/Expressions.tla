---------------------------- MODULE Expressions ----------------------------
(***************************************************************************)
(* Numeric expressions from the syntax tree to opcodes.  The checker       *)
(* (spvm_op_checker.c) types a tree bottom-up, inserts conversions, breaks *)
(* ++, -- and op= down to assignments and gives a variable to every        *)
(* intermediate value; the builder (spvm_opcode_builder.c) then selects an *)
(* opcode for each assignment from the types of its two sides.             *)
(*                                                                         *)
(* A node is a record [k, op, t, n, v, a]: kind (an id of spvm_op.h),      *)
(* operator of op=, type, name of a variable, value of a constant or index *)
(* of a field, and children.  As in the code, the first child of ASSIGN is *)
(* its source and the last its destination.                                *)
(***************************************************************************)
EXTENDS Numbers, Sequences, SequencesExt

(* ------------------------------- types -------------------------------- *)
\* value and object types have fields of one numeric type, their base.
Type(f, b) == [form |-> f, base |-> b]
Num(b) == Type("numeric", b)
NoType == Type("none", "")
UndefType == Type("undef", "")
IsNumeric(t) == t.form = "numeric"
IsIntegral(t) == IsNumeric(t) /\ Integral(t.base)
IsSmall(t) == IsNumeric(t) /\ t.base \in {"byte", "short"}
IsArray(t) == t.form \in {"numeric[]", "value[]"}
IsObject(t) == IsArray(t) \/ t.form \in {"object", "string"}
IsRef(t) == t.form \in {"numeric&", "value&"}

(* ------------------------------- nodes -------------------------------- *)
Node(k, op, t, n, v, a) == [k |-> k, op |-> op, t |-> t, n |-> n, v |-> v, a |-> a]
NoName == <<"", <<>>>>
NamedVar(n, t) == Node("VAR", "", t, n, 0, <<>>)
Var(n, t) == NamedVar(<<n, <<>>>>, t)
Constant(b, v) == Node("CONSTANT", "", Num(b), NoName, v, <<>>)
Undef == Node("UNDEF", "", UndefType, NoName, 0, <<>>)
PackageVar(b) == Node("PACKAGE_VAR_ACCESS", "", Num(b), NoName, 0, <<>>)
Op(k, a) == Node(k, "", NoType, NoName, 0, a)
FieldAccess(e, v) == Node("FIELD_ACCESS", "", NoType, NoName, v, <<e>>)
Conversion(e, t) == Node("CONVERT", "", t, NoName, 0, <<e>>)
SpecialAssign(op, src, dist) == Node("SPECIAL_ASSIGN", op, NoType, NoName, 0, <<src, dist>>)
Error == Op("error", <<>>)

Arithmetic == {"ADD", "SUBTRACT", "MULTIPLY", "DIVIDE"}
IntegralOps == {"REMAINDER", "BIT_AND", "BIT_OR", "BIT_XOR"}
Shifts == {"LEFT_SHIFT", "RIGHT_ARITHMETIC_SHIFT", "RIGHT_LOGICAL_SHIFT"}
Unary == {"PLUS", "MINUS", "BIT_NOT"}
NumericEq == {"NUMERIC_EQ", "NUMERIC_NE"}
NumericOrder == {"NUMERIC_GT", "NUMERIC_GE", "NUMERIC_LT", "NUMERIC_LE"}
StringCompare == {"STRING_EQ", "STRING_NE", "STRING_GT", "STRING_GE", "STRING_LT", "STRING_LE"}
Relational == NumericEq \cup NumericOrder \cup StringCompare

\* The type of a node whose children are typed.
TypeOf(e) ==
  CASE e.k \in Relational \cup {"BOOL", "ARRAY_LENGTH"} -> Num("int")
    [] e.k \in Arithmetic \cup IntegralOps \cup Shifts \cup Unary -> e.a[1].t
    [] e.k \in {"ASSIGN", "SEQUENCE"} -> Last(e.a).t
    [] e.k = "ARRAY_ACCESS" -> Type(IF e.a[1].t.form = "value[]" THEN "value" ELSE "numeric", e.a[1].t.base)
    [] e.k \in {"FIELD_ACCESS", "ARRAY_FIELD_ACCESS"} -> Num(e.a[1].t.base)
    [] e.k = "DEREF" -> Type(IF e.a[1].t.form = "value&" THEN "value" ELSE "numeric", e.a[1].t.base)
    [] e.k = "REF" -> Type(IF e.a[1].t.form = "value" THEN "value&" ELSE "numeric&", e.a[1].t.base)
    [] OTHER -> e.t
Typed(e) == [e EXCEPT !.t = TypeOf(e)]

(* ------------------------------ checker ------------------------------- *)
Converted(e, t) == IF e.t = t THEN e ELSE Conversion(e, t)
Widened(e) == IF IsNumeric(e.t) /\ Rank(e.t.base) < Rank("int") THEN Conversion(e, Num("int")) ELSE e
Common(t, u) ==
  LET r == IF Rank(t.base) > Rank(u.base) THEN Rank(t.base) ELSE Rank(u.base)
  IN Num(NumericTypes[IF r > Rank("int") THEN r ELSE Rank("int")])
Balanced(e) ==
  LET c == Common(e.a[1].t, e.a[2].t)
  IN Typed([e EXCEPT !.a = <<Converted(e.a[1], c), Converted(e.a[2], c)>>])

CheckArithmetic(e) == IF IsNumeric(e.a[1].t) /\ IsNumeric(e.a[2].t) THEN Balanced(e) ELSE Error
CheckIntegral(e) == IF IsIntegral(e.a[1].t) /\ IsIntegral(e.a[2].t) THEN Balanced(e) ELSE Error
\* Deviation: the count of a shift is not widened.
CheckShiftCountAsIs(e) ==
  IF IsIntegral(e.a[1].t) /\ IsIntegral(e.a[2].t) /\ e.a[2].t.base # "long"
  THEN Typed([e EXCEPT !.a = <<Widened(e.a[1]), e.a[2]>>])
  ELSE Error
CheckShift(e) ==
  IF IsIntegral(e.a[1].t) /\ IsIntegral(e.a[2].t) /\ e.a[2].t.base # "long"
  THEN Typed([e EXCEPT !.a = <<Widened(e.a[1]), Widened(e.a[2])>>])
  ELSE Error
\* Deviation: the operand is not widened.
CheckUnaryAsIs(e) ==
  IF IsNumeric(e.a[1].t) /\ (e.k = "BIT_NOT" => IsIntegral(e.a[1].t)) THEN Typed(e) ELSE Error
CheckUnary(e) ==
  IF IsNumeric(e.a[1].t) /\ (e.k = "BIT_NOT" => IsIntegral(e.a[1].t))
  THEN Typed([e EXCEPT !.a = <<Widened(e.a[1])>>])
  ELSE Error
CheckBinary(e) ==
  IF e.k \in Arithmetic THEN CheckArithmetic(e) ELSE IF e.k \in Shifts THEN CheckShift(e) ELSE CheckIntegral(e)

CheckBool(e) ==
  IF e.a[1].t = UndefType THEN [e EXCEPT !.a = <<Constant("int", 0)>>]
  ELSE IF IsNumeric(e.a[1].t) \/ IsObject(e.a[1].t) THEN e ELSE Error
CheckEq(e) ==
  LET t == e.a[1].t
      u == e.a[2].t
      truth == Constant("int", IF e.k = "NUMERIC_EQ" THEN 1 ELSE 0)
  IN IF t = UndefType /\ u = UndefType THEN Op("BOOL", <<truth>>)
     ELSE IF t = UndefType THEN IF IsObject(u) THEN e ELSE Error
     ELSE IF u = UndefType THEN IF IsObject(t) THEN e ELSE Error
     ELSE IF IsNumeric(t) /\ IsNumeric(u) THEN Balanced(e)
     ELSE IF IsObject(t) /\ IsObject(u) THEN e ELSE Error
CheckOrder(e) == CheckArithmetic(e)
CheckStringCompare(e) == IF e.a[1].t.form = "string" /\ e.a[2].t.form = "string" THEN e ELSE Error

\* A constant may be narrowed when its value fits the type.
Narrowable(src, t) == src.k = "CONSTANT" /\ src.t.base \in {"int", "long"} /\ Integral(t.base) /\ Fits(t.base, src.v)
\* The source as it is assigned to a variable of type t.
Assignable(src, t) ==
  IF IsNumeric(t)
  THEN IF IsNumeric(src.t) /\ (Rank(t.base) >= Rank(src.t.base) \/ Narrowable(src, t)) THEN Converted(src, t) ELSE Error
  ELSE IF src.t = t \/ (IsObject(t) /\ src.t = UndefType) THEN src ELSE Error
\* A variable declared without a type takes that of its first value.
Assign(src, dist) ==
  LET d == IF dist.k = "VAR" /\ dist.t = NoType THEN [dist EXCEPT !.t = src.t] ELSE dist
      s == Assignable(src, d.t)
  IN IF s = Error THEN Error ELSE Typed(Op("ASSIGN", <<s, d>>))

\* What a place depends on is kept in a variable, so that the place can be
\* named twice and is computed once.
Held(e, name, p) == IF e.k = "VAR" THEN e ELSE Assign(e, NamedVar(<<name, p>>, e.t))
\* Deviation: the index is not held.
CheckArrayAccessIndexAsIs(e, p) ==
  LET i == Widened(e.a[2])
  IN IF IsArray(e.a[1].t) /\ IsNumeric(i.t) /\ i.t.base = "int"
     THEN Typed([e EXCEPT !.a = <<Held(e.a[1], "array", p), i>>])
     ELSE Error
CheckArrayAccess(e, p) ==
  LET i == Widened(e.a[2])
  IN IF IsArray(e.a[1].t) /\ IsNumeric(i.t) /\ i.t.base = "int"
     THEN Typed([e EXCEPT !.a = <<Held(e.a[1], "array", p), Held(i, "index", p)>>])
     ELSE Error
\* An assignment in the place of the invoker is looked through: on an element
\* it is lost.
CheckFieldAccess(e, p) ==
  LET invoker == IF e.a[1].k = "ASSIGN" THEN e.a[1].a[1] ELSE e.a[1]
  IN IF invoker.t.form \notin {"object", "value", "value&"} THEN Error
     ELSE IF invoker.k = "ARRAY_ACCESS" /\ invoker.t.form = "value"
     THEN Typed([e EXCEPT !.k = "ARRAY_FIELD_ACCESS",
                          !.a = <<Held(invoker.a[1], "array", p), Held(invoker.a[2], "index", p)>>])
     ELSE Typed([e EXCEPT !.a = <<Held(e.a[1], "invoker", p)>>])
CheckRef(e) == IF e.a[1].t.form \in {"numeric", "value"} THEN Typed(e) ELSE Error
CheckDeref(e) == IF IsRef(e.a[1].t) THEN Typed(e) ELSE Error
CheckArrayLength(e) == IF IsArray(e.a[1].t) THEN Typed(e) ELSE Error
CheckConvert(e) == IF IsNumeric(e.a[1].t) THEN e ELSE Error

HeldVar(e) == IF e.k = "ASSIGN" THEN Last(e.a) ELSE e
Clone(place) == [place EXCEPT !.a = [i \in DOMAIN place.a |-> HeldVar(place.a[i])]]

Increment(k) == IF k \in {"PRE_INC", "POST_INC"} THEN "ADD" ELSE "SUBTRACT"
Stepped(k, e) ==
  LET sum == CheckArithmetic(Op(Increment(k), <<e, Constant("int", 1)>>))
  IN IF IsSmall(e.t) THEN Conversion(sum, e.t) ELSE sum
CheckPreStep(e) ==
  LET place == e.a[1] IN IF IsNumeric(place.t) THEN Assign(Stepped(e.k, place), Clone(place)) ELSE Error
CheckPostStep(e, p) ==
  LET place == e.a[1]
      tmp == NamedVar(<<"post", p>>, place.t)
  IN IF ~IsNumeric(place.t) THEN Error
     ELSE Typed(Op("SEQUENCE", <<Assign(place, tmp), Assign(Stepped(e.k, tmp), Clone(place)), tmp>>))
CheckSpecialAssign(e) ==
  LET src == e.a[1]
      place == e.a[2]
      culc == CheckBinary(Op(e.op, <<place, src>>))
      narrows == IF e.op \in Shifts THEN IsSmall(place.t)
                 ELSE IsNumeric(src.t) /\ IsNumeric(place.t) /\ Rank(src.t.base) > Rank(place.t.base)
  IN IF culc = Error THEN Error ELSE Assign(IF narrows THEN Conversion(culc, place.t) ELSE culc, Clone(place))

\* The first traversal: children first, then the node; p is its path.
RECURSIVE Checked(_, _)
Checked(source, p) ==
  LET e == [source EXCEPT !.a = [i \in DOMAIN source.a |-> Checked(source.a[i], Append(p, i))]]
  IN CASE Error \in Range(e.a) -> Error
       [] e.k \in Arithmetic \cup IntegralOps \cup Shifts -> CheckBinary(e)
       [] e.k \in Unary -> CheckUnary(e)
       [] e.k \in NumericEq -> CheckEq(e)
       [] e.k \in NumericOrder -> CheckOrder(e)
       [] e.k \in StringCompare -> CheckStringCompare(e)
       [] e.k = "BOOL" -> CheckBool(e)
       [] e.k = "ASSIGN" -> Assign(e.a[1], e.a[2])
       [] e.k = "SPECIAL_ASSIGN" -> CheckSpecialAssign(e)
       [] e.k \in {"PRE_INC", "PRE_DEC"} -> CheckPreStep(e)
       [] e.k \in {"POST_INC", "POST_DEC"} -> CheckPostStep(e, p)
       [] e.k = "ARRAY_ACCESS" -> CheckArrayAccess(e, p)
       [] e.k = "FIELD_ACCESS" -> CheckFieldAccess(e, p)
       [] e.k = "REF" -> CheckRef(e)
       [] e.k = "DEREF" -> CheckDeref(e)
       [] e.k = "ARRAY_LENGTH" -> CheckArrayLength(e)
       [] e.k = "CONVERT" -> CheckConvert(e)
       [] OTHER -> e

\* The third traversal: a value that is neither stored to nor assigned to a
\* variable gets one.
Valued == Arithmetic \cup IntegralOps \cup Shifts \cup Unary \cup
          {"CONVERT", "ARRAY_LENGTH", "PACKAGE_VAR_ACCESS", "ARRAY_ACCESS", "FIELD_ACCESS",
           "ARRAY_FIELD_ACCESS", "REF", "DEREF", "CONSTANT"}
IsLvalue(parent, i) == parent.k = "ASSIGN" /\ i = 2
IsAssignedToVar(parent, i) == parent.k = "ASSIGN" /\ i = 1 /\ parent.a[2].k = "VAR"
RECURSIVE WithTemps(_, _, _)
WithTemps(e, p, keep) ==
  LET f == [e EXCEPT !.a = [i \in DOMAIN e.a |->
                 WithTemps(e.a[i], Append(p, i), IsLvalue(e, i) \/ IsAssignedToVar(e, i))]]
  IN IF ~keep /\ e.k \in Valued THEN Typed(Op("ASSIGN", <<f, NamedVar(<<"new", p>>, e.t)>>)) ELSE f
=============================================================================
