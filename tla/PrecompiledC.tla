---------------------------- MODULE PrecompiledC ----------------------------
(***************************************************************************)
(* What the precompiler (spvm_csource_builder_precompile.c) writes for an  *)
(* opcode, and what C makes of it.  The text of an opcode is a sequence of *)
(* statements: an assignment [to, e], or a test e that raises an exception *)
(* and leaves out the rest, as the else branches of the text do.  A C      *)
(* expression is a record [c, t, r, op, v, a]: kind, C type, variable,     *)
(* operator, constant and operands.                                        *)
(***************************************************************************)
EXTENDS OpcodeExecution

CNode(c, t, r, op, v, a) == [c |-> c, t |-> t, r |-> r, op |-> op, v |-> v, a |-> a]
CVar(t, n, i) == CNode("var", t, Reg(t, n, i), "", 0, <<>>)
CNum(t, v) == CNode("number", t, NoReg, "", v, <<>>)
Null == CNum("object", 0)
CCast(t, e) == CNode("cast", t, NoReg, "", 0, <<e>>)
CUn(op, e) == CNode("unary", "", NoReg, op, 0, <<e>>)
CBin(op, e, f) == CNode("binary", "", NoReg, op, 0, <<e, f>>)
CElem(t, object, i) == CNode("element", t, NoReg, "", 0, <<object, i>>)
CLength(object) == CNode("length", "int", NoReg, "", 0, <<object>>)
CAt(t, ref, i) == CNode("pointee", t, NoReg, "", i, <<ref>>)
CAddress(t, n) == CNode("address", "ref", Reg(t, n, 0), "", 0, <<>>)
CPackageVar(t) == CNode("package_var", t, NoReg, "", 0, <<>>)
CStrcmp(e, f) == CNode("strcmp", "int", NoReg, "", 0, <<e, f>>)
ConditionFlag == CNode("condition_flag", "int", NoReg, "", 0, <<>>)
Let(to, e) == [to |-> to, e |-> e]
RaiseIf(e) == Let(Null, e)

(* ---------------------------- what C computes -------------------------- *)
IsUnsigned(t) == t \in {"uint", "ulong"}
SignedOf(t) == CASE t = "uint" -> "int" [] t = "ulong" -> "long" [] OTHER -> t
CValueOf(t, v) == [t |-> t, v |-> v]
Boolean(p) == CValueOf("int", IF p THEN 1 ELSE 0)
CConvert(t, x) ==
  CASE t \in {"object", "ref"} -> x.v
    [] IsUnsigned(t) -> Unsigned(SignedOf(t), x.v)
    [] IsUnsigned(x.t) -> Wrapped(t, x.v)
    [] OTHER -> Cast(t, x.t, x.v)
CShift(op, x, n) ==
  LET t == IF IsUnsigned(x.t) THEN x.t ELSE Common(Num(x.t), Num("int")).base
  IN CValueOf(t, CASE op = "<<" -> ShiftedLeft(t, x.v, n.v)
                   [] IsUnsigned(t) -> x.v \div 2 ^ Count(SignedOf(t), n.v)
                   [] OTHER -> ShiftedRight(t, x.v, n.v))
CCompare(op, x, y) ==
  Boolean(CASE op = "==" -> x = y [] op = "!=" -> x # y [] op = ">" -> x > y
            [] op = ">=" -> x >= y [] op = "<" -> x < y [] OTHER -> x <= y)
CArithmetic(op, t, x, y) ==
  CValueOf(t, CASE op = "+" -> Sum(t, x, y) [] op = "-" -> Difference(t, x, y) [] op = "*" -> Product(t, x, y)
                [] op = "/" -> IF y = 0 THEN 0 ELSE Quotient(t, x, y)
                [] op = "%" -> Remaining(x, y)
                [] op = "&" -> BitAnd(t, x, y) [] op = "|" -> BitOr(t, x, y) [] OTHER -> BitXor(t, x, y))
CBinary(op, x, y) ==
  CASE op \in {"<<", ">>"} -> CShift(op, x, y)
    [] x.t = "object" -> CCompare(op, x.v, y.v)
    [] OTHER ->
         LET t == Common(Num(x.t), Num(y.t)).base
             u == CConvert(t, x)
             v == CConvert(t, y)
         IN IF op \in {"==", "!=", ">", ">=", "<", "<="} THEN CCompare(op, u, v) ELSE CArithmetic(op, t, u, v)
CUnary(op, x) ==
  CASE op = "!!" -> Boolean(x.v # 0)
    [] op = "-" -> LET t == Common(Num(x.t), Num("int")).base IN CValueOf(t, Negated(t, CConvert(t, x)))
    [] OTHER -> LET t == Common(Num(x.t), Num("int")).base IN CValueOf(t, Complement(t, CConvert(t, x)))

RECURSIVE CEval(_, _)
CEval(e, s) ==
  CASE e.c = "var" -> CValueOf(e.t, Get(s, e.r))
    [] e.c = "number" -> CValueOf(e.t, e.v)
    [] e.c = "cast" -> CValueOf(e.t, CConvert(e.t, CEval(e.a[1], s)))
    [] e.c = "unary" -> CUnary(e.op, CEval(e.a[1], s))
    [] e.c = "binary" -> CBinary(e.op, CEval(e.a[1], s), CEval(e.a[2], s))
    [] e.c = "element" -> CValueOf(e.t, Datum(s, CEval(e.a[1], s).v, CEval(e.a[2], s).v))
    [] e.c = "length" -> CValueOf("int", s.heap[CEval(e.a[1], s).v].length)
    [] e.c = "pointee" -> CValueOf(e.t, Get(s, Pointee(CEval(e.a[1], s).v, e.v)))
    [] e.c = "address" -> CValueOf("ref", e.r)
    [] e.c = "package_var" -> CValueOf(e.t, s.pv)
    [] e.c = "strcmp" -> LET x == Datum(s, CEval(e.a[1], s).v, 0)
                             y == Datum(s, CEval(e.a[2], s).v, 0)
                         IN CValueOf("int", IF x < y THEN -1 ELSE IF x = y THEN 0 ELSE 1)

CAssign(to, v, s) ==
  CASE to.c = "var" -> Set(s, to.r, v)
    [] to.c = "element" -> SetData(s, CEval(to.a[1], s).v, CEval(to.a[2], s).v, <<v>>)
    [] to.c = "pointee" -> Set(s, Pointee(CEval(to.a[1], s).v, to.v), v)
    [] to.c = "package_var" -> [s EXCEPT !.pv = v]
    [] to.c = "condition_flag" -> [s EXCEPT !.flag = v]
RunStatement(s, st) ==
  CASE s.raised -> s
    [] st.to = Null -> IF CEval(st.e, s).v # 0 THEN Raise(s) ELSE s
    [] OTHER -> CAssign(st.to, CConvert(st.to.t, CEval(st.e, s)), s)
RunC(text, s) == FoldLeft(RunStatement, s, text)

RECURSIVE CReads(_)
CReads(e) == (IF e.c = "var" THEN {e.r} ELSE {}) \cup UNION {CReads(e.a[i]) : i \in DOMAIN e.a}
\* The variables an element or pointee that is assigned to is found through.
CReadsOf(st) == CReads(st.e) \cup UNION {CReads(st.to.a[i]) : i \in DOMAIN st.to.a}

(* ---------------------------- what is written -------------------------- *)
In(op, t, j) == CVar(t, op.r[j], 0)
InField(op, j, i) == CVar(op.t, op.r[j], i)
Out(op) == CVar(op.t, op.d, 0)
OutField(op, i) == CVar(op.t, op.d, i)
Fields(op) == [i \in 1 .. op.k |-> i - 1]
COperator == [NUMERIC_EQ |-> "==", NUMERIC_NE |-> "!=", NUMERIC_GT |-> ">", NUMERIC_GE |-> ">=",
              NUMERIC_LT |-> "<", NUMERIC_LE |-> "<=", ADD |-> "+", SUBTRACT |-> "-", MULTIPLY |-> "*",
              BIT_AND |-> "&", BIT_OR |-> "|", BIT_XOR |-> "^"]

AddBool(op) ==
  <<Let(ConditionFlag, IF op.t = "int" THEN In(op, "int", 1) ELSE CUn("!!", In(op, op.t, 1)))>>
AddIsUndef(op) ==
  <<Let(ConditionFlag, CBin(IF op.o = "IS_UNDEF" THEN "==" ELSE "!=", In(op, "object", 1), Null))>>
AddCompare(op) == <<Let(ConditionFlag, CBin(COperator[op.o], In(op, op.t, 1), In(op, op.t, 2)))>>
AddStringCompare(op) ==
  LET cmp == CStrcmp(In(op, "object", 1), In(op, "object", 2))
      is(o, v) == CBin(o, cmp, CNum("int", v))
  IN <<Let(ConditionFlag, CNum("int", 0)),
       RaiseIf(CBin("==", In(op, "object", 1), Null)), RaiseIf(CBin("==", In(op, "object", 2), Null)),
       Let(ConditionFlag, CASE op.o = "STRING_EQ" -> is("==", 0) [] op.o = "STRING_NE" -> is("!=", 0)
                            [] op.o = "STRING_GT" -> is("==", 1) [] op.o = "STRING_GE" -> is(">=", 0)
                            [] op.o = "STRING_LT" -> is("==", -1) [] OTHER -> is("<=", 0))>>

AddBinary(op) == <<Let(Out(op), CBin(COperator[op.o], In(op, op.t, 1), In(op, op.t, 2)))>>
AddDivideIntegral(op) ==
  <<RaiseIf(CBin("==", In(op, op.t, 2), CNum("int", 0))),
    Let(Out(op), CBin("/", In(op, op.t, 1), In(op, op.t, 2)))>>
AddDivideFloatingPoint(op) == <<Let(Out(op), CBin("/", In(op, op.t, 1), In(op, op.t, 2)))>>
AddDivide(op) == IF Integral(op.t) THEN AddDivideIntegral(op) ELSE AddDivideFloatingPoint(op)
AddRemainderIntegral(op) ==
  <<RaiseIf(CBin("==", In(op, op.t, 2), CNum("int", 0))),
    Let(Out(op), CBin("%", In(op, op.t, 1), In(op, op.t, 2)))>>
AddLeftShift(op) == <<Let(Out(op), CBin("<<", In(op, op.t, 1), In(op, "int", 2)))>>
AddRightArithmeticShift(op) == <<Let(Out(op), CBin(">>", In(op, op.t, 1), In(op, "int", 2)))>>
AddRightLogicalShift(op) ==
  <<Let(Out(op), CCast(op.t, CBin(">>", CCast("u" \o op.t, In(op, op.t, 1)), In(op, "int", 2))))>>
AddNegate(op) == <<Let(Out(op), CUn("-", In(op, op.t, 1)))>>
AddComplement(op) == <<Let(Out(op), CUn("~", In(op, op.t, 1)))>>
AddConvert(op) == <<Let(Out(op), CCast(op.t, In(op, op.u, 1)))>>
\* A byte is written as a character constant, the others as numbers of their type.
AddConstant(op) ==
  <<Let(Out(op), CASE op.t = "byte" -> CNum("int", op.k)
                   [] op.t = "int" -> CNum("int", Wrapped("int", op.k))
                   [] OTHER -> CNum(op.t, op.k))>>

AddMove(op) == <<Let(Out(op), In(op, op.t, 1))>>
AddMoveUndef(op) == <<Let(Out(op), Null)>>
AddValueMove(op) == [i \in 1 .. op.k |-> Let(OutField(op, i - 1), InField(op, 1, i - 1))]
AddValueGetField(op) == <<Let(Out(op), InField(op, 1, op.k))>>
AddValueSetField(op) == <<Let(InField(op, 1, op.k), In(op, op.t, 2))>>
AddRef(op) == <<Let(CVar("ref", op.d, 0), CAddress(op.t, op.r[1]))>>
AddGetDeref(op) == <<Let(Out(op), CAt(op.t, In(op, "ref", 1), 0))>>
AddSetDeref(op) == <<Let(CAt(op.t, In(op, "ref", 1), 0), In(op, op.t, 2))>>
AddValueDeref(op) == [i \in 1 .. op.k |-> Let(OutField(op, i - 1), CAt(op.t, In(op, "ref", 1), i - 1))]
AddDerefGetField(op) == <<Let(Out(op), CAt(op.t, In(op, "ref", 1), op.k))>>
AddDerefSetField(op) == <<Let(CAt(op.t, In(op, "ref", 1), op.k), In(op, op.t, 2))>>
AddGetPackageVar(op) == <<Let(Out(op), CPackageVar(op.t))>>
AddSetPackageVar(op) == <<Let(CPackageVar(op.t), In(op, op.t, 1))>>

Bounds(array, index) ==
  <<RaiseIf(CBin("==", array, Null)), RaiseIf(CBin("<", index, CNum("int", 0))),
    RaiseIf(CBin(">=", index, CLength(array)))>>
Scaled(n, index, i) == CBin("+", CBin("*", CNum("int", n), index), CNum("int", i))
Array(op) == In(op, "object", 1)
Index(op) == In(op, "int", 2)
AddArrayFetch(op) == Bounds(Array(op), Index(op)) \o <<Let(Out(op), CElem(op.t, Array(op), Index(op)))>>
AddArrayStore(op) ==
  Bounds(Array(op), Index(op)) \o <<Let(CElem(op.t, Array(op), Index(op)), In(op, op.t, 3))>>
AddValueArrayFetch(op) ==
  Bounds(Array(op), Index(op)) \o
  [i \in 1 .. op.k |-> Let(OutField(op, i - 1), CElem(op.t, Array(op), Scaled(op.k, Index(op), i - 1)))]
AddValueArrayStore(op) ==
  Bounds(Array(op), Index(op)) \o
  [i \in 1 .. op.k |-> Let(CElem(op.t, Array(op), Scaled(op.k, Index(op), i - 1)), InField(op, 3, i - 1))]
AddValueArrayFieldFetch(op) ==
  Bounds(Array(op), Index(op)) \o
  <<Let(Out(op), CElem(op.t, Array(op), Scaled(op.k % 16, Index(op), op.k \div 16)))>>
AddValueArrayFieldStore(op) ==
  Bounds(Array(op), Index(op)) \o
  <<Let(CElem(op.t, Array(op), Scaled(op.k % 16, Index(op), op.k \div 16)), In(op, op.t, 3))>>
AddArrayLength(op) == <<RaiseIf(CBin("==", Array(op), Null)), Let(Out(op), CLength(Array(op)))>>
AddGetField(op) ==
  <<RaiseIf(CBin("==", Array(op), Null)), Let(Out(op), CElem(op.t, Array(op), CNum("int", op.k)))>>
AddSetField(op) ==
  <<RaiseIf(CBin("==", Array(op), Null)), Let(CElem(op.t, Array(op), CNum("int", op.k)), In(op, op.t, 2))>>

(* The dispatch on the opcode of SPVM_CSOURCE_BUILDER_PRECOMPILE_build_sub_implementation, by family. *)
WrittenCondition(op) ==
  CASE op.o = "BOOL" -> AddBool(op)
    [] op.o \in {"IS_UNDEF", "IS_NOT_UNDEF"} -> AddIsUndef(op)
    [] OTHER -> AddCompare(op)
WrittenArithmetic(op) ==
  CASE op.o = "DIVIDE" -> AddDivide(op)
    [] op.o = "REMAINDER" -> AddRemainderIntegral(op)
    [] op.o = "LEFT_SHIFT" -> AddLeftShift(op)
    [] op.o = "RIGHT_ARITHMETIC_SHIFT" -> AddRightArithmeticShift(op)
    [] op.o = "RIGHT_LOGICAL_SHIFT" -> AddRightLogicalShift(op)
    [] op.o = "NEGATE" -> AddNegate(op)
    [] op.o = "BIT_NOT" -> AddComplement(op)
    [] OTHER -> AddBinary(op)
WrittenConversion(op) == AddConvert(op)
WrittenMove(op) ==
  CASE op.o = "MOVE" -> AddMove(op)
    [] op.o = "MOVE_UNDEF" -> AddMoveUndef(op)
    [] op.o = "VALUE_MOVE" -> AddValueMove(op)
WrittenValueField(op) ==
  CASE op.o = "VALUE_GET_FIELD" -> AddValueGetField(op)
    [] op.o = "VALUE_SET_FIELD" -> AddValueSetField(op)
WrittenDeref(op) ==
  CASE op.o = "GET_DEREF" -> AddGetDeref(op)
    [] op.o = "SET_DEREF" -> AddSetDeref(op)
WrittenValueDeref(op) ==
  CASE op.o = "VALUE_DEREF" -> AddValueDeref(op)
    [] op.o = "VALUE_DEREF_GET_FIELD" -> AddDerefGetField(op)
    [] op.o = "VALUE_DEREF_SET_FIELD" -> AddDerefSetField(op)
WrittenArray(op) ==
  CASE op.o = "ARRAY_FETCH" -> AddArrayFetch(op)
    [] op.o = "ARRAY_STORE" -> AddArrayStore(op)
    [] op.o = "ARRAY_LENGTH" -> AddArrayLength(op)
WrittenValueArrayFetch(op) ==
  IF op.o = "VALUE_ARRAY_FETCH" THEN AddValueArrayFetch(op) ELSE AddValueArrayFieldFetch(op)
WrittenValueArrayStore(op) ==
  IF op.o = "VALUE_ARRAY_STORE" THEN AddValueArrayStore(op) ELSE AddValueArrayFieldStore(op)

Written(op) ==
  CASE op.o \in {"BOOL", "IS_UNDEF", "IS_NOT_UNDEF"} \cup NumericEq \cup NumericOrder -> WrittenCondition(op)
    [] op.o \in StringCompare -> AddStringCompare(op)
    [] op.o \in Arithmetic \cup IntegralOps \cup Shifts \cup {"NEGATE", "BIT_NOT"} -> WrittenArithmetic(op)
    [] op.o = "CONVERT" -> WrittenConversion(op)
    [] op.o = "GET_CONSTANT" -> AddConstant(op)
    [] op.o \in {"MOVE", "MOVE_UNDEF", "VALUE_MOVE"} -> WrittenMove(op)
    [] op.o \in {"VALUE_GET_FIELD", "VALUE_SET_FIELD"} -> WrittenValueField(op)
    [] op.o = "REF" -> AddRef(op)
    [] op.o \in {"GET_DEREF", "SET_DEREF"} -> WrittenDeref(op)
    [] op.o \in {"VALUE_DEREF", "VALUE_DEREF_GET_FIELD", "VALUE_DEREF_SET_FIELD"} -> WrittenValueDeref(op)
    [] op.o = "GET_PACKAGE_VAR" -> AddGetPackageVar(op)
    [] op.o = "SET_PACKAGE_VAR" -> AddSetPackageVar(op)
    [] op.o \in {"ARRAY_FETCH", "ARRAY_STORE", "ARRAY_LENGTH"} -> WrittenArray(op)
    [] op.o \in {"VALUE_ARRAY_FETCH", "VALUE_ARRAY_FIELD_FETCH"} -> WrittenValueArrayFetch(op)
    [] op.o \in {"VALUE_ARRAY_STORE", "VALUE_ARRAY_FIELD_STORE"} -> WrittenValueArrayStore(op)
    [] op.o = "GET_FIELD" -> AddGetField(op)
    [] op.o = "SET_FIELD" -> AddSetField(op)
=============================================================================
