-------------------------- MODULE OpcodeSelection --------------------------
(***************************************************************************)
(* The opcodes that spvm_opcode_builder.c selects for a checked tree.  It   *)
(* visits the tree children first; an operand is the variable its node     *)
(* leads to (get_target_op_var).  An opcode is a record [o, t, u, d, r, k]: *)
(* family, type suffix (u: the source of a conversion), variable written,  *)
(* variables read in order, and a constant.  Where the code would reach an  *)
(* assert the opcode is AssertFails.                                        *)
(***************************************************************************)
EXTENDS Expressions

CONSTANT FieldsLength  \* fields of the value types
ASSUME FieldsLengthAssumption == FieldsLength \in 2 .. 15

Opcode(o, t, d, r, k) == [o |-> o, t |-> t, u |-> "", d |-> d, r |-> r, k |-> k]
AssertFails == Opcode("assert", "", NoName, <<>>, 0)

\* SPVM_OP_get_target_op_var.
RECURSIVE Target(_)
Target(e) ==
  CASE e.k = "VAR" -> e.n
    [] e.k = "ASSIGN" /\ e.a[1].k \in {"VAR", "ASSIGN"} -> Target(e.a[1])
    [] e.k = "ASSIGN" /\ e.a[2].k \in {"VAR", "ASSIGN"} -> Target(e.a[2])
    [] e.k = "SEQUENCE" -> Target(Last(e.a))
    [] e.k \in {"REF", "DEREF"} -> Target(e.a[1])
    [] OTHER -> <<"assert", <<>>>>

Suffix(t) == IF IsNumeric(t) THEN t.base ELSE IF IsRef(t) THEN "ref" ELSE "object"
Move(d, n) ==
  IF d.t.form = "value" THEN Opcode("VALUE_MOVE", d.t.base, d.n, <<n>>, FieldsLength)
  ELSE Opcode("MOVE", Suffix(d.t), d.n, <<n>>, 0)

(* --------------------- a value assigned to a variable ------------------ *)
\* (field_offset << 4) + field_length
Packed(offset) == offset * 16 + FieldsLength
ArrayFieldFetch(d, src) ==
  Opcode("VALUE_ARRAY_FIELD_FETCH", src.t.base, d.n, <<Target(src.a[1]), Target(src.a[2])>>, Packed(src.v))
FieldGet(d, src) ==
  LET o == CASE src.a[1].t.form = "value&" -> "VALUE_DEREF_GET_FIELD"
             [] src.a[1].t.form = "value" -> "VALUE_GET_FIELD"
             [] OTHER -> "GET_FIELD"
  IN Opcode(o, src.t.base, d.n, <<Target(src.a[1])>>, src.v)
ArrayFetch(d, src) ==
  LET o == IF src.a[1].t.form = "value[]" THEN "VALUE_ARRAY_FETCH" ELSE "ARRAY_FETCH"
  IN Opcode(o, src.t.base, d.n, <<Target(src.a[1]), Target(src.a[2])>>, FieldsLength)
PackageVarGet(d, src) == Opcode("GET_PACKAGE_VAR", src.t.base, d.n, <<>>, 0)
DerefGet(d, src) ==
  IF src.t.form = "value" THEN Opcode("VALUE_DEREF", src.t.base, d.n, <<Target(src)>>, FieldsLength)
  ELSE Opcode("GET_DEREF", src.t.base, d.n, <<Target(src)>>, 0)
RefTo(d, src) == Opcode("REF", src.t.base, d.n, <<Target(src)>>, 0)
ArrayLength(d, src) == Opcode("ARRAY_LENGTH", "int", d.n, <<Target(src.a[1])>>, 0)

\* The operation is that of the type of the destination.
BinaryOf(d, src, types) ==
  IF d.t.base \in types THEN Opcode(src.k, d.t.base, d.n, <<Target(src.a[1]), Target(src.a[2])>>, 0) ELSE AssertFails
ArithmeticOf(d, src) == BinaryOf(d, src, {"int", "long", "float", "double"})
DivideOf(d, src) == BinaryOf(d, src, {"int", "long", "float", "double"})
RemainderOf(d, src) == BinaryOf(d, src, {"int", "long"})
ShiftOf(d, src) == BinaryOf(d, src, {"int", "long"})
BitOf(d, src) == BinaryOf(d, src, {"int", "long"})
UnaryOf(o, d, src, types) ==
  IF d.t.base \in types THEN Opcode(o, d.t.base, d.n, <<Target(src.a[1])>>, 0) ELSE AssertFails
BitNotOf(d, src) == UnaryOf("BIT_NOT", d, src, {"int", "long"})
PlusOf(d, src) == UnaryOf("MOVE", d, src, {"int", "long", "float", "double"})
NegateOf(d, src) == UnaryOf("NEGATE", d, src, {"int", "long", "float", "double"})
ConstantOf(d, src) ==
  IF d.t.base = "short" THEN AssertFails
  ELSE Opcode("GET_CONSTANT", d.t.base, d.n, <<>>, IF d.t.base \in {"byte", "int"} THEN Unsigned(d.t.base, src.v) ELSE src.v)
ConvertOf(d, src) ==
  IF src.a[1].t = src.t THEN Move(d, Target(src.a[1]))
  ELSE [Opcode("CONVERT", src.t.base, d.n, <<Target(src.a[1])>>, 0) EXCEPT !.u = src.a[1].t.base]

\* A variable takes what another assignment was of: its source when that is
\* a variable, and its destination otherwise.
MoveOfAssign(d, src) ==
  IF src.a[1].k \in {"VAR", "ASSIGN"} THEN Move(d, Target(src.a[1]))
  ELSE IF src.a[2].k \in {"VAR", "ASSIGN"} THEN Move(d, Target(src.a[2])) ELSE AssertFails

ToVar(d, src) ==
  CASE src.k = "ASSIGN" -> MoveOfAssign(d, src)
    [] src.k = "VAR" -> Move(d, src.n)
    [] src.k = "UNDEF" -> Opcode("MOVE_UNDEF", "object", d.n, <<>>, 0)
    [] src.k = "CONSTANT" -> ConstantOf(d, src)
    [] src.k = "CONVERT" -> ConvertOf(d, src)
    [] src.k \in {"ADD", "SUBTRACT", "MULTIPLY"} -> ArithmeticOf(d, src)
    [] src.k = "DIVIDE" -> DivideOf(d, src)
    [] src.k = "REMAINDER" -> RemainderOf(d, src)
    [] src.k \in Shifts -> ShiftOf(d, src)
    [] src.k \in {"BIT_AND", "BIT_OR", "BIT_XOR"} -> BitOf(d, src)
    [] src.k = "BIT_NOT" -> BitNotOf(d, src)
    [] src.k = "PLUS" -> PlusOf(d, src)
    [] src.k = "MINUS" -> NegateOf(d, src)
    [] src.k = "ARRAY_ACCESS" -> ArrayFetch(d, src)
    [] src.k = "ARRAY_FIELD_ACCESS" -> ArrayFieldFetch(d, src)
    [] src.k = "FIELD_ACCESS" -> FieldGet(d, src)
    [] src.k = "PACKAGE_VAR_ACCESS" -> PackageVarGet(d, src)
    [] src.k = "DEREF" -> DerefGet(d, src)
    [] src.k = "REF" -> RefTo(d, src)
    [] src.k = "ARRAY_LENGTH" -> ArrayLength(d, src)
    [] OTHER -> AssertFails

(* --------------------------- a place stored to ------------------------- *)
PackageVarSet(d, n) == Opcode("SET_PACKAGE_VAR", d.t.base, NoName, <<n>>, 0)
DerefSet(d, n) ==
  IF d.a[1].t.form = "numeric&" THEN Opcode("SET_DEREF", d.t.base, NoName, <<Target(d), n>>, 0) ELSE AssertFails
ArrayStore(d, n) ==
  LET o == IF d.a[1].t.form = "value[]" THEN "VALUE_ARRAY_STORE" ELSE "ARRAY_STORE"
  IN Opcode(o, d.t.base, NoName, <<Target(d.a[1]), Target(d.a[2]), n>>, FieldsLength)
FieldSet(d, src) ==
  LET o == CASE d.a[1].t.form = "value&" -> "VALUE_DEREF_SET_FIELD"
             [] d.a[1].t.form = "value" -> "VALUE_SET_FIELD"
             [] OTHER -> "SET_FIELD"
  IN Opcode(o, src.t.base, NoName, <<Target(d.a[1]), Target(src)>>, d.v)
ArrayFieldStore(d, n) ==
  Opcode("VALUE_ARRAY_FIELD_STORE", d.t.base, NoName, <<Target(d.a[1]), Target(d.a[2]), n>>, Packed(d.v))

ToPlace(d, src) ==
  CASE d.k = "VAR" -> ToVar(d, src)
    [] d.k = "PACKAGE_VAR_ACCESS" -> PackageVarSet(d, Target(src))
    [] d.k = "DEREF" -> DerefSet(d, Target(src))
    [] d.k = "ARRAY_ACCESS" -> ArrayStore(d, Target(src))
    [] d.k = "FIELD_ACCESS" -> FieldSet(d, src)
    [] d.k = "ARRAY_FIELD_ACCESS" -> ArrayFieldStore(d, Target(src))
    [] OTHER -> AssertFails
AssignOf(e) == ToPlace(e.a[2], IF e.a[1].k = "SEQUENCE" THEN Last(e.a[1].a) ELSE e.a[1])

(* ------------------------------ conditions ----------------------------- *)
Compare(o, t, e) == Opcode(o, t, NoName, <<Target(e.a[1]), Target(e.a[2])>>, 0)
OrderOf(e) ==
  IF e.a[1].t.base \in {"int", "long", "float", "double"} THEN Compare(e.k, e.a[1].t.base, e) ELSE AssertFails
IsUndef(k) == IF k = "NUMERIC_EQ" THEN "IS_UNDEF" ELSE "IS_NOT_UNDEF"
EqOf(e) ==
  CASE e.a[2].t = UndefType -> Opcode(IsUndef(e.k), "object", NoName, <<Target(e.a[1])>>, 0)
    [] e.a[1].t = UndefType -> Opcode(IsUndef(e.k), "object", NoName, <<Target(e.a[2])>>, 0)
    [] IsObject(e.a[1].t) -> Compare(e.k, "object", e)
    [] OTHER -> OrderOf(e)
StringCompareOf(e) == Compare(IF e.k = "STRING_LT" THEN "STRING_LE" ELSE e.k, "object", e)
BoolOf(e) ==
  IF IsSmall(e.a[1].t) THEN AssertFails ELSE Opcode("BOOL", Suffix(e.a[1].t), NoName, <<Target(e.a[1])>>, 0)

RECURSIVE CodeOf(_)
CodeOf(e) ==
  FlattenSeq([i \in DOMAIN e.a |-> CodeOf(e.a[i])]) \o
    CASE e.k = "ASSIGN" -> <<AssignOf(e)>>
      [] e.k \in NumericEq -> <<EqOf(e)>>
      [] e.k \in NumericOrder -> <<OrderOf(e)>>
      [] e.k \in StringCompare -> <<StringCompareOf(e)>>
      [] e.k = "BOOL" -> <<BoolOf(e)>>
      [] OTHER -> <<>>
=============================================================================
