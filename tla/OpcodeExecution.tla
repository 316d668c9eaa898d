-------------------------- MODULE OpcodeExecution --------------------------
(***************************************************************************)
(* What the virtual machine (SPVM_RUNTIME_API_call_sub_vm) does for each   *)
(* opcode of OpcodeSelection.  A call has one array of variables per C     *)
(* type; a variable of a value type takes FieldsLength consecutive ones.   *)
(* A memory is a record:                                                   *)
(*   regs   the variables written so far, keyed by <<type, name, offset>>  *)
(*   heap   the objects [length, data]; an object is its number, undef 0   *)
(*   pv     the package variable                                           *)
(*   flag   condition_flag                                                 *)
(*   raised exception_flag                                                 *)
(***************************************************************************)
EXTENDS OpcodeSelection, TLC

Reg(t, n, i) == <<t, n, i>>
NoReg == Reg("", NoName, 0)
\* The block of variables is zeroed when the call begins.
Held0(r) == IF r[1] = "ref" THEN NoReg ELSE 0
Get(s, r) == IF r \in DOMAIN s.regs THEN s.regs[r] ELSE Held0(r)
Set(s, r, v) == [s EXCEPT !.regs = (r :> v) @@ @]
SetAll(s, r, vs) == [s EXCEPT !.regs = [q \in {Reg(r[1], r[2], r[3] + i - 1) : i \in DOMAIN vs} |-> vs[q[3] - r[3] + 1]] @@ @]
Datum(s, o, i) == s.heap[o].data[i + 1]
SetData(s, o, i, vs) ==
  [s EXCEPT !.heap[o].data = [j \in DOMAIN @ |-> IF j - i \in DOMAIN vs THEN vs[j - i] ELSE @[j]]]
Raise(s) == [s EXCEPT !.raised = TRUE]
Flag(s, p) == [s EXCEPT !.flag = IF p THEN 1 ELSE 0]

\* The operands: the variables an opcode names, in the bank its code names.
OperandsOf(op) ==
  LET R(t, j) == Reg(t, op.r[j], 0)
      Fields(j) == [i \in 1 .. op.k |-> Reg(op.t, op.r[j], i - 1)]
  IN CASE op.o \in Shifts -> <<R(op.t, 1), R("int", 2)>>
       [] op.o = "CONVERT" -> <<R(op.u, 1)>>
       [] op.o = "VALUE_MOVE" -> Fields(1)
       [] op.o = "VALUE_GET_FIELD" -> <<Reg(op.t, op.r[1], op.k)>>
       [] op.o = "VALUE_SET_FIELD" -> <<R(op.t, 2)>>
       [] op.o \in {"ARRAY_FETCH", "VALUE_ARRAY_FETCH", "VALUE_ARRAY_FIELD_FETCH"} -> <<R("object", 1), R("int", 2)>>
       [] op.o \in {"ARRAY_STORE", "VALUE_ARRAY_FIELD_STORE"} -> <<R("object", 1), R("int", 2), R(op.t, 3)>>
       [] op.o = "VALUE_ARRAY_STORE" -> <<R("object", 1), R("int", 2)>> \o Fields(3)
       [] op.o \in {"ARRAY_LENGTH", "GET_FIELD"} -> <<R("object", 1)>>
       [] op.o = "SET_FIELD" -> <<R("object", 1), R(op.t, 2)>>
       [] op.o \in {"GET_DEREF", "VALUE_DEREF", "VALUE_DEREF_GET_FIELD"} -> <<R("ref", 1)>>
       [] op.o \in {"SET_DEREF", "VALUE_DEREF_SET_FIELD"} -> <<R("ref", 1), R(op.t, 2)>>
       [] op.o = "REF" -> <<>>
       [] OTHER -> [j \in DOMAIN op.r |-> R(op.t, j)]
Operands(op, s) == LET rs == OperandsOf(op) IN [j \in DOMAIN rs |-> Get(s, rs[j])]
Dist(op) == Reg(op.t, op.d, 0)

(* ------------------------------ conditions ----------------------------- *)
ExecuteBool(op, in, s) ==
  IF op.t = "int" THEN [s EXCEPT !.flag = in[1]] ELSE Flag(s, in[1] # 0)
ExecuteIsUndef(op, in, s) == Flag(s, (in[1] = 0) = (op.o = "IS_UNDEF"))
Compares(o, x, y) ==
  CASE o \in {"NUMERIC_EQ", "STRING_EQ"} -> x = y
    [] o \in {"NUMERIC_NE", "STRING_NE"} -> x # y
    [] o \in {"NUMERIC_GT", "STRING_GT"} -> x > y
    [] o \in {"NUMERIC_GE", "STRING_GE"} -> x >= y
    [] o \in {"NUMERIC_LT", "STRING_LT"} -> x < y
    [] OTHER -> x <= y
ExecuteCompare(op, in, s) == Flag(s, Compares(op.o, in[1], in[2]))
\* memcmp of two strings, which the model orders by one datum.
ExecuteStringCompare(op, in, s) ==
  IF in[1] = 0 \/ in[2] = 0 THEN Raise(Flag(s, FALSE))
  ELSE Flag(s, Compares(op.o, Datum(s, in[1], 0), Datum(s, in[2], 0)))

(* ------------------------------ arithmetic ----------------------------- *)
ExecuteArithmetic(op, in, s) ==
  CASE op.o = "ADD" -> Set(s, Dist(op), Sum(op.t, in[1], in[2]))
    [] op.o = "SUBTRACT" -> Set(s, Dist(op), Difference(op.t, in[1], in[2]))
    [] OTHER -> Set(s, Dist(op), Product(op.t, in[1], in[2]))
ExecuteDivide(op, in, s) ==
  IF in[2] = 0 THEN IF Integral(op.t) THEN Raise(s) ELSE Set(s, Dist(op), 0)
  ELSE Set(s, Dist(op), Quotient(op.t, in[1], in[2]))
ExecuteRemainder(op, in, s) == IF in[2] = 0 THEN Raise(s) ELSE Set(s, Dist(op), Remaining(in[1], in[2]))
ExecuteShift(op, in, s) ==
  CASE op.o = "LEFT_SHIFT" -> Set(s, Dist(op), ShiftedLeft(op.t, in[1], in[2]))
    [] op.o = "RIGHT_ARITHMETIC_SHIFT" -> Set(s, Dist(op), ShiftedRight(op.t, in[1], in[2]))
    [] OTHER -> Set(s, Dist(op), ShiftedLogical(op.t, in[1], in[2]))
ExecuteBits(op, in, s) ==
  CASE op.o = "BIT_AND" -> Set(s, Dist(op), BitAnd(op.t, in[1], in[2]))
    [] op.o = "BIT_OR" -> Set(s, Dist(op), BitOr(op.t, in[1], in[2]))
    [] op.o = "BIT_XOR" -> Set(s, Dist(op), BitXor(op.t, in[1], in[2]))
    [] OTHER -> Set(s, Dist(op), Complement(op.t, in[1]))
ExecuteNegate(op, in, s) == Set(s, Dist(op), Negated(op.t, in[1]))
ExecuteConvert(op, in, s) == Set(s, Dist(op), Cast(op.t, op.u, in[1]))
\* byte and int constants are cut into unsigned operands.
ExecuteConstant(op, s) == Set(s, Dist(op), IF op.t \in {"byte", "int"} THEN Wrapped(op.t, op.k) ELSE op.k)

(* ------------------------------- variables ----------------------------- *)
ExecuteMove(op, in, s) == Set(s, Dist(op), in[1])
ExecuteMoveUndef(op, s) == Set(s, Dist(op), 0)
ExecuteValueMove(op, in, s) == SetAll(s, Dist(op), in)
ExecuteValueGetField(op, in, s) == Set(s, Dist(op), in[1])
ExecuteValueSetField(op, in, s) == Set(s, Reg(op.t, op.r[1], op.k), in[1])
ExecuteRef(op, s) == Set(s, Reg("ref", op.d, 0), Reg(op.t, op.r[1], 0))
Pointee(ref, i) == Reg(ref[1], ref[2], ref[3] + i)
ExecuteGetDeref(op, in, s) == Set(s, Dist(op), Get(s, in[1]))
ExecuteSetDeref(op, in, s) == Set(s, in[1], in[2])
ExecuteValueDeref(op, in, s) == SetAll(s, Dist(op), [i \in 1 .. op.k |-> Get(s, Pointee(in[1], i - 1))])
ExecuteDerefGetField(op, in, s) == Set(s, Dist(op), Get(s, Pointee(in[1], op.k)))
ExecuteDerefSetField(op, in, s) == Set(s, Pointee(in[1], op.k), in[2])
ExecuteGetPackageVar(op, s) == Set(s, Dist(op), s.pv)
ExecuteSetPackageVar(op, in, s) == [s EXCEPT !.pv = in[1]]

(* ------------------------------- objects ------------------------------- *)
\* An array that is undef, or an index out of range, raises an exception.
InRange(s, array, index) == array # 0 /\ index \in 0 .. s.heap[array].length - 1
ExecuteArrayFetch(op, in, s) ==
  IF InRange(s, in[1], in[2]) THEN Set(s, Dist(op), Datum(s, in[1], in[2])) ELSE Raise(s)
ExecuteArrayStore(op, in, s) ==
  IF InRange(s, in[1], in[2]) THEN SetData(s, in[1], in[2], <<in[3]>>) ELSE Raise(s)
\* The fields of an element are FieldsLength consecutive data.
MaskedLength(op) == IF op.t \in {"byte", "short"} THEN op.k ELSE op.k % 16
ExecuteValueArrayFetch(op, in, s) ==
  LET n == MaskedLength(op)
  IN IF InRange(s, in[1], in[2])
     THEN SetAll(s, Dist(op), [i \in 1 .. n |-> Datum(s, in[1], n * in[2] + i - 1)])
     ELSE Raise(s)
ExecuteValueArrayStore(op, in, s) ==
  IF InRange(s, in[1], in[2]) THEN SetData(s, in[1], op.k * in[2], SubSeq(in, 3, 2 + op.k)) ELSE Raise(s)
\* operand3 & 0xF is the number of fields, operand3 >> 4 the field.
Packed3(op, index) == (op.k % 16) * index + op.k \div 16
ExecuteValueArrayFieldFetch(op, in, s) ==
  IF InRange(s, in[1], in[2]) THEN Set(s, Dist(op), Datum(s, in[1], Packed3(op, in[2]))) ELSE Raise(s)
ExecuteValueArrayFieldStore(op, in, s) ==
  IF InRange(s, in[1], in[2]) THEN SetData(s, in[1], Packed3(op, in[2]), <<in[3]>>) ELSE Raise(s)
ExecuteArrayLength(op, in, s) ==
  IF in[1] = 0 THEN Raise(s) ELSE Set(s, Dist(op), s.heap[in[1]].length)
ExecuteGetField(op, in, s) == IF in[1] = 0 THEN Raise(s) ELSE Set(s, Dist(op), Datum(s, in[1], op.k))
ExecuteSetField(op, in, s) == IF in[1] = 0 THEN Raise(s) ELSE SetData(s, in[1], op.k, <<in[2]>>)

Execute(op, s) ==
  LET in == Operands(op, s)
  IN CASE op.o = "BOOL" -> ExecuteBool(op, in, s)
       [] op.o \in {"IS_UNDEF", "IS_NOT_UNDEF"} -> ExecuteIsUndef(op, in, s)
       [] op.o \in NumericEq \cup NumericOrder -> ExecuteCompare(op, in, s)
       [] op.o \in StringCompare -> ExecuteStringCompare(op, in, s)
       [] op.o \in {"ADD", "SUBTRACT", "MULTIPLY"} -> ExecuteArithmetic(op, in, s)
       [] op.o = "DIVIDE" -> ExecuteDivide(op, in, s)
       [] op.o = "REMAINDER" -> ExecuteRemainder(op, in, s)
       [] op.o \in Shifts -> ExecuteShift(op, in, s)
       [] op.o \in {"BIT_AND", "BIT_OR", "BIT_XOR", "BIT_NOT"} -> ExecuteBits(op, in, s)
       [] op.o = "NEGATE" -> ExecuteNegate(op, in, s)
       [] op.o = "CONVERT" -> ExecuteConvert(op, in, s)
       [] op.o = "GET_CONSTANT" -> ExecuteConstant(op, s)
       [] op.o = "MOVE" -> ExecuteMove(op, in, s)
       [] op.o = "MOVE_UNDEF" -> ExecuteMoveUndef(op, s)
       [] op.o = "VALUE_MOVE" -> ExecuteValueMove(op, in, s)
       [] op.o = "VALUE_GET_FIELD" -> ExecuteValueGetField(op, in, s)
       [] op.o = "VALUE_SET_FIELD" -> ExecuteValueSetField(op, in, s)
       [] op.o = "REF" -> ExecuteRef(op, s)
       [] op.o = "GET_DEREF" -> ExecuteGetDeref(op, in, s)
       [] op.o = "SET_DEREF" -> ExecuteSetDeref(op, in, s)
       [] op.o = "VALUE_DEREF" -> ExecuteValueDeref(op, in, s)
       [] op.o = "VALUE_DEREF_GET_FIELD" -> ExecuteDerefGetField(op, in, s)
       [] op.o = "VALUE_DEREF_SET_FIELD" -> ExecuteDerefSetField(op, in, s)
       [] op.o = "GET_PACKAGE_VAR" -> ExecuteGetPackageVar(op, s)
       [] op.o = "SET_PACKAGE_VAR" -> ExecuteSetPackageVar(op, in, s)
       [] op.o = "ARRAY_FETCH" -> ExecuteArrayFetch(op, in, s)
       [] op.o = "ARRAY_STORE" -> ExecuteArrayStore(op, in, s)
       [] op.o = "VALUE_ARRAY_FETCH" -> ExecuteValueArrayFetch(op, in, s)
       [] op.o = "VALUE_ARRAY_STORE" -> ExecuteValueArrayStore(op, in, s)
       [] op.o = "VALUE_ARRAY_FIELD_FETCH" -> ExecuteValueArrayFieldFetch(op, in, s)
       [] op.o = "VALUE_ARRAY_FIELD_STORE" -> ExecuteValueArrayFieldStore(op, in, s)
       [] op.o = "ARRAY_LENGTH" -> ExecuteArrayLength(op, in, s)
       [] op.o = "GET_FIELD" -> ExecuteGetField(op, in, s)
       [] op.o = "SET_FIELD" -> ExecuteSetField(op, in, s)
=============================================================================
