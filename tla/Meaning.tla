------------------------------ MODULE Meaning ------------------------------
(***************************************************************************)
(* What a numeric expression means, read off the source tree: operands are *)
(* evaluated from left to right, an assignment evaluates its source before *)
(* its place, arithmetic is done in the wider of the two types and at      *)
(* least in int, ++ and op= give their place a value of its type, and a    *)
(* value is assigned without a conversion the program did not ask for only *)
(* to a place at least as wide.                                            *)
(*                                                                         *)
(* An outcome is [s, m, t, v]: status, memory, type and value, a sequence  *)
(* with one item, or one item per field for a value type.  The statuses    *)
(* are "ok", "raised" (an exception), "rejected" (not a program of the     *)
(* language) and "undefined" (C leaves the result open: nothing is said).  *)
(***************************************************************************)
EXTENDS OpcodeExecution

Outcome(s, m, t, v) == [s |-> s, m |-> m, t |-> t, v |-> v]
Ok(m, t, v) == Outcome("ok", m, t, v)
Stop(s, m) == Outcome(s, m, NoType, <<>>)

(* ------------------------------- places -------------------------------- *)
\* A place is the sequence of locations of its value.
Location(kind, r, o, i) == [kind |-> kind, r |-> r, o |-> o, i |-> i]
InReg(r) == Location("regs", r, 0, 0)
InHeap(o, i) == Location("heap", NoReg, o, i)
InPackage == Location("pv", NoReg, 0, 0)
Loaded(m, l) == CASE l.kind = "regs" -> Get(m, l.r) [] l.kind = "heap" -> Datum(m, l.o, l.i) [] OTHER -> m.pv
Stored(m, l, v) ==
  CASE l.kind = "regs" -> Set(m, l.r, v)
    [] l.kind = "heap" -> SetData(m, l.o, l.i, <<v>>)
    [] OTHER -> [m EXCEPT !.pv = v]
LoadedAll(m, ls) == [i \in DOMAIN ls |-> Loaded(m, ls[i])]
StoredAll(m, ls, vs) == FoldLeftDomain(LAMBDA n, i : Stored(n, ls[i], vs[i]), m, ls)
Width(t) == IF t.form = "value" THEN FieldsLength ELSE 1
Consecutive(r, t) == [i \in 1 .. Width(t) |-> InReg(Pointee(r, i - 1))]
VarPlace(n, t) ==
  Consecutive(Reg(IF IsRef(t) THEN "ref" ELSE IF IsObject(t) THEN "object" ELSE t.base, n, 0), t)

(* ------------------------------ operators ------------------------------ *)
\* A conversion from floating point that the integral type cannot hold is undefined.
Cut(t, x) ==
  IF Integral(t) /\ ~Integral(x.t.base) /\ ~Fits(t, Truncated(x.v[1], 2))
  THEN Stop("undefined", x.m)
  ELSE Ok(x.m, Num(t), <<Cast(t, x.t.base, x.v[1])>>)
Compute(k, t, x, y, m) ==
  CASE k \in {"DIVIDE", "REMAINDER"} /\ y = 0 -> Stop(IF Integral(t) THEN "raised" ELSE "undefined", m)
    [] k \in {"DIVIDE", "REMAINDER"} /\ Integral(t) /\ x = MinOf(t) /\ y = -1 -> Stop("undefined", m)
    [] k \in Shifts /\ y \notin 0 .. NumericBits[t] - 1 -> Stop("undefined", m)
    [] OTHER ->
         Ok(m, Num(t),
            <<CASE k = "ADD" -> Sum(t, x, y) [] k = "SUBTRACT" -> Difference(t, x, y)
                [] k = "MULTIPLY" -> Product(t, x, y) [] k = "DIVIDE" -> Quotient(t, x, y)
                [] k = "REMAINDER" -> Remaining(x, y)
                [] k = "BIT_AND" -> BitAnd(t, x, y) [] k = "BIT_OR" -> BitOr(t, x, y)
                [] k = "BIT_XOR" -> BitXor(t, x, y)
                [] k = "LEFT_SHIFT" -> ShiftedLeft(t, x, y)
                [] k = "RIGHT_ARITHMETIC_SHIFT" -> ShiftedRight(t, x, y)
                [] OTHER -> ShiftedLogical(t, x, y)>>)
\* The operation k on two values; y was evaluated last.  The count of a shift
\* is at most an int.
Binary(k, x, y) ==
  LET t == Common(x.t, IF k \in Shifts THEN Num("int") ELSE y.t).base
      u == Cast(t, x.t.base, x.v[1])
      v == IF k \in Shifts THEN y.v[1] ELSE Cast(t, y.t.base, y.v[1])
  IN IF \/ (k \in Shifts \cup IntegralOps) /\ ~(IsIntegral(x.t) /\ IsIntegral(y.t))
        \/ k \in Shifts /\ y.t.base = "long"
     THEN Stop("rejected", y.m)
     ELSE Compute(k, t, u, v, y.m)
Prefixed(k, x) ==
  LET t == Common(x.t, Num("int")).base
      v == Cast(t, x.t.base, x.v[1])
  IN IF k = "BIT_NOT" /\ ~IsIntegral(x.t) THEN Stop("rejected", x.m)
     ELSE Ok(x.m, Num(t), <<CASE k = "PLUS" -> v [] k = "MINUS" -> Negated(t, v) [] OTHER -> Complement(t, v)>>)
Truth(m, p) == Ok(m, Num("int"), <<IF p THEN 1 ELSE 0>>)
Related(k, x, y) ==
  CASE k \in StringCompare ->
         IF x.v[1] = 0 \/ y.v[1] = 0 THEN Stop("raised", y.m)
         ELSE Truth(y.m, Compares(k, Datum(y.m, x.v[1], 0), Datum(y.m, y.v[1], 0)))
    [] IsNumeric(x.t) ->
         LET t == Common(x.t, y.t).base
         IN Truth(y.m, Compares(k, Cast(t, x.t.base, x.v[1]), Cast(t, y.t.base, y.v[1])))
    [] OTHER -> Truth(y.m, Compares(k, x.v[1], y.v[1]))

(* ----------------------------- evaluation ------------------------------ *)
\* The rest of an evaluation, after one that ended well.
Then(x, rest(_)) == IF x.s = "ok" THEN rest(x) ELSE x
\* x is stored in the place l of type t.
Put(x, l, t) == Ok(StoredAll(x.m, l, x.v), t, x.v)
\* undef may go to any object, a constant where its value fits.
Conforms(e, x, t) ==
  \/ x.t = t
  \/ IsObject(t) /\ x.t = UndefType
  \/ IsNumeric(x.t) /\ IsNumeric(t) /\ \/ Rank(x.t.base) <= Rank(t.base)
                                       \/ e.k = "CONSTANT" /\ Integral(t.base) /\ Fits(t.base, e.v)
Assigned(e, x, l, t) ==
  IF ~Conforms(e, x, t) THEN Stop("rejected", x.m)
  ELSE IF IsNumeric(t) THEN Then(Cut(t.base, x), LAMBDA y : Put(y, l, t)) ELSE Put(x, l, t)

RECURSIVE Value(_, _), Place(_, _)
\* The value of e when the memory is m.
Value(e, m) ==
  CASE e.k = "CONSTANT" -> Ok(m, e.t, <<e.v>>)
    [] e.k = "UNDEF" -> Ok(m, e.t, <<0>>)
    [] e.k \in Arithmetic \cup IntegralOps \cup Shifts ->
         Then(Value(e.a[1], m), LAMBDA x : Then(Value(e.a[2], x.m), LAMBDA y : Binary(e.k, x, y)))
    [] e.k \in Unary -> Then(Value(e.a[1], m), LAMBDA x : Prefixed(e.k, x))
    [] e.k \in Relational ->
         Then(Value(e.a[1], m), LAMBDA x : Then(Value(e.a[2], x.m), LAMBDA y : Related(e.k, x, y)))
    [] e.k = "BOOL" -> Then(Value(e.a[1], m), LAMBDA x : Truth(x.m, x.v[1] # 0))
    [] e.k = "CONVERT" -> Then(Value(e.a[1], m), LAMBDA x : Cut(e.t.base, x))
    [] e.k = "ARRAY_LENGTH" ->
         Then(Value(e.a[1], m), LAMBDA x : IF x.v[1] = 0 THEN Stop("raised", x.m)
                                           ELSE Ok(x.m, Num("int"), <<x.m.heap[x.v[1]].length>>))
    [] e.k = "REF" -> Then(Place(e.a[1], m), LAMBDA p : Ok(p.m, TypeOf([e EXCEPT !.a[1].t = p.t]), <<p.v[1].r>>))
    [] e.k = "ASSIGN" ->
         Then(Value(e.a[1], m), LAMBDA x :
           IF e.a[2].k = "VAR" /\ e.a[2].t = NoType THEN Assigned(e.a[1], x, VarPlace(e.a[2].n, x.t), x.t)
           ELSE Then(Place(e.a[2], x.m), LAMBDA p : Assigned(e.a[1], [x EXCEPT !.m = p.m], p.v, p.t)))
    [] e.k = "SPECIAL_ASSIGN" ->
         Then(Place(e.a[2], m), LAMBDA p : Then(Value(e.a[1], p.m), LAMBDA y :
           Then(Binary(e.op, Ok(y.m, p.t, LoadedAll(y.m, p.v)), y), LAMBDA z :
             Then(Cut(p.t.base, z), LAMBDA c : Put(c, p.v, p.t)))))
    [] e.k \in {"PRE_INC", "PRE_DEC", "POST_INC", "POST_DEC"} ->
         Then(Place(e.a[1], m), LAMBDA p :
           LET old == Ok(p.m, p.t, LoadedAll(p.m, p.v))
               one == Ok(p.m, Num("int"), <<1>>)
           IN Then(Cut(p.t.base, Binary(Increment(e.k), old, one)), LAMBDA c :
                LET new == Put(c, p.v, p.t)
                IN IF e.k \in {"PRE_INC", "PRE_DEC"} THEN new ELSE [old EXCEPT !.m = new.m]))
    [] OTHER -> Then(Place(e, m), LAMBDA p : Ok(p.m, p.t, LoadedAll(p.m, p.v)))
\* The locations that e names when the memory is m.
Place(e, m) ==
  CASE e.k = "VAR" -> Ok(m, e.t, VarPlace(e.n, e.t))
    [] e.k = "PACKAGE_VAR_ACCESS" -> Ok(m, e.t, <<InPackage>>)
    [] e.k = "DEREF" ->
         Then(Value(e.a[1], m), LAMBDA x :
           LET t == Type(IF x.t.form = "value&" THEN "value" ELSE "numeric", x.t.base)
           IN Ok(x.m, t, Consecutive(x.v[1], t)))
    [] e.k = "ARRAY_ACCESS" ->
         Then(Value(e.a[1], m), LAMBDA x : Then(Value(e.a[2], x.m), LAMBDA y :
           LET t == Type(IF x.t.form = "value[]" THEN "value" ELSE "numeric", x.t.base)
           IN IF InRange(y.m, x.v[1], y.v[1])
              THEN Ok(y.m, t, [i \in 1 .. Width(t) |-> InHeap(x.v[1], Width(t) * y.v[1] + i - 1)])
              ELSE Stop("raised", y.m)))
    [] e.k = "FIELD_ACCESS" /\ e.a[1].t.form = "object" ->
         Then(Value(e.a[1], m), LAMBDA x : IF x.v[1] = 0 THEN Stop("raised", x.m)
                                           ELSE Ok(x.m, Num(x.t.base), <<InHeap(x.v[1], e.v)>>))
    [] e.k = "FIELD_ACCESS" /\ e.a[1].t.form = "value&" ->
         Then(Value(e.a[1], m), LAMBDA x : Ok(x.m, Num(x.t.base), <<InReg(Pointee(x.v[1], e.v))>>))
    [] e.k = "FIELD_ACCESS" ->
         Then(Place(e.a[1], m), LAMBDA p : Ok(p.m, Num(p.t.base), <<p.v[e.v + 1]>>))
    [] OTHER -> Stop("rejected", m)
=============================================================================
