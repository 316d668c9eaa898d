------------------------------ MODULE Numbers ------------------------------
(***************************************************************************)
(* The numeric types of the language, as the C code that runs it computes  *)
(* with them: two's complement integers of four widths and binary floating *)
(* point of two precisions.  The widths are scaled down (NumericBits): what *)
(* matters is which type is wider, where arithmetic wraps, and what a       *)
(* conversion loses.  A floating point number is represented by the number *)
(* of halves it is worth; it keeps NumericBits[t] significant bits.        *)
(***************************************************************************)
EXTENDS Integers, Bitwise

NumericTypes == <<"byte", "short", "int", "long", "float", "double">>
NumericBits == [byte |-> 2, short |-> 3, int |-> 4, long |-> 8, float |-> 2, double |-> 6]

\* The order of the basic types of the compiler.
Rank(t) == CHOOSE r \in DOMAIN NumericTypes : NumericTypes[r] = t
Integral(t) == Rank(t) <= Rank("long")

MinOf(t) == -(2 ^ (NumericBits[t] - 1))
MaxOf(t) == 2 ^ (NumericBits[t] - 1) - 1
Fits(t, v) == v \in MinOf(t) .. MaxOf(t)
Unsigned(t, v) == v % 2 ^ NumericBits[t]
Wrapped(t, v) == LET u == Unsigned(t, v) IN IF u > MaxOf(t) THEN u - 2 ^ NumericBits[t] ELSE u

Abs(v) == IF v < 0 THEN -v ELSE v
\* C truncates a quotient toward zero; % of TLA+ floors.
Truncated(n, d) == LET q == Abs(n) \div Abs(d) IN IF (n < 0) # (d < 0) THEN -q ELSE q

\* n/d rounded to p significant bits, a tie to the even one.
RoundedTo(p, n, d) ==
  LET num == Abs(n)
      den == Abs(d)
      step == CHOOSE e \in 0 .. 40 : /\ num < den * 2 ^ (e + p)
                                     /\ e = 0 \/ num >= den * 2 ^ (e - 1 + p)
      unit == den * 2 ^ step
      low == num \div unit
      rest == 2 * (num % unit)
      mantissa == IF rest > unit \/ (rest = unit /\ low % 2 = 1) THEN low + 1 ELSE low
      size == mantissa * 2 ^ step
  IN IF (n < 0) # (d < 0) THEN -size ELSE size

\* A cast of C from one numeric type to another.  A floating point number
\* that the machine's conversion cannot represent gives its indefinite value;
\* byte and short are cut from an int.
Cast(to, from, v) ==
  LET via == IF to = "long" THEN "long" ELSE "int"
      whole == IF Integral(from) THEN v
               ELSE LET i == Truncated(v, 2) IN IF Fits(via, i) THEN i ELSE MinOf(via)
  IN IF Integral(to) THEN Wrapped(to, whole)
     ELSE RoundedTo(NumericBits[to], IF Integral(from) THEN 2 * v ELSE v, 1)

Sum(t, x, y) == IF Integral(t) THEN Wrapped(t, x + y) ELSE RoundedTo(NumericBits[t], x + y, 1)
Difference(t, x, y) == IF Integral(t) THEN Wrapped(t, x - y) ELSE RoundedTo(NumericBits[t], x - y, 1)
Product(t, x, y) == IF Integral(t) THEN Wrapped(t, x * y) ELSE RoundedTo(NumericBits[t], x * y, 2)
Quotient(t, x, y) == IF Integral(t) THEN Wrapped(t, Truncated(x, y)) ELSE RoundedTo(NumericBits[t], 2 * x, y)
Remaining(x, y) == x - y * Truncated(x, y)
Negated(t, x) == IF Integral(t) THEN Wrapped(t, -x) ELSE -x

\* The machine takes a shift count modulo the width.
Count(t, n) == n % NumericBits[t]
ShiftedLeft(t, x, n) == Wrapped(t, x * 2 ^ Count(t, n))
ShiftedRight(t, x, n) == x \div 2 ^ Count(t, n)
ShiftedLogical(t, x, n) == Wrapped(t, Unsigned(t, x) \div 2 ^ Count(t, n))
BitAnd(t, x, y) == Wrapped(t, Unsigned(t, x) & Unsigned(t, y))
BitOr(t, x, y) == Wrapped(t, Unsigned(t, x) | Unsigned(t, y))
BitXor(t, x, y) == Wrapped(t, Unsigned(t, x) ^^ Unsigned(t, y))
Complement(t, x) == -x - 1
=============================================================================
