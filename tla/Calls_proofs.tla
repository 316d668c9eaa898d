---------------------------- MODULE Calls_proofs ----------------------------
(***************************************************************************)
(* Proofs about Calls: in every supported program, whoever runs its        *)
(* subroutines, arguments and results arrive, no call changes a variable   *)
(* but the one its result goes to, and no slot beyond an array is written. *)
(*                                                                         *)
(* The layout of registers and arguments is made of sums over sequences of *)
(* any length.  Facts about sums are proved by induction: a number for     *)
(* which one fails would have a smallest, and there it does not fail.      *)
(***************************************************************************)
EXTENDS Calls, WellFoundedInduction, FiniteSetTheorems, TLAPS

-----------------------------------------------------------------------------
(* Sums.                                                                   *)

(* A set of natural numbers has a smallest one.                            *)
LEMMA Least ==
  ASSUME NEW S, S \subseteq Nat, S # {}
  PROVE  \E m \in S : \A n \in S : m <= n
<1> DEFINE R == {p \in Nat \X Nat : p[1] < p[2]}
<1>1. R = OpToRel(<, Nat)
  BY DEF OpToRel
<1>2. IsWellFoundedOn(R, Nat)
  BY <1>1, NatLessThanWellFounded
<1>3. PICK m \in S : \A n \in S : <<n, m>> \notin R
  <2> HIDE DEF R
  <2> QED
    BY <1>2, WFMin
<1>4. ASSUME NEW n \in S PROVE m <= n
  <2>1. m \in Nat /\ n \in Nat /\ <<n, m>> \notin R
    BY <1>3
  <2>2. ~ (n < m)
    BY <2>1
  <2> QED
    BY <2>1, <2>2
<1> QED
  BY <1>4

(* The sums of a sequence are what their recursive definition says: such   *)
(* a function exists.                                                      *)
LEMMA SumsExist ==
  ASSUME NEW w \in Seq(Nat)
  PROVE  \E g : /\ g = [n \in 0 .. Len(w) |-> IF n = 0 THEN 0 ELSE g[n - 1] + w[n]]
                /\ g \in [0 .. Len(w) -> Nat]
<1>0. Len(w) \in Nat /\ \A n \in 1 .. Len(w) : w[n] \in Nat
  OBVIOUS
<1> DEFINE Upto(m) == \E g \in [0 .. m -> Nat] :
              g[0] = 0 /\ \A n \in 1 .. m : g[n] = g[n - 1] + w[n]
           Bad == {m \in 0 .. Len(w) : ~ Upto(m)}
<1>1. ASSUME Bad # {} PROVE FALSE
  <2>0. Bad \subseteq Nat
    BY <1>0
  <2> HIDE DEF Bad
  <2>1. PICK m \in Bad : \A n \in Bad : m <= n
    BY <1>1, <2>0, Least
  <2>2. m \in 0 .. Len(w) /\ m \in Nat /\ ~ Upto(m)
    BY <2>1, <1>0 DEF Bad
  <2>3. CASE m = 0
    <3> DEFINE g == [n \in 0 .. 0 |-> 0]
    <3>1. g \in [0 .. m -> Nat] /\ g[0] = 0 /\ \A n \in 1 .. m : g[n] = g[n - 1] + w[n]
      BY <2>3
    <3> HIDE DEF g
    <3> QED
      BY <3>1, <2>2
  <2>4. CASE m # 0
    <3>1. m - 1 \in 0 .. Len(w) /\ m - 1 \notin Bad
      BY <1>0, <2>1, <2>2, <2>4
    <3>2. PICK g \in [0 .. m - 1 -> Nat] : g[0] = 0 /\ \A n \in 1 .. m - 1 : g[n] = g[n - 1] + w[n]
      BY <3>1 DEF Bad
    <3> DEFINE h == [n \in 0 .. m |-> IF n = m THEN g[m - 1] + w[m] ELSE g[n]]
    <3>3. w[m] \in Nat
      BY <1>0, <2>2, <2>4
    <3>4. h \in [0 .. m -> Nat]
      BY <2>2, <3>2, <3>3, <2>4
    <3>5. h[0] = 0 /\ \A n \in 1 .. m : h[n] = h[n - 1] + w[n]
      BY <2>2, <3>2, <3>3, <2>4
    <3> HIDE DEF h
    <3> QED
      BY <3>4, <3>5, <2>2
  <2> QED
    BY <2>3, <2>4
<1>2. Upto(Len(w))
  <2>1. Len(w) \in 0 .. Len(w)
    BY <1>0
  <2>2. Len(w) \notin Bad
    <3> HIDE DEF Bad
    <3> QED
      BY <1>1
  <2> QED
    BY <2>1, <2>2
<1>3. PICK g \in [0 .. Len(w) -> Nat] : g[0] = 0 /\ \A n \in 1 .. Len(w) : g[n] = g[n - 1] + w[n]
  BY <1>2
<1>4. g = [n \in 0 .. Len(w) |-> IF n = 0 THEN 0 ELSE g[n - 1] + w[n]]
  BY <1>3, <1>0
<1> QED
  BY <1>3, <1>4

LEMMA SumFacts ==
  ASSUME NEW w \in Seq(Nat)
  PROVE  /\ Sums(w)[0] = 0
         /\ \A n \in 1 .. Len(w) : Sums(w)[n] = Sums(w)[n - 1] + w[n]
         /\ \A n \in 0 .. Len(w) : Sums(w)[n] \in Nat
<1> DEFINE IsSum(g) == g = [n \in 0 .. Len(w) |-> IF n = 0 THEN 0 ELSE g[n - 1] + w[n]]
<1>1. PICK g : IsSum(g) /\ g \in [0 .. Len(w) -> Nat]
  BY SumsExist
<1>2. \A h : IsSum(h) => /\ DOMAIN h = 0 .. Len(w) /\ h[0] = 0
                        /\ \A n \in 1 .. Len(w) : h[n] = h[n - 1] + w[n]
  <2>1. Len(w) \in Nat
    OBVIOUS
  <2> QED
    BY <2>1
<1>3. IsSum(Sums(w))
  BY <1>1 DEF Sums
<1>4. /\ DOMAIN Sums(w) = 0 .. Len(w) /\ Sums(w)[0] = 0
      /\ \A n \in 1 .. Len(w) : Sums(w)[n] = Sums(w)[n - 1] + w[n]
  BY <1>2, <1>3
<1>5. ASSUME NEW n \in 0 .. Len(w) PROVE Sums(w)[n] \in Nat
  <2> DEFINE Bad == {m \in 0 .. Len(w) : Sums(w)[m] \notin Nat}
  <2>0. Len(w) \in Nat /\ \A m \in 1 .. Len(w) : w[m] \in Nat
    OBVIOUS
  <2>1. ASSUME Bad # {} PROVE FALSE
    <3>1. Bad \subseteq Nat
      BY <2>0
    <3> HIDE DEF Bad
    <3>2. PICK m \in Bad : \A k \in Bad : m <= k
      BY <2>1, <3>1, Least
    <3>3. m \in 0 .. Len(w) /\ Sums(w)[m] \notin Nat
      BY <3>2 DEF Bad
    <3>4. m # 0
      BY <3>3, <1>4
    <3>5. m - 1 \in 0 .. Len(w) /\ m \in 1 .. Len(w) /\ ~ (m <= m - 1)
      BY <2>0, <3>3, <3>4
    <3>6. m - 1 \notin Bad
      BY <3>2, <3>5
    <3>7. Sums(w)[m - 1] \in Nat
      BY <3>5, <3>6 DEF Bad
    <3> QED
      BY <3>3, <3>5, <3>7, <1>4, <2>0
  <2> QED
    BY <2>1
<1> QED
  BY <1>4, <1>5

LEMMA SumsGrow ==
  ASSUME NEW w \in Seq(Nat), NEW m \in 0 .. Len(w), NEW n \in 0 .. Len(w), m <= n
  PROVE  Sums(w)[m] <= Sums(w)[n]
<1>0. Len(w) \in Nat /\ \A k \in 1 .. Len(w) : w[k] \in Nat
  OBVIOUS
<1> DEFINE Bad == {k \in m .. Len(w) : ~ (Sums(w)[m] <= Sums(w)[k])}
<1>1. ASSUME Bad # {} PROVE FALSE
  <2>1. Bad \subseteq Nat
    BY <1>0
  <2> HIDE DEF Bad
  <2>2. PICK k \in Bad : \A j \in Bad : k <= j
    BY <1>1, <2>1, Least
  <2>3. k \in m .. Len(w) /\ ~ (Sums(w)[m] <= Sums(w)[k])
    BY <2>2 DEF Bad
  <2>4. k \in 0 .. Len(w) /\ Sums(w)[m] \in Nat /\ Sums(w)[k] \in Nat
    BY <1>0, <2>3, SumFacts
  <2>5. k # m
    BY <2>3, <2>4
  <2>6. k - 1 \in m .. Len(w) /\ k \in 1 .. Len(w) /\ k - 1 \in 0 .. Len(w) /\ ~ (k <= k - 1)
    BY <1>0, <2>3, <2>5
  <2>7. k - 1 \notin Bad
    BY <2>2, <2>6
  <2>8. Sums(w)[m] <= Sums(w)[k - 1]
    BY <2>6, <2>7 DEF Bad
  <2>9. Sums(w)[k] = Sums(w)[k - 1] + w[k] /\ Sums(w)[k - 1] \in Nat /\ w[k] \in Nat
    BY <2>6, <1>0, SumFacts
  <2> QED
    BY <2>3, <2>4, <2>8, <2>9
<1> QED
  BY <1>0, <1>1

-----------------------------------------------------------------------------
(* Programs.                                                               *)

LEMMA TypeFacts ==
  ASSUME NEW t \in Type
  PROVE  Width(t) \in Nat /\ Bank(t) \in Banks
BY DEF Type, Width, Bank, Banks, Forms, CTypes

LEMMA SubFacts ==
  ASSUME NEW s \in Subs
  PROVE  /\ Args[s] \in Seq(Type) /\ Locals[s] \in Seq(Type) /\ Returned[s] \in Type
         /\ Mys(s) \in Seq(Type) /\ Len(Mys(s)) \in Nat /\ DOMAIN Mys(s) = 1 .. Len(Mys(s))
         /\ \A i \in DOMAIN Mys(s) : Mys(s)[i] \in Type
         /\ Len(Args[s]) \in Nat /\ DOMAIN Args[s] = 1 .. Len(Args[s]) /\ Len(Args[s]) <= Len(Mys(s))
         /\ \A i \in DOMAIN Args[s] : i \in DOMAIN Mys(s) /\ Mys(s)[i] = Args[s][i] /\ Args[s][i] \in Type
<1>1. Args[s] \in Seq(Type) /\ Locals[s] \in Seq(Type) /\ Returned[s] \in Type
  BY ProgramAssumption
<1>2. Mys(s) = Args[s] \o Locals[s]
  BY DEF Mys
<1> DEFINE a == Args[s]
           l == Locals[s]
<1>3. a \in Seq(Type) /\ l \in Seq(Type) /\ Mys(s) = a \o l
  BY <1>1, <1>2
<1> HIDE DEF a, l
<1>4. /\ Mys(s) \in Seq(Type) /\ Len(Mys(s)) = Len(a) + Len(l) /\ Len(a) \in Nat /\ Len(l) \in Nat
      /\ \A i \in 1 .. Len(a) : Mys(s)[i] = a[i]
  BY <1>3
<1>5. DOMAIN Mys(s) = 1 .. Len(Mys(s)) /\ \A i \in 1 .. Len(Mys(s)) : Mys(s)[i] \in Type
  BY <1>4
<1>6. DOMAIN a = 1 .. Len(a) /\ \A i \in 1 .. Len(a) : a[i] \in Type
  BY <1>3
<1>7. \A i \in 1 .. Len(a) : i \in 1 .. Len(Mys(s))
  BY <1>4
<1>8. Len(Mys(s)) \in Nat /\ Len(a) <= Len(Mys(s))
  BY <1>4
<1> QED
  BY <1>1, <1>4, <1>5, <1>6, <1>7, <1>8 DEF a

LEMMA WidthsFacts ==
  ASSUME NEW ts \in Seq(Type)
  PROVE  /\ Widths(ts) \in Seq(Nat) /\ Len(Widths(ts)) = Len(ts)
         /\ \A i \in 1 .. Len(ts) : Widths(ts)[i] = Width(ts[i]) /\ Width(ts[i]) \in Nat
         /\ AllocLength(ts) = Sums(Widths(ts))[Len(ts)]
<1>1. DOMAIN ts = 1 .. Len(ts) /\ Len(ts) \in Nat /\ \A i \in 1 .. Len(ts) : ts[i] \in Type
  OBVIOUS
<1>2. \A i \in 1 .. Len(ts) : Width(ts[i]) \in Nat
  BY <1>1, TypeFacts
<1>3. Widths(ts) = [i \in 1 .. Len(ts) |-> Width(ts[i])]
  BY <1>1 DEF Widths
<1>4. Widths(ts) \in Seq(Nat) /\ Len(Widths(ts)) = Len(ts)
  BY <1>1, <1>2, <1>3
<1> QED
  BY <1>2, <1>3, <1>4 DEF AllocLength, Total

(* The slots of an argument lie behind those of the arguments before it.   *)
LEMMA SlotFacts ==
  ASSUME NEW s \in Subs
  PROVE  /\ AllocLength(Args[s]) \in Nat /\ AllocLength(Args[s]) = Sums(Widths(Args[s]))[Len(Args[s])]
         /\ Sums(Widths(Args[s]))[0] = 0
         /\ \A i \in 1 .. Len(Args[s]) :
              /\ SlotOfArg(s, i) \in Nat /\ Width(Args[s][i]) \in Nat
              /\ SlotOfArg(s, i) = Sums(Widths(Args[s]))[i - 1]
              /\ SlotOfArg(s, i) + Width(Args[s][i]) = Sums(Widths(Args[s]))[i]
              /\ SlotOfArg(s, i) + Width(Args[s][i]) <= AllocLength(Args[s])
              /\ \A k \in 1 .. i - 1 : SlotOfArg(s, k) + Width(Args[s][k]) <= SlotOfArg(s, i)
<1> DEFINE w == Widths(Args[s])
           n == Len(Args[s])
<1>1. w \in Seq(Nat) /\ Len(w) = n /\ n \in Nat /\ AllocLength(Args[s]) = Sums(w)[n]
  BY SubFacts, WidthsFacts
<1>2. \A i \in 1 .. n : w[i] = Width(Args[s][i]) /\ w[i] \in Nat
  BY SubFacts, WidthsFacts
<1>3. \A i \in 1 .. n : SlotOfArg(s, i) = Sums(w)[i - 1]
  BY DEF SlotOfArg
<1> HIDE DEF w, n
<1>4. /\ Sums(w)[0] = 0 /\ \A i \in 1 .. n : Sums(w)[i] = Sums(w)[i - 1] + w[i]
      /\ \A i \in 0 .. n : Sums(w)[i] \in Nat
  BY <1>1, SumFacts
<1>5. \A i, j \in 0 .. n : i <= j => Sums(w)[i] <= Sums(w)[j]
  BY <1>1, SumsGrow
<1>6. ASSUME NEW i \in 1 .. n
      PROVE  /\ SlotOfArg(s, i) \in Nat /\ SlotOfArg(s, i) + w[i] = Sums(w)[i]
             /\ Sums(w)[i] <= Sums(w)[n]
             /\ \A k \in 1 .. i - 1 : SlotOfArg(s, k) + w[k] <= SlotOfArg(s, i)
  <2>1. i \in 0 .. n /\ i - 1 \in 0 .. n /\ n \in 0 .. n /\ i <= n
    BY <1>1
  <2>2. SlotOfArg(s, i) = Sums(w)[i - 1] /\ Sums(w)[i - 1] \in Nat /\ Sums(w)[i] <= Sums(w)[n]
    BY <1>3, <1>4, <1>5, <2>1
  <2>3. ASSUME NEW k \in 1 .. i - 1 PROVE SlotOfArg(s, k) + w[k] <= SlotOfArg(s, i)
    <3>1. k \in 1 .. n /\ k \in 0 .. n /\ k <= i - 1
      BY <1>1
    <3>2. SlotOfArg(s, k) = Sums(w)[k - 1] /\ Sums(w)[k] = Sums(w)[k - 1] + w[k] /\ Sums(w)[k] <= Sums(w)[i - 1]
      BY <1>3, <1>4, <1>5, <2>1, <3>1
    <3> QED
      BY <2>2, <3>2
  <2> QED
    BY <1>4, <2>2, <2>3
<1>7. ASSUME NEW i \in 1 .. n
      PROVE  /\ SlotOfArg(s, i) \in Nat /\ Width(Args[s][i]) \in Nat
             /\ SlotOfArg(s, i) = Sums(w)[i - 1]
             /\ SlotOfArg(s, i) + Width(Args[s][i]) = Sums(w)[i]
             /\ SlotOfArg(s, i) + Width(Args[s][i]) <= AllocLength(Args[s])
             /\ \A k \in 1 .. i - 1 : SlotOfArg(s, k) + Width(Args[s][k]) <= SlotOfArg(s, i)
  <2>1. w[i] = Width(Args[s][i]) /\ \A k \in 1 .. i - 1 : w[k] = Width(Args[s][k])
    BY <1>1, <1>2
  <2> QED
    BY <1>1, <1>2, <1>3, <1>6, <2>1
<1>8. AllocLength(Args[s]) \in Nat
  BY <1>1, <1>4
<1> QED
  BY <1>1, <1>4, <1>7, <1>8 DEF w, n

-----------------------------------------------------------------------------
(* Registers.                                                              *)

LEMMA BankWidthsFacts ==
  ASSUME NEW s \in Subs, NEW b
  PROVE  /\ BankWidths(s, b) \in Seq(Nat) /\ Len(BankWidths(s, b)) = Len(Mys(s))
         /\ \A i \in DOMAIN Mys(s) :
              BankWidths(s, b)[i] = IF Bank(Mys(s)[i]) = b THEN Width(Mys(s)[i]) ELSE 0
<1>1. Len(Mys(s)) \in Nat /\ DOMAIN Mys(s) = 1 .. Len(Mys(s)) /\ \A i \in DOMAIN Mys(s) : Mys(s)[i] \in Type
  BY SubFacts
<1>2. \A i \in DOMAIN Mys(s) : Width(Mys(s)[i]) \in Nat
  BY <1>1, TypeFacts
<1>3. BankWidths(s, b) =
        [i \in 1 .. Len(Mys(s)) |-> IF Bank(Mys(s)[i]) = b THEN Width(Mys(s)[i]) ELSE 0]
  BY <1>1 DEF BankWidths
<1>4. \A i \in 1 .. Len(Mys(s)) : (IF Bank(Mys(s)[i]) = b THEN Width(Mys(s)[i]) ELSE 0) \in Nat
  BY <1>1, <1>2
<1> QED
  BY <1>1, <1>3, <1>4

(* The checker gives variables of one array indexes that do not overlap.   *)
LEMMA VarIdFacts ==
  ASSUME NEW s \in Subs, NEW i \in DOMAIN Mys(s)
  PROVE  /\ VarIds[s][i] \in Nat /\ Width(Mys(s)[i]) \in Nat
         /\ BankLength(s, Bank(Mys(s)[i])) \in Nat
         /\ VarIds[s][i] + Width(Mys(s)[i]) <= BankLength(s, Bank(Mys(s)[i]))
         /\ \A k \in DOMAIN Mys(s) :
              Bank(Mys(s)[k]) = Bank(Mys(s)[i]) /\ i < k
                => VarIds[s][i] + Width(Mys(s)[i]) <= VarIds[s][k]
<1> DEFINE b == Bank(Mys(s)[i])
           w == BankWidths(s, b)
           n == Len(Mys(s))
<1>0. n \in Nat /\ DOMAIN Mys(s) = 1 .. n /\ Mys(s)[i] \in Type
  BY SubFacts
<1>1. w \in Seq(Nat) /\ Len(w) = n /\ w[i] = Width(Mys(s)[i])
  BY BankWidthsFacts
<1>2. BankLength(s, b) = Sums(w)[n]
  BY <1>1 DEF BankLength, Total
<1>3. \A k \in DOMAIN Mys(s) : VarIds[s][k] = Sums(BankWidths(s, Bank(Mys(s)[k])))[k - 1]
  BY DEF VarIds, VarId
<1>4. \A k \in DOMAIN Mys(s) : Bank(Mys(s)[k]) = b => VarIds[s][k] = Sums(w)[k - 1]
  BY <1>3
<1>5. VarIds[s][i] = Sums(w)[i - 1]
  BY <1>4
<1> HIDE DEF w, n
<1>6. /\ \A k \in 1 .. n : Sums(w)[k] = Sums(w)[k - 1] + w[k]
      /\ \A k \in 0 .. n : Sums(w)[k] \in Nat
  BY <1>1, SumFacts
<1>7. \A k, j \in 0 .. n : k <= j => Sums(w)[k] <= Sums(w)[j]
  BY <1>1, SumsGrow
<1>8. i \in 1 .. n /\ i \in 0 .. n /\ i - 1 \in 0 .. n /\ n \in 0 .. n /\ i <= n
  BY <1>0
<1>9. Width(Mys(s)[i]) \in Nat
  BY <1>0, TypeFacts
<1>10. VarIds[s][i] \in Nat /\ VarIds[s][i] + Width(Mys(s)[i]) = Sums(w)[i] /\ Sums(w)[i] <= Sums(w)[n]
  BY <1>1, <1>5, <1>6, <1>7, <1>8
<1>11. ASSUME NEW k \in DOMAIN Mys(s), Bank(Mys(s)[k]) = b, i < k
       PROVE  Sums(w)[i] <= VarIds[s][k]
  <2>1. k - 1 \in 0 .. n /\ i <= k - 1
    BY <1>0, <1>8, <1>11
  <2> QED
    BY <1>4, <1>7, <1>8, <1>11, <2>1
<1>12. BankLength(s, b) \in Nat
  BY <1>2, <1>6, <1>8
<1> QED
  BY <1>2, <1>9, <1>10, <1>11, <1>12

LEMMA BankLengthType ==
  ASSUME NEW s \in Subs, NEW b PROVE BankLength(s, b) \in Nat
<1>1. BankWidths(s, b) \in Seq(Nat) /\ Len(BankWidths(s, b)) \in Nat
  BY BankWidthsFacts, SubFacts
<1>2. Len(BankWidths(s, b)) \in 0 .. Len(BankWidths(s, b))
  BY <1>1
<1> QED
  BY <1>1, <1>2, SumFacts DEF BankLength, Total

LEMMA AreaBytesFacts ==
  ASSUME NEW s \in Subs
  PROVE  /\ AreaBytes(s) \in Seq(Nat) /\ Len(AreaBytes(s)) = 9
         /\ AreaBytes(s)[1] = 8 * BankLength(s, "double") /\ AreaBytes(s)[2] = 8 * BankLength(s, "long")
         /\ AreaBytes(s)[3] = 4 * BankLength(s, "float") /\ AreaBytes(s)[4] = 4 * BankLength(s, "int")
         /\ AreaBytes(s)[5] = 2 * BankLength(s, "short") /\ AreaBytes(s)[6] \in Nat
         /\ AreaBytes(s)[7] = 1 * BankLength(s, "byte") /\ AreaBytes(s)[8] = 8 * BankLength(s, "object")
         /\ AreaBytes(s)[9] = 8 * BankLength(s, "ref")
<1>1. AreaLength(s, "mortal") \in Nat
  <2>1. IsFiniteSet(DOMAIN Mys(s))
    BY SubFacts, FS_Interval
  <2>2. IsFiniteSet({i \in DOMAIN Mys(s) : Mys(s)[i].form = "object"})
    BY <2>1, FS_Subset
  <2> QED
    BY <2>2, FS_CardinalityType DEF AreaLength
<1>2. \A b \in Banks : AreaLength(s, b) = BankLength(s, b) /\ BankLength(s, b) \in Nat
  BY BankLengthType DEF AreaLength, Banks, CTypes
<1>3. DOMAIN Areas = 1 .. 9
  BY DEF Areas
<1>4. AreaBytes(s) = [k \in 1 .. 9 |-> Size[Areas[k]] * AreaLength(s, Areas[k])]
  BY <1>3 DEF AreaBytes
<1>5. /\ Size[Areas[1]] = 8 /\ Size[Areas[2]] = 8 /\ Size[Areas[3]] = 4 /\ Size[Areas[4]] = 4
      /\ Size[Areas[5]] = 2 /\ Size[Areas[6]] = 2 /\ Size[Areas[7]] = 1 /\ Size[Areas[8]] = 8
      /\ Size[Areas[9]] = 8
  BY DEF Areas, Size
<1>6. /\ Areas[1] = "double" /\ Areas[2] = "long" /\ Areas[3] = "float" /\ Areas[4] = "int"
      /\ Areas[5] = "short" /\ Areas[6] = "mortal" /\ Areas[7] = "byte" /\ Areas[8] = "object"
      /\ Areas[9] = "ref"
  BY DEF Areas
<1>7. /\ "double" \in Banks /\ "long" \in Banks /\ "float" \in Banks /\ "int" \in Banks
      /\ "short" \in Banks /\ "byte" \in Banks /\ "object" \in Banks /\ "ref" \in Banks
  BY DEF Banks, CTypes
<1> DEFINE A == AreaBytes(s)
<1>8. /\ A[1] = 8 * BankLength(s, "double") /\ A[2] = 8 * BankLength(s, "long")
      /\ A[3] = 4 * BankLength(s, "float") /\ A[4] = 4 * BankLength(s, "int")
      /\ A[5] = 2 * BankLength(s, "short") /\ A[6] = 2 * AreaLength(s, "mortal")
      /\ A[7] = 1 * BankLength(s, "byte") /\ A[8] = 8 * BankLength(s, "object")
      /\ A[9] = 8 * BankLength(s, "ref")
  BY <1>2, <1>4, <1>5, <1>6, <1>7
<1>9. A[6] \in Nat
  BY <1>1, <1>8
<1>10. \A k \in 1 .. 9 : A[k] \in Nat
  BY <1>2, <1>7, <1>8, <1>9
<1>11. A = [k \in 1 .. 9 |-> A[k]]
  BY <1>4
<1> HIDE DEF A
<1>12. A \in Seq(Nat) /\ Len(A) = 9
  BY <1>10, <1>11
<1> QED
  BY <1>8, <1>9, <1>12 DEF A

(* The bytes of an array, from its offset on.                              *)
End(s, b) == VmOffset(s, b) + Size[b] * BankLength(s, b)

LEMMA OffsetFacts ==
  ASSUME NEW s \in Subs
  PROVE  /\ \A b \in Banks : VmOffset(s, b) \in Nat
         /\ \A b, c \in Banks : b # c => End(s, b) <= VmOffset(s, c) \/ End(s, c) <= VmOffset(s, b)
<1> DEFINE A == AreaBytes(s)
           S == Sums(A)
<1>1. A \in Seq(Nat) /\ Len(A) = 9
  BY AreaBytesFacts
<1>2. /\ S[0] = 0 /\ \A n \in 1 .. 9 : S[n] = S[n - 1] + A[n]
      /\ \A n \in 0 .. 9 : S[n] \in Nat
  BY <1>1, SumFacts
<1>3. /\ S[1] = S[0] + A[1] /\ S[2] = S[1] + A[2] /\ S[3] = S[2] + A[3] /\ S[4] = S[3] + A[4]
      /\ S[5] = S[4] + A[5] /\ S[6] = S[5] + A[6] /\ S[7] = S[6] + A[7] /\ S[8] = S[7] + A[8]
      /\ S[9] = S[8] + A[9]
  BY <1>2
<1>4. S[0] \in Nat /\ S[1] \in Nat /\ S[2] \in Nat /\ S[3] \in Nat /\ S[4] \in Nat /\ S[5] \in Nat
      /\ S[6] \in Nat /\ S[7] \in Nat /\ S[8] \in Nat
  BY <1>2
<1>5. A[6] \in Nat
  BY AreaBytesFacts
<1>6. /\ VmOffset(s, "double") = S[0] /\ VmOffset(s, "long") = S[1] /\ VmOffset(s, "float") = S[2]
      /\ VmOffset(s, "int") = S[3] /\ VmOffset(s, "short") = S[4] /\ VmOffset(s, "byte") = S[6]
      /\ VmOffset(s, "object") = RoundUp(S[7]) + (S[7] - S[7])
      /\ VmOffset(s, "ref") = RoundUp(S[7]) + (S[8] - S[7])
  <2> HIDE DEF S
  <2>1. \A b : VmOffset(s, b) = Offset(S, b)
    BY DEF VmOffset, S, A
  <2>2. /\ Place["double"] = 1 /\ Place["long"] = 2 /\ Place["float"] = 3 /\ Place["int"] = 4
        /\ Place["short"] = 5 /\ Place["byte"] = 7 /\ Place["object"] = 8 /\ Place["ref"] = 9
    BY DEF Place
  <2>3. /\ Offset(S, "double") = S[1 - 1] /\ Offset(S, "long") = S[2 - 1] /\ Offset(S, "float") = S[3 - 1]
        /\ Offset(S, "int") = S[4 - 1] /\ Offset(S, "short") = S[5 - 1] /\ Offset(S, "byte") = S[7 - 1]
        /\ Offset(S, "object") = RoundUp(S[7]) + (S[8 - 1] - S[7])
        /\ Offset(S, "ref") = RoundUp(S[7]) + (S[9 - 1] - S[7])
    BY <2>2 DEF Offset
  <2> QED
    BY <2>1, <2>3
<1>7. RoundUp(S[7]) \in Nat /\ S[7] <= RoundUp(S[7])
  <2>1. \A n \in Nat : (8 - (n % 8)) % 8 \in 0 .. 7
    OBVIOUS
  <2>2. \A n \in Nat : RoundUp(n) \in Nat /\ n <= RoundUp(n)
    BY <2>1 DEF RoundUp
  <2> HIDE DEF S
  <2> QED
    BY <1>4, <2>2
<1>8. /\ Size["double"] = 8 /\ Size["long"] = 8 /\ Size["float"] = 4 /\ Size["int"] = 4
      /\ Size["short"] = 2 /\ Size["byte"] = 1 /\ Size["object"] = 8 /\ Size["ref"] = 8
  BY DEF Size
<1> HIDE DEF S
<1>9. /\ End(s, "double") = S[1] /\ End(s, "long") = S[2] /\ End(s, "float") = S[3]
      /\ End(s, "int") = S[4] /\ End(s, "short") = S[5] /\ End(s, "byte") = S[7]
  BY <1>3, <1>6, <1>8, AreaBytesFacts DEF End, A
<1>10. End(s, "object") = RoundUp(S[7]) + (S[8] - S[7])
  <2>1. End(s, "object") = VmOffset(s, "object") + A[8]
    <3>1. A[8] = 8 * BankLength(s, "object")
      BY AreaBytesFacts
    <3>2. End(s, "object") = VmOffset(s, "object") + Size["object"] * BankLength(s, "object")
      BY DEF End
    <3> HIDE DEF A
    <3> QED
      BY <1>8, <3>1, <3>2, BankLengthType
  <2>2. A[8] \in Nat
    <3>1. A[8] = 8 * BankLength(s, "object")
      BY AreaBytesFacts
    <3>2. BankLength(s, "object") \in Nat
      BY BankLengthType
    <3> HIDE DEF A
    <3> QED
      BY <3>1, <3>2
  <2> HIDE DEF A
  <2> QED
    BY <2>1, <2>2, <1>3, <1>4, <1>6, <1>7
<1> HIDE DEF A
<1>11. /\ A[1] \in Nat /\ A[2] \in Nat /\ A[3] \in Nat /\ A[4] \in Nat /\ A[5] \in Nat
       /\ A[6] \in Nat /\ A[7] \in Nat /\ A[8] \in Nat /\ A[9] \in Nat
  <2>1. \A w \in Seq(Nat) : \A k \in 1 .. Len(w) : w[k] \in Nat
    OBVIOUS
  <2>2. \A k \in 1 .. 9 : A[k] \in Nat
    BY <1>1, <2>1
  <2> QED
    BY <2>2
<1>12. /\ S[0] <= S[1] /\ S[1] <= S[2] /\ S[2] <= S[3] /\ S[3] <= S[4] /\ S[4] <= S[5]
       /\ S[5] <= S[6] /\ S[6] <= S[7] /\ S[7] <= S[8]
  BY <1>3, <1>4, <1>11
<1>13. \A b \in Banks : VmOffset(s, b) \in Nat
  BY <1>4, <1>6, <1>7, <1>12 DEF Banks, CTypes
<1> DEFINE Before(b, c) == End(s, b) <= VmOffset(s, c)
<1>14. \A c \in {"long", "float", "int", "short", "byte", "object", "ref"} : Before("double", c)
  BY <1>4, <1>6, <1>7, <1>9, <1>12
<1>15. \A c \in {"float", "int", "short", "byte", "object", "ref"} : Before("long", c)
  BY <1>4, <1>6, <1>7, <1>9, <1>12
<1>16. \A c \in {"int", "short", "byte", "object", "ref"} : Before("float", c)
  BY <1>4, <1>6, <1>7, <1>9, <1>12
<1>17. \A c \in {"short", "byte", "object", "ref"} : Before("int", c)
  BY <1>4, <1>6, <1>7, <1>9, <1>12
<1>18. \A c \in {"byte", "object", "ref"} : Before("short", c)
  BY <1>4, <1>6, <1>7, <1>9, <1>12
<1>19. \A c \in {"object", "ref"} : Before("byte", c)
  BY <1>4, <1>6, <1>7, <1>9, <1>12
<1>20. Before("object", "ref")
  BY <1>4, <1>6, <1>7, <1>10, <1>12
<1>21. ASSUME NEW b \in Banks, NEW c \in Banks, b # c PROVE Before(b, c) \/ Before(c, b)
  <2> HIDE DEF Before
  <2> QED
    BY <1>14, <1>15, <1>16, <1>17, <1>18, <1>19, <1>20, <1>21 DEF Banks, CTypes
<1> QED
  BY <1>13, <1>21

(* The register of a word, for a choice b of who runs what.                *)
Reg(b, s, i, j) ==
  LET k == Bank(Mys(s)[i])
      id == VarIds[s][i] + j
  IN  IF b[s] = "vm" THEN VmRegister(s, k, id) ELSE PrecompiledRegister(s, k, id)

(* No two words of an activation share a register.                         *)
LEMMA RegistersApart ==
  ASSUME NEW b, NEW s \in Subs, NEW i \in DOMAIN Mys(s), NEW k \in DOMAIN Mys(s),
         NEW j \in Words(s, i), NEW l \in Words(s, k), Reg(b, s, i, j) = Reg(b, s, k, l)
  PROVE  i = k /\ j = l
<1> DEFINE p == Bank(Mys(s)[i])
           q == Bank(Mys(s)[k])
           x == VarIds[s][i] + j
           y == VarIds[s][k] + l
<1>1. /\ VarIds[s][i] \in Nat /\ Width(Mys(s)[i]) \in Nat /\ j \in Nat /\ j < Width(Mys(s)[i])
      /\ VarIds[s][k] \in Nat /\ Width(Mys(s)[k]) \in Nat /\ l \in Nat /\ l < Width(Mys(s)[k])
      /\ i \in Nat /\ k \in Nat /\ p \in Banks /\ q \in Banks
  <2>1. VarIds[s][i] \in Nat /\ Width(Mys(s)[i]) \in Nat /\ VarIds[s][k] \in Nat /\ Width(Mys(s)[k]) \in Nat
    BY VarIdFacts
  <2>2. j \in 0 .. Width(Mys(s)[i]) - 1 /\ l \in 0 .. Width(Mys(s)[k]) - 1
    BY DEF Words
  <2>3. i \in Nat /\ k \in Nat /\ Mys(s)[i] \in Type /\ Mys(s)[k] \in Type
    BY SubFacts
  <2>4. p \in Banks /\ q \in Banks
    BY <2>3, TypeFacts
  <2> QED
    BY <2>1, <2>2, <2>3, <2>4
<1>2. x \in Nat /\ y \in Nat /\ x < BankLength(s, p) /\ y < BankLength(s, q)
      /\ BankLength(s, p) \in Nat /\ BankLength(s, q) \in Nat
  BY <1>1, VarIdFacts
<1>3. p = q /\ x = y
  <2>1. CASE b[s] # "vm"
    BY <2>1 DEF Reg, PrecompiledRegister
  <2>2. CASE b[s] = "vm"
    <3> DEFINE u == VmOffset(s, p) + Size[p] * x
               v == VmOffset(s, q) + Size[q] * y
    <3>1. u = v
      BY <1>1, <2>2 DEF Reg, VmRegister, Offsets
    <3>2. VmOffset(s, p) \in Nat /\ VmOffset(s, q) \in Nat
      BY <1>1, OffsetFacts
    <3>3. ASSUME NEW c \in Banks, NEW z \in Nat, NEW n \in Nat, z < n
          PROVE  /\ Size[c] * z \in Nat /\ Size[c] * z < Size[c] * n
                 /\ \A t \in Nat : Size[c] * z = Size[c] * t => z = t
      BY <3>3 DEF Size, Banks, CTypes
    <3>4. Size[p] * x \in Nat /\ Size[p] * x < Size[p] * BankLength(s, p)
      BY <1>1, <1>2, <3>3
    <3>5. Size[q] * y \in Nat /\ Size[q] * y < Size[q] * BankLength(s, q)
      BY <1>1, <1>2, <3>3
    <3>6. p = q
      <4> SUFFICES ASSUME p # q PROVE FALSE
        OBVIOUS
      <4>1. End(s, p) <= VmOffset(s, q) \/ End(s, q) <= VmOffset(s, p)
        BY <1>1, OffsetFacts
      <4>2. Size[p] * BankLength(s, p) \in Nat /\ Size[q] * BankLength(s, q) \in Nat
        BY <1>1, <1>2 DEF Size, Banks, CTypes
      <4> DEFINE sp == Size[p] * x
                 sq == Size[q] * y
                 ep == Size[p] * BankLength(s, p)
                 eq == Size[q] * BankLength(s, q)
      <4>3. VmOffset(s, p) + ep <= VmOffset(s, q) \/ VmOffset(s, q) + eq <= VmOffset(s, p)
        BY <4>1 DEF End
      <4>4. VmOffset(s, p) + sp = VmOffset(s, q) + sq
        BY <3>1
      <4>5. sp \in Nat /\ sq \in Nat /\ ep \in Nat /\ eq \in Nat /\ sp < ep /\ sq < eq
        BY <3>4, <3>5, <4>2
      <4> HIDE DEF sp, sq, ep, eq
      <4> QED
        BY <3>2, <4>3, <4>4, <4>5
    <3>7. Size[p] * x = Size[p] * y
      <4>1. VmOffset(s, p) + Size[p] * x = VmOffset(s, p) + Size[p] * y
        BY <3>1, <3>6
      <4>2. Size[p] * y \in Nat
        BY <3>5, <3>6
      <4> DEFINE sx == Size[p] * x
                 sy == Size[p] * y
      <4>3. VmOffset(s, p) + sx = VmOffset(s, p) + sy /\ sx \in Nat /\ sy \in Nat
        BY <3>4, <4>1, <4>2
      <4> HIDE DEF sx, sy
      <4>4. sx = sy
        BY <3>2, <4>3
      <4> QED
        BY <4>4 DEF sx, sy
    <3>8. x = y
      <4> HIDE DEF x, y
      <4> QED
        BY <1>1, <1>2, <3>3, <3>7
    <3> QED
      BY <3>6, <3>8
  <2> QED
    BY <2>1, <2>2
<1>4. ~ (i < k)
  BY <1>1, <1>3, VarIdFacts
<1>5. ~ (k < i)
  BY <1>1, <1>3, VarIdFacts
<1>6. i = k
  BY <1>1, <1>4, <1>5
<1> QED
  BY <1>1, <1>3, <1>6

-----------------------------------------------------------------------------
(***************************************************************************)
(* The invariant.  The operators of the model that depend on who runs what *)
(* (build, which no step changes) are written here for a choice b.         *)
(***************************************************************************)
Regs(b, s)   == UNION {{Reg(b, s, i, j) : j \in Words(s, i)} : i \in DOMAIN Mys(s)}
Val(b, f, i) == [j \in Words(f.sub, i) |-> f.regs[Reg(b, f.sub, i, j)]]

(* The value of variable my, or undef.                                     *)
Picked(b, f, my) == IF my = 0 THEN [j \in {0} |-> Undef] ELSE Val(b, f, my)
Passed(b, f, i)  == Picked(b, f, Body[f.sub][f.at].args[i])

WordsOn(D) == UNION {[S -> Words3] : S \in SUBSET D}
RegIds == (Banks \cup {"block"}) \X Nat
Phases == {"enter", "run", "push", "wait", "leave"}

Frame ==
  [sub : Subs, at : Nat, arg : Nat, top : Int, phase : Phases, array : Nat, regs : WordsOn(RegIds),
   exc : BOOLEAN, host : BOOLEAN, given : Seq(WordsOn(Nat)), result : WordsOn(Nat)]

SlotSet  == [bank : Banks, word : Words3]
ArraySet == [0 .. StackSize - 1 -> SlotSet] \cup [0 .. 0 -> SlotSet]

HasRoom(small, s, slots) ==
  DOMAIN slots = 0 .. StackSize - 1 \/ (DOMAIN slots = 0 .. 0 /\ s \in small)

(* The value of a type t read at a slot.                                   *)
ReadAt(slots, n, t) == [j \in 0 .. Width(t) - 1 |-> Read(slots, n + j, Bank(t))]

(* What the callee will find: everything passed so far is in its place.    *)
Pushing(b, f, slots) ==
  LET c == Body[f.sub][f.at].callee IN
  /\ f.arg \in 1 .. Len(Args[c]) + 1
  /\ f.top = Sums(Widths(Args[c]))[f.arg - 1]
  /\ \A i \in 1 .. f.arg - 1 : Passed(b, f, i) = ReadAt(slots, SlotOfArg(c, i), Args[c][i])

Arrived(f, slots) ==
  \A i \in DOMAIN Args[f.sub] : f.given[i] = ReadAt(slots, SlotOfArg(f.sub, i), Args[f.sub][i])

(* RETURN was reached: its value is in the first slots.                    *)
Answered(f, slots) ==
  Returned[f.sub].form # "void" => f.result = ReadAt(slots, 0, Returned[f.sub])

(* What an activation relies on, but for the contents of its slots, ...    *)
FrameOK(small, b, f, slots) ==
  /\ f.at \in DOMAIN Body[f.sub]
  /\ f.regs \in [Regs(b, f.sub) -> Words3]
  /\ HasRoom(small, f.sub, slots)
  /\ f.phase # "push" => f.top = 0
  /\ f.phase \in {"push", "wait"} => Body[f.sub][f.at].op = "call"

(* ... and them.                                                           *)
SlotsOK(b, f, slots) ==
  /\ f.phase = "enter" => Arrived(f, slots)
  /\ f.phase = "push" => Pushing(b, f, slots)
  /\ f.phase = "leave" /\ ~f.exc => Answered(f, slots)

(* An activation above another one was called by it, or by C code while it *)
(* runs or leaves, with an array of its own.                               *)
Linked(f, g) ==
  IF g.host THEN f.phase \in {"run", "leave"} /\ g.array = f.array + 1
  ELSE f.phase = "wait" /\ g.array = f.array /\ Body[f.sub][f.at].callee = g.sub

Good(small, b, fr, ar, c) ==
  /\ b \in Builds
  /\ fr \in Seq(Frame) /\ Len(fr) <= MaxDepth
  /\ ar \in Seq(ArraySet)
  /\ c \in 0 .. MaxCalls
  /\ fr = <<>> => ar = <<>>
  /\ fr # <<>> =>
       /\ fr[Len(fr)].array = Len(ar)
       /\ fr[Len(fr)].phase # "wait"
       /\ fr[Len(fr)].phase = "push" => Len(fr) < MaxDepth /\ c < MaxCalls
       /\ fr[1].host
  /\ \A n \in 1 .. Len(fr) :
       /\ fr[n].array \in 1 .. Len(ar)
       /\ FrameOK(small, b, fr[n], ar[fr[n].array])
       /\ SlotsOK(b, fr[n], ar[fr[n].array])
  /\ \A n \in 2 .. Len(fr) : Linked(fr[n - 1], fr[n])
  /\ \A n \in 1 .. Len(fr) : \A m \in 1 .. n - 1 :
       /\ fr[m].array <= fr[n].array
       /\ fr[m].phase # "wait" => fr[m].array < fr[n].array

CallsInv(small) == ~overrun /\ Good(small, build, frames, arrays, calls)

-----------------------------------------------------------------------------
(* Values and types.                                                       *)

LEMMA Translate ==
  /\ \A s, i, j : Register(s, i, j) = Reg(build, s, i, j)
  /\ \A s : RegistersOf(s) = Regs(build, s)
  /\ \A f, i : Value(f, i) = Val(build, f, i)
<1>1. \A s, i, j : Register(s, i, j) = Reg(build, s, i, j)
  BY DEF Register, Reg
<1>2. \A s : RegistersOf(s) = Regs(build, s)
  BY <1>1 DEF RegistersOf, Regs
<1>3. \A f, i : Value(f, i) = Val(build, f, i)
  BY <1>1 DEF Value, Val
<1> QED
  BY <1>1, <1>2, <1>3

LEMMA WordsOnFacts ==
  ASSUME NEW D, NEW S \in SUBSET D, NEW f \in [S -> Words3]
  PROVE  f \in WordsOn(D)
BY DEF WordsOn

LEMMA WordFacts ==
  /\ Undef \in Words3 /\ Junk \in Words3
  /\ \A n \in 0 .. MaxDepth : \A i, j \in Nat : Word(n, i, j) \in Words3
BY ProgramAssumption DEF Undef, Junk, Word, Words3

LEMMA RegFacts ==
  ASSUME NEW b, NEW s \in Subs
  PROVE  /\ Regs(b, s) \in SUBSET RegIds
         /\ \A i \in DOMAIN Mys(s) : \A j \in Words(s, i) : Reg(b, s, i, j) \in Regs(b, s)
<1>1. ASSUME NEW i \in DOMAIN Mys(s), NEW j \in Words(s, i) PROVE Reg(b, s, i, j) \in RegIds
  <2>1. VarIds[s][i] \in Nat /\ Width(Mys(s)[i]) \in Nat
    BY VarIdFacts
  <2>2. j \in Nat
    BY <2>1 DEF Words
  <2>3. VarIds[s][i] + j \in Nat
    BY <2>1, <2>2
  <2>4. Bank(Mys(s)[i]) \in Banks
    BY SubFacts, TypeFacts
  <2>5. \A c \in Banks, n \in Nat : Size[c] * n \in Nat
    BY DEF Size, Banks, CTypes
  <2>6. \A c \in Banks : Offsets[s][c] \in Nat
    BY OffsetFacts DEF Offsets
  <2>7. \A c \in Banks, n \in Nat : Offsets[s][c] + Size[c] * n \in Nat
    <3> SUFFICES ASSUME NEW c \in Banks, NEW n \in Nat PROVE Offsets[s][c] + Size[c] * n \in Nat
      OBVIOUS
    <3>1. Offsets[s][c] \in Nat /\ Size[c] * n \in Nat
      BY <2>5, <2>6
    <3> QED
      BY <3>1
  <2>8. \A c \in Banks, n \in Nat : VmRegister(s, c, n) \in RegIds /\ PrecompiledRegister(s, c, n) \in RegIds
    BY <2>7 DEF VmRegister, PrecompiledRegister, RegIds
  <2> QED
    BY <2>3, <2>4, <2>8 DEF Reg
<1>2. \A i \in DOMAIN Mys(s) : \A j \in Words(s, i) : Reg(b, s, i, j) \in Regs(b, s)
  BY DEF Regs
<1>3. Regs(b, s) \in SUBSET RegIds
  BY <1>1 DEF Regs
<1> QED
  BY <1>2, <1>3

LEMMA ReadFacts ==
  ASSUME NEW slots \in ArraySet, NEW n, NEW k
  PROVE  Read(slots, n, k) \in Words3
<1>1. \A m \in DOMAIN slots : slots[m] \in SlotSet
  BY DEF ArraySet
<1>2. \A m \in DOMAIN slots : slots[m].word \in Words3
  BY <1>1 DEF SlotSet
<1> QED
  BY <1>2, WordFacts DEF Read

LEMMA ReadAtType ==
  ASSUME NEW slots \in ArraySet, NEW n \in Nat, NEW t \in Type
  PROVE  ReadAt(slots, n, t) \in [0 .. Width(t) - 1 -> Words3] /\ ReadAt(slots, n, t) \in WordsOn(Nat)
<1>1. ReadAt(slots, n, t) \in [0 .. Width(t) - 1 -> Words3]
  BY ReadFacts DEF ReadAt
<1>2. 0 .. Width(t) - 1 \in SUBSET Nat
  BY TypeFacts
<1> QED
  BY <1>1, <1>2, WordsOnFacts

LEMMA ValFacts ==
  ASSUME NEW b, NEW f, f.sub \in Subs, f.regs \in [Regs(b, f.sub) -> Words3], NEW i \in DOMAIN Mys(f.sub)
  PROVE  /\ Val(b, f, i) \in [0 .. Width(Mys(f.sub)[i]) - 1 -> Words3]
         /\ \A j \in 0 .. Width(Mys(f.sub)[i]) - 1 : Val(b, f, i)[j] = f.regs[Reg(b, f.sub, i, j)]
         /\ Val(b, f, i) \in WordsOn(Nat)
<1>1. \A j \in Words(f.sub, i) : f.regs[Reg(b, f.sub, i, j)] \in Words3
  BY RegFacts
<1>2. Val(b, f, i) \in [0 .. Width(Mys(f.sub)[i]) - 1 -> Words3]
  BY <1>1 DEF Val, Words
<1>3. 0 .. Width(Mys(f.sub)[i]) - 1 \in SUBSET Nat
  BY SubFacts, TypeFacts
<1> QED
  BY <1>2, <1>3, WordsOnFacts DEF Val, Words

LEMMA StatementFacts ==
  ASSUME NEW s \in Subs, NEW k \in DOMAIN Body[s]
  PROVE  /\ Body[s][k].op \in {"call", "return"} /\ k \in Nat
         /\ Body[s][k].callee \in Subs /\ Body[s][k].args \in Seq(Nat) /\ Body[s][k].out \in Nat
         /\ Body[s][k].method \in BOOLEAN /\ Body[s][k].catch \in BOOLEAN
         /\ Body[s][k].op = "call" => CallAgrees(s, Body[s][k])
         /\ Body[s][k].op = "return" => ReturnAgrees(s, Body[s][k])
<1> DEFINE St == [op : {"call", "return"}, callee : Subs, args : Seq(Nat), out : Nat,
                  method : BOOLEAN, catch : BOOLEAN]
<1>1. Body[s] \in Seq(St)
  BY ProgramAssumption
<1>2. Body[s][k] \in St /\ k \in Nat
  <2> HIDE DEF St
  <2> QED
    BY <1>1
<1>3. IF Body[s][k].op = "call" THEN CallAgrees(s, Body[s][k]) ELSE ReturnAgrees(s, Body[s][k])
  BY ProgramAssumption
<1> QED
  BY <1>2, <1>3

LEMMA FirstStatement ==
  ASSUME NEW s \in Subs PROVE 1 \in DOMAIN Body[s]
<1>1. \A S : \A q \in Seq(S) : q # <<>> => 1 \in DOMAIN q
  OBVIOUS
<1> QED
  BY <1>1, ProgramAssumption

LEMMA CallFacts ==
  ASSUME NEW s \in Subs, NEW k \in DOMAIN Body[s], Body[s][k].op = "call"
  PROVE  LET st == Body[s][k] IN
         /\ st.callee \in Subs /\ st.args \in Seq(Nat) /\ Len(st.args) = Len(Args[st.callee])
         /\ DOMAIN st.args = 1 .. Len(Args[st.callee])
         /\ \A i \in 1 .. Len(Args[st.callee]) : Agrees(s, st.args[i], Args[st.callee][i])
         /\ st.out # 0 => /\ Returned[st.callee].form # "void" /\ st.out \in DOMAIN Mys(s)
                          /\ Bank(Mys(s)[st.out]) = Bank(Returned[st.callee])
                          /\ Width(Mys(s)[st.out]) = Width(Returned[st.callee])
<1> DEFINE st == Body[s][k]
<1>1. CallAgrees(s, st) /\ st.callee \in Subs /\ st.args \in Seq(Nat)
  BY StatementFacts
<1> HIDE DEF st
<1>2. /\ Len(st.args) = Len(Args[st.callee]) /\ \A i \in DOMAIN st.args : Agrees(s, st.args[i], Args[st.callee][i])
      /\ st.out # 0 => Returned[st.callee].form # "void" /\ Agrees(s, st.out, Returned[st.callee])
  BY <1>1 DEF CallAgrees
<1>3. DOMAIN st.args = 1 .. Len(st.args)
  BY <1>1
<1>4. \A t : Agrees(s, st.out, t) /\ st.out # 0 =>
        st.out \in DOMAIN Mys(s) /\ Bank(Mys(s)[st.out]) = Bank(t) /\ Width(Mys(s)[st.out]) = Width(t)
  BY DEF Agrees
<1> QED
  BY <1>1, <1>2, <1>3, <1>4 DEF st

LEMMA PickedFacts ==
  ASSUME NEW b, NEW f, f.sub \in Subs, f.regs \in [Regs(b, f.sub) -> Words3],
         NEW my, NEW t \in Type, Agrees(f.sub, my, t)
  PROVE  /\ Picked(b, f, my) \in [0 .. Width(t) - 1 -> Words3] /\ Picked(b, f, my) \in WordsOn(Nat)
         /\ my = 0 => \A j \in 0 .. Width(t) - 1 : Picked(b, f, my)[j] = Undef
         /\ my # 0 => Picked(b, f, my) = Val(b, f, my)
<1>1. Picked(b, f, my) = IF my = 0 THEN [j \in {0} |-> Undef] ELSE Val(b, f, my)
  BY DEF Picked
<1>2. CASE my = 0
  <2>1. Width(t) = 1
    BY <1>2 DEF Agrees, Width
  <2>2. 0 .. Width(t) - 1 = {0}
    BY <2>1
  <2>3. Picked(b, f, my) \in [0 .. Width(t) - 1 -> Words3] /\ 0 .. Width(t) - 1 \in SUBSET Nat
    BY <1>1, <1>2, <2>2, WordFacts
  <2>4. \A j \in 0 .. Width(t) - 1 : Picked(b, f, my)[j] = Undef
    BY <1>1, <1>2, <2>2
  <2> QED
    BY <1>2, <2>3, <2>4, WordsOnFacts
<1>3. CASE my # 0
  <2>1. my \in DOMAIN Mys(f.sub) /\ Width(Mys(f.sub)[my]) = Width(t)
    BY <1>3 DEF Agrees
  <2>2. Picked(b, f, my) = Val(b, f, my)
    BY <1>1, <1>3
  <2>3. Val(b, f, my) \in [0 .. Width(t) - 1 -> Words3] /\ Val(b, f, my) \in WordsOn(Nat)
    BY <2>1, ValFacts
  <2> QED
    BY <1>3, <2>2, <2>3
<1> QED
  BY <1>2, <1>3

LEMMA PassedFacts ==
  ASSUME NEW b, NEW f, f.sub \in Subs, f.regs \in [Regs(b, f.sub) -> Words3],
         f.at \in DOMAIN Body[f.sub], Body[f.sub][f.at].op = "call",
         NEW i \in 1 .. Len(Args[Body[f.sub][f.at].callee])
  PROVE  /\ Passed(b, f, i) \in [0 .. Width(Args[Body[f.sub][f.at].callee][i]) - 1 -> Words3]
         /\ Passed(b, f, i) \in WordsOn(Nat)
<1> DEFINE st == Body[f.sub][f.at]
           t == Args[st.callee][i]
<1>1. Agrees(f.sub, st.args[i], t) /\ t \in Type
  BY CallFacts, SubFacts
<1> HIDE DEF t
<1> QED
  BY <1>1, PickedFacts DEF Passed, t

LEMMA RoomFacts ==
  ASSUME NEW small \in SUBSET Subs, Supports(small), NEW s \in Subs, NEW slots, HasRoom(small, s, slots)
  PROVE  /\ 0 .. AllocLength(Args[s]) - 1 \subseteq DOMAIN slots
         /\ Returned[s].form # "void" => 0 .. Width(Returned[s]) - 1 \subseteq DOMAIN slots
         /\ \A k \in DOMAIN Body[s] : Body[s][k].op = "call" => HasRoom(small, Body[s][k].callee, slots)
<1>1. AllocLength(Args[s]) \in Nat /\ Width(Returned[s]) \in Nat /\ StackSize \in Nat
  BY SlotFacts, SubFacts, TypeFacts, ProgramAssumption
<1>2. FitsIn(s, StackSize) /\ (s \in small => FitsIn(s, 1))
  BY DEF Supports
<1>3. CASE DOMAIN slots = 0 .. StackSize - 1
  <2>1. AllocLength(Args[s]) <= StackSize /\ (Returned[s].form # "void" => Width(Returned[s]) <= StackSize)
    BY <1>2 DEF FitsIn
  <2> QED
    BY <1>1, <1>3, <2>1 DEF HasRoom
<1>4. CASE DOMAIN slots = 0 .. 0 /\ s \in small
  <2>1. AllocLength(Args[s]) <= 1 /\ (Returned[s].form # "void" => Width(Returned[s]) <= 1)
    BY <1>2, <1>4 DEF FitsIn
  <2>2. \A k \in DOMAIN Body[s] : Body[s][k].op = "call" => Body[s][k].callee \in small
    BY <1>4 DEF Supports
  <2> QED
    BY <1>1, <1>4, <2>1, <2>2 DEF HasRoom
<1> QED
  BY <1>3, <1>4 DEF HasRoom

-----------------------------------------------------------------------------
(* The elementary changes of the stack of activations.                     *)

(* The activation on top takes a step of its own, and its slots change.    *)
LEMMA TopSteps ==
  ASSUME NEW small, NEW b, NEW fr, NEW ar, NEW c, Good(small, b, fr, ar, c), fr # <<>>,
         NEW fr2 \in Seq(Frame), Len(fr2) = Len(fr), \A m \in 1 .. Len(fr) - 1 : fr2[m] = fr[m],
         NEW g, fr2[Len(fr)] = g,
         g.sub = fr[Len(fr)].sub, g.array = fr[Len(fr)].array, g.host = fr[Len(fr)].host,
         g.phase \in {"run", "push", "leave"}, g.phase = "push" => Len(fr) < MaxDepth /\ c < MaxCalls,
         NEW ar2 \in Seq(ArraySet), Len(ar2) = Len(ar),
         DOMAIN ar2[Len(ar)] = DOMAIN ar[Len(ar)], \A a \in 1 .. Len(ar) - 1 : ar2[a] = ar[a],
         FrameOK(small, b, g, ar2[Len(ar)]), SlotsOK(b, g, ar2[Len(ar)])
  PROVE  Good(small, b, fr2, ar2, c)
<1> DEFINE n == Len(fr)
<1>1. /\ fr \in Seq(Frame) /\ n \in Nat /\ n >= 1 /\ n <= MaxDepth /\ b \in Builds /\ c \in 0 .. MaxCalls
      /\ fr[n].array = Len(ar) /\ fr[n].phase # "wait" /\ fr[1].host /\ Len(ar) \in Nat
  BY DEF Good
<1>2. \A m \in 1 .. n : /\ fr[m].array \in 1 .. Len(ar) /\ FrameOK(small, b, fr[m], ar[fr[m].array])
                        /\ SlotsOK(b, fr[m], ar[fr[m].array])
  BY DEF Good
<1>3. \A m \in 2 .. n : Linked(fr[m - 1], fr[m])
  BY DEF Good
<1>4. \A k \in 1 .. n : \A m \in 1 .. k - 1 :
        fr[m].array <= fr[k].array /\ (fr[m].phase # "wait" => fr[m].array < fr[k].array)
  BY DEF Good
<1> HIDE DEF n
<1>5. \A m \in 1 .. n : m # n => m \in 1 .. n - 1
  BY <1>1
<1>6. \A m \in 1 .. n : fr2[m].array = fr[m].array /\ fr2[m].host = fr[m].host /\ fr2[m].sub = fr[m].sub
  BY <1>5 DEF n
<1>7. ASSUME NEW m \in 1 .. n
      PROVE  /\ fr2[m].array \in 1 .. Len(ar2) /\ FrameOK(small, b, fr2[m], ar2[fr2[m].array])
             /\ SlotsOK(b, fr2[m], ar2[fr2[m].array])
  <2>1. CASE m = n
    BY <1>1, <1>2, <1>6, <2>1 DEF n
  <2>2. CASE m # n
    <3>1. m \in 1 .. n - 1 /\ fr2[m] = fr[m]
      BY <1>5, <2>2 DEF n
    <3>0. fr[m].array \in 1 .. Len(ar)
      BY <1>2
    <3>2. DOMAIN ar2[fr[m].array] = DOMAIN ar[fr[m].array]
      <4>1. fr[m].array = Len(ar) \/ fr[m].array \in 1 .. Len(ar) - 1
        BY <1>1, <3>0
      <4> QED
        BY <4>1
    <3>3. FrameOK(small, b, fr[m], ar2[fr[m].array])
      BY <1>2, <3>2 DEF FrameOK, HasRoom
    <3>4. SlotsOK(b, fr[m], ar2[fr[m].array])
      <4>1. CASE fr[m].phase = "wait"
        BY <4>1 DEF SlotsOK
      <4>2. CASE fr[m].phase # "wait"
        <5>1. fr[m].array < fr[n].array
          BY <1>1, <1>4, <3>1, <4>2
        <5>2. fr[m].array \in 1 .. Len(ar) - 1
          BY <1>1, <3>0, <5>1
        <5> QED
          BY <1>2, <5>2
      <4> QED
        BY <4>1, <4>2
    <3> QED
      BY <3>0, <3>1, <3>3, <3>4
  <2> QED
    BY <2>1, <2>2
<1>8. ASSUME NEW m \in 2 .. n PROVE Linked(fr2[m - 1], fr2[m])
  <2>1. m \in 1 .. n /\ m - 1 \in 1 .. n - 1 /\ fr2[m - 1] = fr[m - 1]
    BY <1>1 DEF n
  <2> QED
    BY <1>3, <1>6, <2>1 DEF Linked
<1>9. ASSUME NEW k \in 1 .. n, NEW m \in 1 .. k - 1
      PROVE  fr2[m].array <= fr2[k].array /\ (fr2[m].phase # "wait" => fr2[m].array < fr2[k].array)
  <2>1. m \in 1 .. n - 1 /\ m \in 1 .. n /\ fr2[m] = fr[m]
    BY <1>1 DEF n
  <2> QED
    BY <1>4, <1>6, <2>1
<1>10. fr2 # <<>> /\ fr2[1].host /\ fr2[n].array = Len(ar2) /\ fr2[n].phase # "wait" /\ Len(fr2) = n
  <2>1. 1 \in 1 .. n /\ n \in 1 .. n
    BY <1>1
  <2> QED
    BY <1>1, <1>6, <2>1 DEF n
<1>11. fr2[n].phase = "push" => n < MaxDepth /\ c < MaxCalls
  BY DEF n
<1> QED
  BY <1>1, <1>7, <1>8, <1>9, <1>10, <1>11 DEF Good

(* The activation on top, if there is one, goes below a new one: h is what *)
(* it has become, e the new one.                                           *)
LEMMA FramePushed ==
  ASSUME NEW small, NEW b, NEW fr, NEW ar, NEW c, Good(small, b, fr, ar, c), Len(fr) < MaxDepth,
         NEW fr2 \in Seq(Frame), Len(fr2) = Len(fr) + 1, \A m \in 1 .. Len(fr) - 1 : fr2[m] = fr[m],
         NEW e, fr2[Len(fr) + 1] = e, e.phase = "enter",
         NEW ar2 \in Seq(ArraySet), e.array = Len(ar2), e.array \in 1 .. Len(ar2), Len(ar) <= Len(ar2),
         \A a \in 1 .. Len(ar) : ar2[a] = ar[a],
         FrameOK(small, b, e, ar2[e.array]), SlotsOK(b, e, ar2[e.array]),
         NEW c2 \in 0 .. MaxCalls, b \in Builds,
         Len(fr) = 0 => e.host,
         Len(fr) # 0 => /\ fr2[Len(fr)].sub = fr[Len(fr)].sub /\ fr2[Len(fr)].array = fr[Len(fr)].array
                      /\ fr2[Len(fr)].host = fr[Len(fr)].host /\ Linked(fr2[Len(fr)], e)
                      /\ FrameOK(small, b, fr2[Len(fr)], ar[fr[Len(fr)].array])
                      /\ SlotsOK(b, fr2[Len(fr)], ar[fr[Len(fr)].array])
  PROVE  Good(small, b, fr2, ar2, c2)
<1> DEFINE n == Len(fr)
<1>1. /\ fr \in Seq(Frame) /\ n \in Nat /\ Len(ar) \in Nat /\ Len(ar2) \in Nat /\ MaxDepth \in Nat
      /\ n # 0 => fr # <<>> /\ fr[n].array = Len(ar) /\ fr[1].host
      /\ n = 0 => fr = <<>>
  BY ProgramAssumption DEF Good
<1>2. \A m \in 1 .. n : /\ fr[m].array \in 1 .. Len(ar) /\ FrameOK(small, b, fr[m], ar[fr[m].array])
                        /\ SlotsOK(b, fr[m], ar[fr[m].array])
  BY DEF Good
<1>3. \A m \in 2 .. n : Linked(fr[m - 1], fr[m])
  BY DEF Good
<1>4. \A k \in 1 .. n : \A m \in 1 .. k - 1 :
        fr[m].array <= fr[k].array /\ (fr[m].phase # "wait" => fr[m].array < fr[k].array)
  BY DEF Good
<1> HIDE DEF n
<1>5. \A m \in 1 .. n : m # n => m \in 1 .. n - 1
  BY <1>1
<1>6. \A m \in 1 .. n : fr2[m].array = fr[m].array /\ fr2[m].host = fr[m].host /\ fr2[m].sub = fr[m].sub
  BY <1>1, <1>5 DEF n
<1>7. ASSUME NEW m \in 1 .. n
      PROVE  /\ fr2[m].array \in 1 .. Len(ar) /\ fr2[m].array \in 1 .. Len(ar2)
             /\ ar2[fr2[m].array] = ar[fr2[m].array]
             /\ FrameOK(small, b, fr2[m], ar2[fr2[m].array])
             /\ SlotsOK(b, fr2[m], ar2[fr2[m].array])
  <2>1. /\ fr2[m].array \in 1 .. Len(ar) /\ fr2[m].array \in 1 .. Len(ar2)
        /\ ar2[fr2[m].array] = ar[fr2[m].array]
    <3>1. fr2[m].array \in 1 .. Len(ar)
      BY <1>2, <1>6
    <3>2. \A a \in 1 .. Len(ar) : a \in 1 .. Len(ar2)
      BY <1>1
    <3> QED
      BY <3>1, <3>2
  <2>2. CASE m = n
    BY <1>1, <1>6, <2>1, <2>2 DEF n
  <2>3. CASE m # n
    <3>1. fr2[m] = fr[m]
      BY <1>5, <2>3 DEF n
    <3> QED
      BY <1>2, <2>1, <3>1
  <2> QED
    BY <2>1, <2>2, <2>3
<1>8. ASSUME NEW m \in 2 .. n + 1 PROVE Linked(fr2[m - 1], fr2[m])
  <2>1. CASE m = n + 1
    BY <1>1, <2>1 DEF n
  <2>2. CASE m # n + 1
    <3>0. m \in 1 .. n /\ m \in 2 .. n /\ m - 1 \in 1 .. n - 1
      BY <1>1, <2>2
    <3>1. fr2[m - 1] = fr[m - 1]
      BY <3>0 DEF n
    <3> QED
      BY <1>3, <1>6, <3>0, <3>1 DEF Linked
  <2> QED
    BY <2>1, <2>2
<1>9. ASSUME NEW k \in 1 .. n + 1, NEW m \in 1 .. k - 1
      PROVE  fr2[m].array <= fr2[k].array /\ (fr2[m].phase # "wait" => fr2[m].array < fr2[k].array)
  <2>0. m \in 1 .. n
    BY <1>1
  <2>1. CASE k # n + 1
    <3>0. k \in 1 .. n /\ m \in 1 .. n - 1 /\ m \in 1 .. n
      BY <1>1, <2>1
    <3>1. fr2[m] = fr[m]
      BY <3>0 DEF n
    <3> QED
      BY <1>4, <1>6, <3>0, <3>1
  <2>2. CASE k = n + 1
    <3>1. fr2[k] = e /\ e.array = Len(ar2) /\ fr2[m].array \in 1 .. Len(ar)
      BY <1>7, <2>0, <2>2 DEF n
    <3>2. fr2[m].array <= fr2[k].array
      BY <1>1, <3>1
    <3>3. CASE m = n
      <4>1. Linked(fr2[n], e) /\ e.array \in Nat
        BY <1>1, <3>3, <2>0 DEF n
      <4> QED
        BY <1>1, <3>1, <3>2, <3>3, <4>1 DEF Linked
    <3>4. CASE m # n
      <4>1. m \in 1 .. n - 1 /\ fr2[m] = fr[m] /\ n \in 1 .. n
        BY <1>1, <2>0, <3>4 DEF n
      <4>2. fr[m].phase # "wait" => fr[m].array < fr[n].array
        BY <1>4, <4>1
      <4>3. fr[n].array \in 1 .. Len(ar)
        BY <1>2, <4>1
      <4> QED
        BY <1>1, <3>1, <3>2, <4>1, <4>2, <4>3
    <3> QED
      BY <3>3, <3>4
  <2> QED
    BY <2>1, <2>2
<1>10. fr2 # <<>> /\ Len(fr2) = n + 1 /\ fr2[n + 1] = e /\ n + 1 <= MaxDepth
  BY <1>1 DEF n
<1>11. fr2[1].host
  <2>1. CASE n = 0
    BY <1>1, <1>10, <2>1
  <2>2. CASE n # 0
    <3>1. 1 \in 1 .. n
      BY <1>1, <2>2
    <3> QED
      BY <1>1, <1>6, <2>2, <3>1
  <2> QED
    BY <2>1, <2>2
<1>12. \A m \in 1 .. n + 1 : /\ fr2[m].array \in 1 .. Len(ar2) /\ FrameOK(small, b, fr2[m], ar2[fr2[m].array])
                            /\ SlotsOK(b, fr2[m], ar2[fr2[m].array])
  <2> SUFFICES ASSUME NEW m \in 1 .. n + 1
               PROVE  /\ fr2[m].array \in 1 .. Len(ar2) /\ FrameOK(small, b, fr2[m], ar2[fr2[m].array])
                      /\ SlotsOK(b, fr2[m], ar2[fr2[m].array])
    OBVIOUS
  <2>1. m = n + 1 \/ m \in 1 .. n
    BY <1>1
  <2> QED
    BY <1>7, <1>10, <2>1
<1> QED
  BY <1>8, <1>9, <1>10, <1>11, <1>12 DEF Good

LEMMA EmptyFacts ==
  \A S : \A q \in Seq(S) : Len(q) = 0 => q = <<>>
OBVIOUS

(* The activation on top ends: the one below it goes on, and the arrays    *)
(* allocated after its own are gone.                                       *)
LEMMA FramePopped ==
  ASSUME NEW small, NEW b, NEW fr, NEW ar, NEW c, Good(small, b, fr, ar, c), fr # <<>>,
         NEW fr2 \in Seq(Frame), Len(fr2) = Len(fr) - 1, \A m \in 1 .. Len(fr) - 2 : fr2[m] = fr[m],
         NEW ar2 \in Seq(ArraySet), Len(ar2) = (IF Len(fr) = 1 THEN 0 ELSE fr[Len(fr) - 1].array),
         \A a \in 1 .. Len(ar2) : ar2[a] = ar[a],
         Len(fr) # 1 =>
           /\ fr2[Len(fr) - 1].sub = fr[Len(fr) - 1].sub /\ fr2[Len(fr) - 1].array = fr[Len(fr) - 1].array
           /\ fr2[Len(fr) - 1].host = fr[Len(fr) - 1].host /\ fr2[Len(fr) - 1].phase \in {"run", "leave"}
           /\ FrameOK(small, b, fr2[Len(fr) - 1], ar[fr[Len(fr) - 1].array])
           /\ SlotsOK(b, fr2[Len(fr) - 1], ar[fr[Len(fr) - 1].array])
  PROVE  Good(small, b, fr2, ar2, c)
<1> DEFINE n == Len(fr)
<1>1. /\ fr \in Seq(Frame) /\ n \in Nat /\ n >= 1 /\ n <= MaxDepth /\ b \in Builds /\ c \in 0 .. MaxCalls
      /\ fr[1].host /\ Len(ar) \in Nat /\ Len(ar2) \in Nat /\ MaxDepth \in Nat
  BY ProgramAssumption DEF Good
<1>2. \A m \in 1 .. n : /\ fr[m].array \in 1 .. Len(ar) /\ FrameOK(small, b, fr[m], ar[fr[m].array])
                        /\ SlotsOK(b, fr[m], ar[fr[m].array])
  BY DEF Good
<1>3. \A m \in 2 .. n : Linked(fr[m - 1], fr[m])
  BY DEF Good
<1>4. \A k \in 1 .. n : \A m \in 1 .. k - 1 :
        fr[m].array <= fr[k].array /\ (fr[m].phase # "wait" => fr[m].array < fr[k].array)
  BY DEF Good
<1> HIDE DEF n
<1>5. CASE n = 1
  <2>1. Len(fr2) = 0 /\ Len(ar2) = 0
    BY <1>5 DEF n
  <2>2. fr2 = <<>>
    BY <2>1, EmptyFacts
  <2>4. ar2 = <<>>
    BY <2>1, EmptyFacts
  <2>3. /\ \A m : m \notin 1 .. Len(fr2) /\ m \notin 2 .. Len(fr2)
        /\ Len(fr2) <= MaxDepth
    <3>1. \A m : m \notin 1 .. 0 /\ m \notin 2 .. 0
      OBVIOUS
    <3>2. 0 <= MaxDepth
      BY <1>1
    <3> QED
      BY <2>1, <3>1, <3>2
  <2> QED
    BY <1>1, <2>2, <2>3, <2>4 DEF Good
<1>6. CASE n # 1
  <2> DEFINE l == n - 1
  <2>1. l \in Nat /\ l >= 1 /\ l <= MaxDepth /\ l \in 1 .. n /\ n - 2 = l - 1 /\ n = l + 1
    BY <1>1, <1>6
  <2>2. Len(fr2) = l /\ Len(ar2) = fr[l].array /\ \A m \in 1 .. l - 1 : fr2[m] = fr[m]
    BY <1>6, <2>1 DEF n
  <2>3. /\ fr2[l].sub = fr[l].sub /\ fr2[l].array = fr[l].array /\ fr2[l].host = fr[l].host
        /\ fr2[l].phase \in {"run", "leave"}
        /\ FrameOK(small, b, fr2[l], ar[fr[l].array]) /\ SlotsOK(b, fr2[l], ar[fr[l].array])
    BY <1>6 DEF n
  <2> HIDE DEF l
  <2>4. \A m \in 1 .. l : m # l => m \in 1 .. l - 1
    BY <2>1
  <2>5. \A m \in 1 .. l : m \in 1 .. n
    BY <2>1
  <2>6. \A m \in 1 .. l : fr2[m].array = fr[m].array /\ fr2[m].host = fr[m].host /\ fr2[m].sub = fr[m].sub
    BY <2>2, <2>3, <2>4
  <2>7. ASSUME NEW m \in 1 .. l
        PROVE  /\ fr2[m].array \in 1 .. Len(ar2) /\ FrameOK(small, b, fr2[m], ar2[fr2[m].array])
               /\ SlotsOK(b, fr2[m], ar2[fr2[m].array])
    <3>1. fr[m].array \in 1 .. Len(ar)
      BY <1>2, <2>5
    <3>2. fr[m].array <= fr[l].array
      <4>1. CASE m = l
        BY <3>1, <4>1
      <4>2. CASE m # l
        BY <1>4, <2>1, <2>4, <4>2
      <4> QED
        BY <4>1, <4>2
    <3>3. fr[m].array \in 1 .. Len(ar2)
      BY <1>1, <2>2, <3>1, <3>2
    <3>4. ar2[fr2[m].array] = ar[fr[m].array] /\ fr2[m].array \in 1 .. Len(ar2)
      BY <2>6, <3>3
    <3>5. CASE m = l
      BY <2>3, <3>4, <3>5
    <3>6. CASE m # l
      <4>1. fr2[m] = fr[m]
        BY <2>2, <2>4, <3>6
      <4> QED
        BY <1>2, <2>5, <3>4, <4>1
    <3> QED
      BY <3>5, <3>6
  <2>8. ASSUME NEW m \in 2 .. l PROVE Linked(fr2[m - 1], fr2[m])
    <3>1. m \in 1 .. l /\ m - 1 \in 1 .. l - 1 /\ m \in 2 .. n
      BY <2>1
    <3>2. fr2[m - 1] = fr[m - 1]
      BY <2>2, <3>1
    <3> QED
      BY <1>3, <2>6, <3>1, <3>2 DEF Linked
  <2>9. ASSUME NEW k \in 1 .. l, NEW m \in 1 .. k - 1
        PROVE  fr2[m].array <= fr2[k].array /\ (fr2[m].phase # "wait" => fr2[m].array < fr2[k].array)
    <3>1. m \in 1 .. l - 1 /\ m \in 1 .. l /\ k \in 1 .. n
      BY <2>1
    <3>2. fr2[m] = fr[m]
      BY <2>2, <3>1
    <3> QED
      BY <1>4, <2>6, <3>1, <3>2
  <2>10. fr2 # <<>> /\ fr2[1].host /\ fr2[l].array = Len(ar2) /\ fr2[l].phase # "wait" /\ fr2[l].phase # "push"
    <3>1. 1 \in 1 .. l /\ l # 0
      BY <2>1
    <3>2. fr2 # <<>>
      BY <2>2, <3>1
    <3> QED
      BY <1>1, <2>2, <2>3, <2>6, <3>1, <3>2
  <2> QED
    BY <1>1, <2>1, <2>2, <2>7, <2>8, <2>9, <2>10 DEF Good
<1> QED
  BY <1>5, <1>6

-----------------------------------------------------------------------------
(* The state and the steps.                                                *)

LEMMA PutFacts ==
  ASSUME NEW S, NEW q \in Seq(S), NEW n \in 1 .. Len(q), NEW g \in S
  PROVE  /\ [q EXCEPT ![n] = g] \in Seq(S) /\ Len([q EXCEPT ![n] = g]) = Len(q)
         /\ [q EXCEPT ![n] = g][n] = g
         /\ \A m \in 1 .. Len(q) : m # n => [q EXCEPT ![n] = g][m] = q[m]
OBVIOUS

LEMMA AppendFacts ==
  ASSUME NEW S, NEW q \in Seq(S), NEW e \in S
  PROVE  /\ Append(q, e) \in Seq(S) /\ Len(Append(q, e)) = Len(q) + 1
         /\ Append(q, e)[Len(q) + 1] = e
         /\ \A m \in 1 .. Len(q) : Append(q, e)[m] = q[m]
OBVIOUS

LEMMA TopFacts ==
  ASSUME NEW small, CallsInv(small), frames # <<>>
  PROVE  /\ frames \in Seq(Frame) /\ arrays \in Seq(ArraySet) /\ Depth \in 1 .. Len(frames)
         /\ Depth \in Nat /\ Depth >= 1 /\ Depth <= MaxDepth /\ Depth \in 0 .. MaxDepth
         /\ Depth = Len(frames) /\ Top = frames[Len(frames)]
         /\ Top \in Frame /\ Top.array = Len(arrays) /\ Top.array \in 1 .. Len(arrays)
         /\ Slots(Top) = arrays[Top.array] /\ Slots(Top) \in ArraySet
         /\ FrameOK(small, build, Top, Slots(Top)) /\ SlotsOK(build, Top, Slots(Top))
<1>1. /\ frames \in Seq(Frame) /\ arrays \in Seq(ArraySet) /\ Len(frames) <= MaxDepth
      /\ frames[Len(frames)].array = Len(arrays)
  BY DEF CallsInv, Good
<1>2. Len(frames) \in Nat /\ Len(frames) >= 1 /\ Len(frames) \in 1 .. Len(frames)
  <2>1. \A S : \A q \in Seq(S) : q # <<>> => Len(q) \in Nat /\ Len(q) >= 1 /\ Len(q) \in 1 .. Len(q)
    OBVIOUS
  <2> QED
    BY <1>1, <2>1
<1>3. MaxDepth \in Nat
  BY ProgramAssumption
<1>4. \A n \in 1 .. Len(frames) :
        /\ frames[n].array \in 1 .. Len(arrays)
        /\ FrameOK(small, build, frames[n], arrays[frames[n].array])
        /\ SlotsOK(build, frames[n], arrays[frames[n].array])
  BY DEF CallsInv, Good
<1>5. Depth = Len(frames) /\ Top = frames[Len(frames)] /\ Slots(Top) = arrays[Top.array]
  BY DEF Depth, Top, Slots
<1>6. Top \in Frame
  BY <1>1, <1>2, <1>5
<1>7. Top.array \in 1 .. Len(arrays)
  BY <1>2, <1>4, <1>5
<1>8. arrays[Top.array] \in ArraySet
  BY <1>1, <1>7
<1>9. Len(frames) \in 0 .. MaxDepth
  BY <1>1, <1>2, <1>3
<1> QED
  BY <1>1, <1>2, <1>4, <1>5, <1>6, <1>7, <1>8, <1>9

LEMMA FrameFacts ==
  ASSUME NEW f \in Frame
  PROVE  /\ f.sub \in Subs /\ f.at \in Nat /\ f.arg \in Nat /\ f.top \in Int /\ f.phase \in Phases
         /\ f.array \in Nat /\ f.regs \in WordsOn(RegIds) /\ f.exc \in BOOLEAN /\ f.host \in BOOLEAN
         /\ f.given \in Seq(WordsOn(Nat)) /\ f.result \in WordsOn(Nat)
BY DEF Frame

LEMMA WithTopFacts ==
  ASSUME NEW small, CallsInv(small), frames # <<>>, NEW g \in Frame
  PROVE  /\ WithTop(g) \in Seq(Frame) /\ Len(WithTop(g)) = Len(frames)
         /\ WithTop(g)[Len(frames)] = g
         /\ \A m \in 1 .. Len(frames) - 1 : WithTop(g)[m] = frames[m]
<1>1. frames \in Seq(Frame) /\ Len(frames) \in 1 .. Len(frames) /\ Depth = Len(frames) /\ Len(frames) \in Nat
  BY TopFacts
<1>2. WithTop(g) = [frames EXCEPT ![Len(frames)] = g]
  BY <1>1 DEF WithTop
<1>3. \A m \in 1 .. Len(frames) - 1 : m \in 1 .. Len(frames) /\ m # Len(frames)
  BY <1>1
<1> QED
  BY <1>1, <1>2, <1>3, PutFacts

(* What the activation on top may do without a change of the slots.        *)
LEMMA TopChanges ==
  ASSUME NEW small, CallsInv(small), frames # <<>>, NEW g \in Frame,
         g.sub = Top.sub, g.array = Top.array, g.host = Top.host, g.phase \in {"run", "push", "leave"},
         g.phase = "push" => Depth < MaxDepth /\ calls < MaxCalls,
         FrameOK(small, build, g, Slots(Top)), SlotsOK(build, g, Slots(Top)),
         frames' = WithTop(g), UNCHANGED <<build, arrays, overrun, calls>>
  PROVE  CallsInv(small)'
<1>1. /\ Good(small, build, frames, arrays, calls) /\ ~overrun
      /\ WithTop(g) \in Seq(Frame) /\ Len(WithTop(g)) = Len(frames)
      /\ WithTop(g)[Len(frames)] = g
      /\ \A m \in 1 .. Len(frames) - 1 : WithTop(g)[m] = frames[m]
  BY WithTopFacts DEF CallsInv
<1>2. /\ Depth = Len(frames) /\ Top = frames[Len(frames)] /\ arrays \in Seq(ArraySet)
      /\ Slots(Top) = arrays[Len(arrays)]
  BY TopFacts
<1>3. Good(small, build, WithTop(g), arrays, calls)
  BY <1>1, <1>2, TopSteps
<1> QED
  BY <1>1, <1>3 DEF CallsInv

(* Words written to slots that are there.                                  *)
LEMMA WriteFacts ==
  ASSUME NEW slots \in ArraySet, NEW D, D \subseteq DOMAIN slots, NEW ws \in [D -> SlotSet]
  PROVE  /\ Write(slots, ws) \in ArraySet /\ DOMAIN Write(slots, ws) = DOMAIN slots
         /\ \A n \in D : Write(slots, ws)[n] = ws[n]
         /\ \A n \in DOMAIN slots : n \notin D => Write(slots, ws)[n] = slots[n]
         /\ ~Beyond(slots, ws)
<1>1. DOMAIN ws = D
  OBVIOUS
<1>2. \A n \in DOMAIN slots : slots[n] \in SlotSet
  BY DEF ArraySet
<1>3. \A n \in DOMAIN slots : (IF n \in D THEN ws[n] ELSE slots[n]) \in SlotSet
  BY <1>2
<1>4. Write(slots, ws) = [n \in DOMAIN slots |-> IF n \in D THEN ws[n] ELSE slots[n]]
  BY <1>1 DEF Write
<1>5. Write(slots, ws) \in [DOMAIN slots -> SlotSet]
  BY <1>3, <1>4
<1>6. DOMAIN slots = 0 .. StackSize - 1 \/ DOMAIN slots = 0 .. 0
  BY DEF ArraySet
<1>7. Write(slots, ws) \in ArraySet
  BY <1>5, <1>6 DEF ArraySet
<1>8. ~Beyond(slots, ws)
  BY <1>1 DEF Beyond
<1> QED
  BY <1>4, <1>7, <1>8

(* ... and when they change.                                               *)
LEMMA TopStores ==
  ASSUME NEW small, CallsInv(small), frames # <<>>, NEW g \in Frame,
         g.sub = Top.sub, g.array = Top.array, g.host = Top.host, g.phase \in {"run", "push", "leave"},
         g.phase = "push" => Depth < MaxDepth /\ calls < MaxCalls,
         NEW w \in ArraySet, DOMAIN w = DOMAIN Slots(Top),
         FrameOK(small, build, g, w), SlotsOK(build, g, w)
  PROVE  Good(small, build, WithTop(g), [arrays EXCEPT ![Top.array] = w], calls)
<1> DEFINE ar2 == [arrays EXCEPT ![Top.array] = w]
           fr2 == WithTop(g)
<1>1. /\ Good(small, build, frames, arrays, calls)
      /\ fr2 \in Seq(Frame) /\ Len(fr2) = Len(frames) /\ fr2[Len(frames)] = g
      /\ \A m \in 1 .. Len(frames) - 1 : fr2[m] = frames[m]
  BY WithTopFacts DEF CallsInv
<1>2. /\ Depth = Len(frames) /\ Top = frames[Len(frames)] /\ arrays \in Seq(ArraySet)
      /\ Slots(Top) = arrays[Top.array] /\ Top.array \in 1 .. Len(arrays) /\ Top.array = Len(arrays)
      /\ Len(arrays) \in Nat
  BY TopFacts
<1>3. /\ ar2 \in Seq(ArraySet) /\ Len(ar2) = Len(arrays) /\ ar2[Top.array] = w
      /\ \A a \in 1 .. Len(arrays) : a # Top.array => ar2[a] = arrays[a]
  BY <1>2, PutFacts
<1> HIDE DEF ar2, fr2
<1>7. \A a \in 1 .. Len(arrays) - 1 : a \in 1 .. Len(arrays) /\ a # Len(arrays)
  BY <1>2
<1>4. /\ DOMAIN ar2[Len(arrays)] = DOMAIN arrays[Len(arrays)]
      /\ \A a \in 1 .. Len(arrays) - 1 : ar2[a] = arrays[a]
      /\ FrameOK(small, build, g, ar2[Len(arrays)]) /\ SlotsOK(build, g, ar2[Len(arrays)])
  BY <1>2, <1>3, <1>7
<1>5. /\ g.sub = frames[Len(frames)].sub /\ g.array = frames[Len(frames)].array
      /\ g.host = frames[Len(frames)].host
      /\ g.phase = "push" => Len(frames) < MaxDepth /\ calls < MaxCalls
  BY <1>2
<1>6. Good(small, build, fr2, ar2, calls)
  BY <1>1, <1>3, <1>4, <1>5, TopSteps
<1> QED
  BY <1>6 DEF fr2, ar2

(* Words are written to the slots of the activation on top.                *)
LEMMA TopWrites ==
  ASSUME NEW small, CallsInv(small), frames # <<>>, NEW g \in Frame,
         g.sub = Top.sub, g.array = Top.array, g.host = Top.host, g.phase \in {"run", "push", "leave"},
         g.phase = "push" => Depth < MaxDepth /\ calls < MaxCalls,
         NEW D, D \subseteq DOMAIN Slots(Top), NEW ws \in [D -> SlotSet],
         FrameOK(small, build, g, Slots(Top)), SlotsOK(build, g, Write(Slots(Top), ws)),
         frames' = WithTop(g), arrays' = [arrays EXCEPT ![Top.array] = Write(@, ws)],
         overrun' = (overrun \/ Beyond(Slots(Top), ws)), UNCHANGED <<build, calls>>
  PROVE  CallsInv(small)'
<1> DEFINE w == Write(Slots(Top), ws)
<1>1. Slots(Top) = arrays[Top.array] /\ Slots(Top) \in ArraySet
  BY TopFacts
<1>2. w \in ArraySet /\ DOMAIN w = DOMAIN Slots(Top) /\ ~Beyond(Slots(Top), ws)
  BY <1>1, WriteFacts
<1>3. arrays' = [arrays EXCEPT ![Top.array] = w]
  BY <1>1
<1>4. SlotsOK(build, g, w)
  OBVIOUS
<1> HIDE DEF w
<1>5. FrameOK(small, build, g, w)
  BY <1>2 DEF FrameOK, HasRoom
<1>6. Good(small, build, WithTop(g), [arrays EXCEPT ![Top.array] = w], calls)
  BY <1>2, <1>4, <1>5, TopStores
<1> QED
  BY <1>2, <1>3, <1>6 DEF CallsInv

-----------------------------------------------------------------------------
(* Entering a subroutine.                                                  *)

LEMMA CellFacts ==
  ASSUME NEW s \in Subs, NEW i \in DOMAIN Mys(s), NEW j \in Words(s, i)
  PROVE  CellOf(s, Register(s, i, j)) = <<i, j>>
<1> DEFINE P(c) == Register(s, c[1], c[2]) = Register(s, i, j) /\
                     \A d \in Cells(s) : Register(s, d[1], d[2]) = Register(s, i, j) => d[1] <= c[1]
           c0 == <<i, j>>
<1>1. c0 \in Cells(s) /\ c0[1] = i /\ c0[2] = j
  BY DEF Cells
<1>2. i \in Nat
  BY SubFacts
<1>3. ASSUME NEW d \in Cells(s), Register(s, d[1], d[2]) = Register(s, i, j) PROVE d = c0
  <2>1. PICK k \in DOMAIN Mys(s) : \E l \in Words(s, k) : d = <<k, l>>
    BY DEF Cells
  <2>2. PICK l \in Words(s, k) : d = <<k, l>>
    BY <2>1
  <2>3. Reg(build, s, k, l) = Reg(build, s, i, j)
    BY <1>3, <2>2, Translate
  <2>4. i = k /\ j = l
    BY <2>3, RegistersApart
  <2> QED
    BY <2>2, <2>4
<1>4. P(c0)
  <2>1. \A d \in Cells(s) : Register(s, d[1], d[2]) = Register(s, i, j) => d[1] <= c0[1]
    BY <1>1, <1>2, <1>3
  <2> QED
    BY <1>1, <2>1
<1>5. \A c \in Cells(s) : P(c) => c = c0
  BY <1>3
<1>6. CellOf(s, Register(s, i, j)) = CHOOSE c \in Cells(s) : P(c)
  BY DEF CellOf
<1> HIDE DEF P, c0
<1>7. (CHOOSE c \in Cells(s) : P(c)) = c0
  BY <1>1, <1>4, <1>5
<1> QED
  BY <1>6, <1>7 DEF c0

LEMMA FilledFacts ==
  ASSUME NEW s \in Subs, NEW slots \in ArraySet, Depth \in 0 .. MaxDepth
  PROVE  /\ Filled(s, slots) \in [Regs(build, s) -> Words3]
         /\ \A i \in DOMAIN Mys(s) : \A j \in Words(s, i) :
              Filled(s, slots)[Reg(build, s, i, j)] = StartValue(s, slots, i, j)
<1> DEFINE V(r) == LET c == CellOf(s, r) IN StartValue(s, slots, c[1], c[2])
<1>1. Filled(s, slots) = [r \in Regs(build, s) |-> V(r)]
  BY Translate DEF Filled
<1>2. ASSUME NEW i \in DOMAIN Mys(s), NEW j \in Words(s, i)
      PROVE  V(Reg(build, s, i, j)) = StartValue(s, slots, i, j)
  <2>1. CellOf(s, Reg(build, s, i, j)) = <<i, j>>
    BY CellFacts, Translate
  <2> QED
    BY <2>1
<1>3. ASSUME NEW i \in DOMAIN Mys(s), NEW j \in Words(s, i)
      PROVE  StartValue(s, slots, i, j) \in Words3
  <2>1. i \in Nat /\ j \in Nat
    BY SubFacts, VarIdFacts DEF Words
  <2>2. Word(Depth, i, j) \in Words3
    BY <2>1, WordFacts
  <2>3. CopiedArg(s, slots, i, j) \in Words3
    BY ReadFacts DEF CopiedArg
  <2> QED
    BY <2>2, <2>3 DEF StartValue
<1>4. \A r \in Regs(build, s) : V(r) \in Words3
  <2> SUFFICES ASSUME NEW r \in Regs(build, s) PROVE V(r) \in Words3
    OBVIOUS
  <2>1. PICK i \in DOMAIN Mys(s) : \E j \in Words(s, i) : r = Reg(build, s, i, j)
    BY DEF Regs
  <2> HIDE DEF V
  <2> QED
    BY <1>2, <1>3, <2>1
<1> HIDE DEF V
<1>5. Filled(s, slots) \in [Regs(build, s) -> Words3]
  BY <1>1, <1>4
<1>6. \A i \in DOMAIN Mys(s) : \A j \in Words(s, i) : Reg(build, s, i, j) \in Regs(build, s)
  BY RegFacts
<1> QED
  BY <1>1, <1>2, <1>5, <1>6

(* The activation after the copy.                                          *)
Entered(f) == [f EXCEPT !.phase = "run", !.regs = Filled(f.sub, Slots(f))]

LEMMA EnteredFacts ==
  ASSUME NEW small, CallsInv(small), frames # <<>>, Top.phase = "enter"
  PROVE  /\ Entered(Top) \in Frame /\ Entered(Top).sub = Top.sub /\ Entered(Top).array = Top.array
         /\ Entered(Top).host = Top.host /\ Entered(Top).phase = "run"
         /\ FrameOK(small, build, Entered(Top), Slots(Top))
         /\ SlotsOK(build, Entered(Top), Slots(Top))
         /\ \A i \in DOMAIN Args[Top.sub] : Val(build, Entered(Top), i) = Top.given[i]
<1> DEFINE s == Top.sub
           F == Filled(s, Slots(Top))
           g == Entered(Top)
<1>1. /\ Top \in Frame /\ Slots(Top) \in ArraySet /\ Depth \in 0 .. MaxDepth
      /\ FrameOK(small, build, Top, Slots(Top)) /\ SlotsOK(build, Top, Slots(Top))
  BY TopFacts
<1>2. s \in Subs /\ Top.top = 0 /\ Top.at \in DOMAIN Body[s]
  BY <1>1, FrameFacts DEF FrameOK
<1>3. /\ F \in [Regs(build, s) -> Words3]
      /\ \A i \in DOMAIN Mys(s) : \A j \in Words(s, i) :
           F[Reg(build, s, i, j)] = StartValue(s, Slots(Top), i, j)
  BY <1>1, <1>2, FilledFacts
<1>4. F \in WordsOn(RegIds)
  BY <1>2, <1>3, RegFacts, WordsOnFacts
<1>5. g = [Top EXCEPT !.phase = "run", !.regs = F]
  BY DEF Entered
<1> HIDE DEF F, g
<1>6. /\ g \in Frame /\ g.sub = s /\ g.array = Top.array /\ g.host = Top.host /\ g.phase = "run"
      /\ g.at = Top.at /\ g.top = Top.top /\ g.regs = F
  BY <1>1, <1>4, <1>5 DEF Frame, Phases
<1>7. FrameOK(small, build, g, Slots(Top))
  BY <1>1, <1>2, <1>3, <1>6 DEF FrameOK
<1>8. SlotsOK(build, g, Slots(Top))
  BY <1>6 DEF SlotsOK
<1>9. ASSUME NEW i \in DOMAIN Args[s] PROVE Val(build, g, i) = Top.given[i]
  <2> DEFINE t == Args[s][i]
             sl == Slots(Top)
  <2>1. i \in DOMAIN Mys(s) /\ Mys(s)[i] = t /\ i <= Len(Args[s])
    BY <1>2, SubFacts
  <2>2. Top.given[i] = ReadAt(sl, SlotOfArg(s, i), t)
    BY <1>1 DEF SlotsOK, Arrived
  <2>3. Words(s, i) = 0 .. Width(t) - 1
    BY <2>1 DEF Words
  <2>4. Val(build, g, i) = [j \in Words(s, i) |-> F[Reg(build, s, i, j)]]
    BY <1>6 DEF Val
  <2> HIDE DEF t, sl
  <2>5. ASSUME NEW j \in Words(s, i)
        PROVE  F[Reg(build, s, i, j)] = Read(sl, SlotOfArg(s, i) + j, Bank(t))
    <3>1. F[Reg(build, s, i, j)] = StartValue(s, sl, i, j)
      BY <1>3, <2>1 DEF sl
    <3>2. StartValue(s, sl, i, j) = CopiedArg(s, sl, i, j)
      BY <2>1 DEF StartValue
    <3> QED
      BY <3>1, <3>2 DEF CopiedArg, t
  <2> QED
    BY <2>2, <2>3, <2>4, <2>5 DEF ReadAt
<1> QED
  BY <1>6, <1>7, <1>8, <1>9 DEF g

LEMMA CopyArgsGood ==
  ASSUME NEW small, CallsInv(small), CopyArgs
  PROVE  CallsInv(small)' /\ frames # <<>> /\ frames' = WithTop(Entered(Top)) /\ Top.phase = "enter"
<1>1. frames # <<>> /\ Top.phase = "enter" /\ UNCHANGED <<build, arrays, overrun, calls>>
  BY DEF CopyArgs, InPhase
<1>2. frames' = WithTop(Entered(Top))
  BY DEF CopyArgs, Entered, VmCopyArgs, PrecompiledCopyArgs
<1> QED
  BY <1>1, <1>2, EnteredFacts, TopChanges

-----------------------------------------------------------------------------
(* The statements.                                                         *)

(* The registers of all activations stay as they are.                      *)
RegsKept == \A n \in 1 .. Depth : frames'[n].sub = frames[n].sub /\ frames'[n].regs = frames[n].regs
TopOnly  == Len(frames') = Depth /\ RegsKept
Above    == Len(frames') = Depth + 1 /\ RegsKept

LEMMA KeptFacts ==
  ASSUME NEW small, CallsInv(small), frames # <<>>, NEW g \in Frame, g.sub = Top.sub, g.regs = Top.regs
  PROVE  /\ frames' = WithTop(g) => TopOnly
         /\ \A e \in Frame : frames' = Append(WithTop(g), e) => Above
<1>1. /\ WithTop(g) \in Seq(Frame) /\ Len(WithTop(g)) = Depth /\ WithTop(g)[Depth] = g
      /\ \A m \in 1 .. Depth - 1 : WithTop(g)[m] = frames[m]
      /\ Top = frames[Depth] /\ Depth \in Nat
  BY WithTopFacts, TopFacts
<1> DEFINE w == WithTop(g)
<1> HIDE DEF w
<1>2. \A n \in 1 .. Depth : w[n].sub = frames[n].sub /\ w[n].regs = frames[n].regs
  <2> SUFFICES ASSUME NEW n \in 1 .. Depth
               PROVE  w[n].sub = frames[n].sub /\ w[n].regs = frames[n].regs
    OBVIOUS
  <2>1. n = Depth \/ n \in 1 .. Depth - 1
    BY <1>1
  <2> QED
    BY <1>1, <2>1 DEF w
<1>3. frames' = w => TopOnly
  BY <1>1, <1>2 DEF TopOnly, RegsKept, w
<1>4. ASSUME NEW e \in Frame, frames' = Append(w, e) PROVE Above
  <2>1. Len(frames') = Depth + 1 /\ \A n \in 1 .. Depth : frames'[n] = w[n]
    BY <1>1, <1>4, AppendFacts DEF w
  <2> QED
    BY <1>2, <2>1 DEF Above, RegsKept
<1> QED
  BY <1>3, <1>4 DEF w

LEMMA BeginGood ==
  ASSUME NEW small, CallsInv(small), NEW k, Begin(k)
  PROVE  CallsInv(small)' /\ frames # <<>> /\ TopOnly
<1> DEFINE s == Top.sub
           g == [Top EXCEPT !.phase = "push", !.at = k, !.arg = 1]
<1>1. /\ frames # <<>> /\ Top.phase = "run" /\ k \in DOMAIN Body[s] /\ Body[s][k].op = "call"
      /\ calls < MaxCalls /\ Depth < MaxDepth
      /\ frames' = WithTop(g) /\ UNCHANGED <<build, arrays, overrun, calls>>
  BY DEF Begin, InPhase
<1>2. Top \in Frame /\ FrameOK(small, build, Top, Slots(Top))
  BY <1>1, TopFacts
<1>3. s \in Subs /\ Top.top = 0
  BY <1>1, <1>2, FrameFacts DEF FrameOK
<1>4. k \in Nat /\ Body[s][k].callee \in Subs
  BY <1>1, <1>3, StatementFacts
<1>5. /\ g \in Frame /\ g.sub = s /\ g.array = Top.array /\ g.host = Top.host /\ g.phase = "push"
      /\ g.at = k /\ g.arg = 1 /\ g.top = Top.top /\ g.regs = Top.regs
  BY <1>2, <1>4 DEF Frame, Phases
<1> HIDE DEF g
<1>6. FrameOK(small, build, g, Slots(Top))
  BY <1>1, <1>2, <1>3, <1>5 DEF FrameOK
<1>7. SlotsOK(build, g, Slots(Top))
  <2> DEFINE c == Body[s][k].callee
  <2>1. Len(Args[c]) \in Nat /\ Sums(Widths(Args[c]))[0] = 0
    BY <1>4, SlotFacts, SubFacts
  <2> HIDE DEF c
  <2>2. 1 \in 1 .. Len(Args[c]) + 1 /\ 1 - 1 = 0 /\ \A i : i \notin 1 .. 0
    BY <2>1
  <2>3. g.arg \in 1 .. Len(Args[c]) + 1 /\ g.top = Sums(Widths(Args[c]))[g.arg - 1]
        /\ \A i : i \notin 1 .. g.arg - 1
    BY <1>3, <1>5, <2>1, <2>2
  <2>4. Pushing(build, g, Slots(Top))
    BY <1>5, <2>3 DEF Pushing, c
  <2> QED
    BY <1>5, <2>4 DEF SlotsOK
<1>8. CallsInv(small)'
  BY <1>1, <1>5, <1>6, <1>7, TopChanges
<1> QED
  BY <1>1, <1>5, <1>8, KeptFacts

LEMMA CroakGood ==
  ASSUME NEW small, CallsInv(small), Croak
  PROVE  CallsInv(small)' /\ frames # <<>> /\ TopOnly
<1> DEFINE g == [Top EXCEPT !.phase = "leave", !.exc = TRUE]
<1>1. /\ frames # <<>> /\ Top.phase = "run"
      /\ frames' = WithTop(g) /\ UNCHANGED <<build, arrays, overrun, calls>>
  BY DEF Croak, InPhase
<1>2. Top \in Frame /\ FrameOK(small, build, Top, Slots(Top))
  BY <1>1, TopFacts
<1>3. /\ g \in Frame /\ g.sub = Top.sub /\ g.array = Top.array /\ g.host = Top.host /\ g.phase = "leave"
      /\ g.at = Top.at /\ g.top = Top.top /\ g.regs = Top.regs /\ g.exc = TRUE
  BY <1>2 DEF Frame, Phases
<1> HIDE DEF g
<1>4. FrameOK(small, build, g, Slots(Top)) /\ SlotsOK(build, g, Slots(Top))
  BY <1>1, <1>2, <1>3 DEF FrameOK, SlotsOK
<1>5. CallsInv(small)'
  BY <1>1, <1>3, <1>4, TopChanges
<1> QED
  BY <1>1, <1>3, <1>5, KeptFacts

(* The words of v, of type t, in the slots from base on.                   *)
Span(base, t)   == {base + j : j \in 0 .. Width(t) - 1}
Put(base, t, v) == At(base, [j \in 0 .. Width(t) - 1 |-> Slot(Bank(t), v[j])])

(* They are read there, and read nowhere else.                             *)
LEMMA PlacedFacts ==
  ASSUME NEW slots \in ArraySet, NEW base \in Nat, NEW t \in Type,
         NEW v \in [0 .. Width(t) - 1 -> Words3],
         \A j \in 0 .. Width(t) - 1 : base + j \in DOMAIN slots
  PROVE  /\ Put(base, t, v) \in [Span(base, t) -> SlotSet] /\ Span(base, t) \subseteq DOMAIN slots
         /\ DOMAIN Put(base, t, v) = Span(base, t)
         /\ ReadAt(Write(slots, Put(base, t, v)), base, t) = v
         /\ \A n \in Nat : \A u \in Type : n + Width(u) <= base
              => ReadAt(Write(slots, Put(base, t, v)), n, u) = ReadAt(slots, n, u)
         /\ \A j \in 0 .. Width(t) - 1 : Put(base, t, v)[base + j].word = v[j]
<1> DEFINE J == 0 .. Width(t) - 1
           D == {base + j : j \in J}
           x == [j \in J |-> Slot(Bank(t), v[j])]
           ws == At(base, x)
<1>1. Width(t) \in Nat /\ Bank(t) \in Banks
  BY TypeFacts
<1>2. D \subseteq DOMAIN slots
  OBVIOUS
<1>3. DOMAIN x = J
  OBVIOUS
<1>4. ws = [n \in D |-> x[n - base]]
  BY <1>3 DEF At
<1>5. \A j \in J : base + j \in D /\ base + j \in Nat /\ (base + j) - base = j
  BY <1>1
<1>6. \A j \in J : ws[base + j] = Slot(Bank(t), v[j])
  <2> HIDE DEF D, J
  <2>1. \A j \in J : ws[base + j] = x[(base + j) - base]
    BY <1>4, <1>5
  <2> QED
    BY <1>5, <2>1
<1>7. \A j \in J : Slot(Bank(t), v[j]) \in SlotSet
  BY <1>1 DEF Slot, SlotSet
<1>8. ws \in [D -> SlotSet]
  <2>1. \A n \in D : \E j \in J : n = base + j
    OBVIOUS
  <2> HIDE DEF D, J, x
  <2>2. \A n \in D : x[n - base] \in SlotSet
    BY <1>5, <1>7, <2>1 DEF x
  <2> HIDE DEF ws
  <2> QED
    BY <1>4, <2>2
<1>9. \A n \in D : base <= n
  BY <1>1
<1> HIDE DEF ws, x, D
<1>10. /\ DOMAIN Write(slots, ws) = DOMAIN slots
       /\ \A n \in D : Write(slots, ws)[n] = ws[n]
       /\ \A n \in DOMAIN slots : n \notin D => Write(slots, ws)[n] = slots[n]
  BY <1>2, <1>8, WriteFacts
<1>11. ReadAt(Write(slots, ws), base, t) = v
  <2>1. \A j \in J : Read(Write(slots, ws), base + j, Bank(t)) = v[j]
    <3> SUFFICES ASSUME NEW j \in J PROVE Read(Write(slots, ws), base + j, Bank(t)) = v[j]
      OBVIOUS
    <3>1. base + j \in DOMAIN Write(slots, ws) /\ Write(slots, ws)[base + j] = Slot(Bank(t), v[j])
      BY <1>5, <1>6, <1>10
    <3> QED
      BY <3>1 DEF Read, Slot
  <2>2. ReadAt(Write(slots, ws), base, t) = [j \in J |-> v[j]]
    BY <2>1 DEF ReadAt
  <2> QED
    BY <2>2
<1>12. ASSUME NEW n \in Nat, NEW u \in Type, n + Width(u) <= base
       PROVE  ReadAt(Write(slots, ws), n, u) = ReadAt(slots, n, u)
  <2>1. Width(u) \in Nat
    BY TypeFacts
  <2>2. \A j \in 0 .. Width(u) - 1 : n + j \in Nat /\ n + j < base
    BY <1>12, <2>1
  <2>3. \A j \in 0 .. Width(u) - 1 : n + j \notin D
    BY <1>9, <2>2
  <2>4. \A j \in 0 .. Width(u) - 1 :
          Read(Write(slots, ws), n + j, Bank(u)) = Read(slots, n + j, Bank(u))
    BY <1>10, <2>3 DEF Read
  <2> QED
    BY <2>4 DEF ReadAt
<1>13. DOMAIN ws = D
  BY <1>8
<1>14. \A j \in J : ws[base + j].word = v[j]
  <2>1. \A b, w : Slot(b, w).word = w
    BY DEF Slot
  <2> HIDE DEF J
  <2> QED
    BY <1>6, <2>1
<1> QED
  BY <1>2, <1>8, <1>11, <1>12, <1>13, <1>14 DEF ws, x, D, Put, Span

(* An argument is where the callee reads it, and those before it remain.   *)
LEMMA PushArgGood ==
  ASSUME NEW small \in SUBSET Subs, Supports(small), CallsInv(small), PushArg
  PROVE  CallsInv(small)' /\ frames # <<>> /\ TopOnly
<1> DEFINE s == Top.sub
           k == Top.at
           c == Body[s][k].callee
           i == Top.arg
           t == Args[c][i]
           sl == Slots(Top)
           v == Passed(build, Top, i)
           x == [j \in 0 .. Width(t) - 1 |-> Slot(Bank(t), v[j])]
           base == SlotOfArg(c, i)
           D == {base + j : j \in 0 .. Width(t) - 1}
           ws == At(base, x)
           g == [Top EXCEPT !.arg = @ + 1, !.top = VmTopAfter(Top)]
<1>1. frames # <<>> /\ Top.phase = "push" /\ i <= Len(Args[c])
  BY DEF PushArg, InPhase, Statement
<1>2. /\ Top \in Frame /\ sl \in ArraySet
      /\ FrameOK(small, build, Top, sl) /\ Pushing(build, Top, sl)
  BY <1>1, TopFacts DEF SlotsOK
<1>3. /\ s \in Subs /\ k \in DOMAIN Body[s] /\ Body[s][k].op = "call" /\ HasRoom(small, s, sl)
      /\ Top.regs \in [Regs(build, s) -> Words3]
      /\ i \in Nat /\ Top.top \in Int
  BY <1>1, <1>2, FrameFacts DEF FrameOK
<1>4. /\ c \in Subs /\ Len(Args[c]) \in Nat /\ i \in 1 .. Len(Args[c]) + 1
      /\ Top.top = Sums(Widths(Args[c]))[i - 1]
      /\ \A n \in 1 .. i - 1 : Passed(build, Top, n) = ReadAt(sl, SlotOfArg(c, n), Args[c][n])
  BY <1>2, <1>3, CallFacts, SubFacts DEF Pushing
<1>5. i \in 1 .. Len(Args[c]) /\ t \in Type /\ Width(t) \in Nat
  <2>1. i \in 1 .. Len(Args[c])
    <3> HIDE DEF i, c
    <3> QED
      BY <1>1, <1>4
  <2> QED
    BY <1>4, <2>1, SubFacts, TypeFacts
<1>6. v \in [0 .. Width(t) - 1 -> Words3]
  BY <1>3, <1>5, PassedFacts
<1>7. ArgWords(Top, i) = x
  <2> DEFINE my == Body[s][k].args[i]
  <2>1. ArgWords(Top, i) =
          [j \in 0 .. Width(t) - 1 |-> Slot(Bank(t), IF my = 0 THEN Undef ELSE Val(build, Top, my)[j])]
    BY Translate DEF ArgWords, Statement
  <2>2. v = Picked(build, Top, my)
    BY DEF Passed
  <2>3. Agrees(s, my, t)
    BY <1>3, <1>5, CallFacts
  <2>5. Top.sub \in Subs /\ Top.regs \in [Regs(build, Top.sub) -> Words3] /\ t \in Type
        /\ Agrees(Top.sub, my, t)
    BY <1>3, <1>5, <2>3
  <2> HIDE DEF my, v, t, s
  <2>4. \A j \in 0 .. Width(t) - 1 : v[j] = IF my = 0 THEN Undef ELSE Val(build, Top, my)[j]
    <3>1. CASE my = 0
      <4>1. \A j \in 0 .. Width(t) - 1 : v[j] = Undef
        BY <2>2, <2>5, <3>1, PickedFacts
      <4> QED
        BY <3>1, <4>1
    <3>2. CASE my # 0
      <4>1. v = Val(build, Top, my)
        BY <2>2, <2>5, <3>2, PickedFacts
      <4> QED
        BY <3>2, <4>1
    <3> QED
      BY <3>1, <3>2
  <2> QED
    BY <2>1, <2>4
<1>8. /\ base \in Nat /\ base = Sums(Widths(Args[c]))[i - 1]
      /\ base + Width(t) = Sums(Widths(Args[c]))[i] /\ base + Width(t) <= AllocLength(Args[c])
      /\ \A n \in 1 .. i - 1 : SlotOfArg(c, n) + Width(Args[c][n]) <= base
  BY <1>4, <1>5, SlotFacts
<1>9. (IF build[s] = "vm" THEN VmPush(Top) ELSE PrecompiledPush(Top)) = ws
  <2>1. CASE build[s] = "vm"
    <3>1. VmPush(Top) = At(Top.top, ArgWords(Top, Top.arg))
      BY DEF VmPush
    <3> QED
      BY <1>4, <1>7, <1>8, <2>1, <3>1
  <2>2. CASE build[s] # "vm"
    <3>1. PrecompiledPush(Top) = At(PrecompiledTop(s, k) + base, ArgWords(Top, i))
      BY DEF PrecompiledPush, Statement
    <3>2. build \in Builds
      BY DEF CallsInv, Good
    <3>3. PrecompiledTop(s, k) = 0
      BY <1>3, <2>2, <3>2 DEF Supports
    <3>4. 0 + base = base
      <4>1. base \in Nat
        BY <1>8
      <4> HIDE DEF base
      <4> QED
        BY <4>1
    <3> HIDE DEF base, ws, x
    <3> QED
      BY <1>7, <2>2, <3>1, <3>3, <3>4 DEF ws
  <2> QED
    BY <2>1, <2>2
<1> HIDE DEF ws, x, base, D, v
<1>10. \A j \in 0 .. Width(t) - 1 : base + j \in DOMAIN sl
  <2>1. 0 .. AllocLength(Args[c]) - 1 \subseteq DOMAIN sl
    BY <1>3, <1>4, RoomFacts
  <2>2. AllocLength(Args[c]) \in Nat
    BY <1>4, SlotFacts
  <2> HIDE DEF t, c, sl
  <2>3. \A j \in 0 .. Width(t) - 1 : base + j \in 0 .. AllocLength(Args[c]) - 1
    BY <1>5, <1>8, <2>2
  <2> QED
    BY <2>1, <2>3
<1>11. /\ ws \in [D -> SlotSet] /\ D \subseteq DOMAIN sl
       /\ ReadAt(Write(sl, ws), base, t) = v
       /\ \A n \in Nat : \A u \in Type :
            n + Width(u) <= base => ReadAt(Write(sl, ws), n, u) = ReadAt(sl, n, u)
  <2>1. sl \in ArraySet /\ base \in Nat /\ t \in Type /\ v \in [0 .. Width(t) - 1 -> Words3]
    BY <1>2, <1>5, <1>6, <1>8
  <2>2. ws = Put(base, t, v) /\ D = Span(base, t)
    BY DEF ws, x, D, Put, Span
  <2> HIDE DEF t, sl
  <2> QED
    BY <1>10, <2>1, <2>2, PlacedFacts
<1>12. VmTopAfter(Top) = Sums(Widths(Args[c]))[i] /\ VmTopAfter(Top) \in Int
  <2>1. VmTopAfter(Top) = Top.top + Width(t)
    BY DEF VmTopAfter, Statement
  <2>2. Top.top = base
    BY <1>4, <1>8
  <2> HIDE DEF t, c, i
  <2> QED
    BY <1>5, <1>8, <2>1, <2>2
<1>13. /\ g \in Frame /\ g.sub = s /\ g.array = Top.array /\ g.host = Top.host /\ g.phase = "push"
       /\ g.at = k /\ g.arg = i + 1 /\ g.top = VmTopAfter(Top) /\ g.regs = Top.regs
  <2>1. i + 1 \in Nat
    BY <1>3
  <2> QED
    BY <1>1, <1>2, <1>12, <2>1 DEF Frame
<1> HIDE DEF g
<1>14. FrameOK(small, build, g, sl)
  BY <1>1, <1>2, <1>3, <1>13 DEF FrameOK
<1>15. SlotsOK(build, g, Write(sl, ws))
  <2>1. \A n : Passed(build, g, n) = Passed(build, Top, n)
    BY <1>13 DEF Passed, Picked, Val
  <2>2. ASSUME NEW n \in 1 .. i
        PROVE  Passed(build, g, n) = ReadAt(Write(sl, ws), SlotOfArg(c, n), Args[c][n])
    <3>1. CASE n = i
      BY <1>11, <2>1, <3>1 DEF v, base
    <3>2. CASE n # i
      <4>1. n \in 1 .. i - 1 /\ n \in 1 .. Len(Args[c])
        BY <1>5, <3>2
      <4>2. SlotOfArg(c, n) + Width(Args[c][n]) <= base /\ SlotOfArg(c, n) \in Nat /\ Args[c][n] \in Type
        BY <1>4, <1>8, <4>1, SlotFacts, SubFacts
      <4>3. ReadAt(Write(sl, ws), SlotOfArg(c, n), Args[c][n]) = ReadAt(sl, SlotOfArg(c, n), Args[c][n])
        BY <1>11, <4>2
      <4> QED
        BY <1>4, <2>1, <4>1, <4>3
    <3> QED
      BY <3>1, <3>2
  <2>3. i + 1 \in 1 .. Len(Args[c]) + 1 /\ (i + 1) - 1 = i
    <3> HIDE DEF i, c
    <3> QED
      BY <1>4, <1>5
  <2>4. /\ g.arg \in 1 .. Len(Args[c]) + 1 /\ g.arg - 1 = i
        /\ g.top = Sums(Widths(Args[c]))[i] /\ Body[g.sub][g.at].callee = c
    BY <1>12, <1>13, <2>3
  <2>5. Pushing(build, g, Write(sl, ws))
    <3> HIDE DEF c, i, sl
    <3> QED
      BY <2>2, <2>4 DEF Pushing
  <2> QED
    BY <1>13, <2>5 DEF SlotsOK
<1>16. Depth < MaxDepth /\ calls < MaxCalls
  BY <1>1, TopFacts DEF CallsInv, Good
<1>17. /\ frames' = WithTop(g) /\ arrays' = [arrays EXCEPT ![Top.array] = Write(@, ws)]
       /\ overrun' = (overrun \/ Beyond(sl, ws)) /\ UNCHANGED <<build, calls>>
  BY <1>9 DEF PushArg, g
<1>18. CallsInv(small)'
  BY <1>1, <1>11, <1>13, <1>14, <1>15, <1>16, <1>17, TopWrites
<1> QED
  BY <1>1, <1>13, <1>17, <1>18, KeptFacts

-----------------------------------------------------------------------------
(* Calls and their ends.                                                   *)

LEMMA EnterFacts ==
  ASSUME NEW small, NEW s \in Subs, NEW a \in Nat, NEW host \in BOOLEAN,
         NEW given \in Seq(WordsOn(Nat)), NEW slots, HasRoom(small, s, slots),
         \A i \in DOMAIN Args[s] : given[i] = ReadAt(slots, SlotOfArg(s, i), Args[s][i])
  PROVE  LET e == EnterFrame(s, a, host, given) IN
         /\ e \in Frame /\ e.sub = s /\ e.array = a /\ e.host = host /\ e.phase = "enter"
         /\ FrameOK(small, build, e, slots) /\ SlotsOK(build, e, slots)
<1> DEFINE e == EnterFrame(s, a, host, given)
           R == [r \in RegistersOf(s) |-> Junk]
<1>1. R \in [Regs(build, s) -> Words3]
  BY WordFacts, Translate
<1>2. R \in WordsOn(RegIds)
  BY <1>1, RegFacts, WordsOnFacts
<1>3. <<>> \in WordsOn(Nat)
  <2>1. <<>> \in [{} -> Words3]
    OBVIOUS
  <2> QED
    BY <2>1, WordsOnFacts
<1>4. e = [sub |-> s, at |-> 1, arg |-> 1, top |-> 0, phase |-> "enter", array |-> a, regs |-> R,
           exc |-> FALSE, host |-> host, given |-> given, result |-> <<>>]
  BY DEF EnterFrame
<1>5. 1 \in DOMAIN Body[s]
  BY FirstStatement
<1> HIDE DEF e, R
<1>6. /\ e.sub = s /\ e.at = 1 /\ e.top = 0 /\ e.phase = "enter" /\ e.array = a /\ e.regs = R
      /\ e.host = host /\ e.given = given
  BY <1>4
<1>7. e \in Frame
  BY <1>2, <1>3, <1>4 DEF Frame, Phases
<1>8. FrameOK(small, build, e, slots)
  BY <1>1, <1>5, <1>6 DEF FrameOK
<1>9. Arrived(e, slots)
  BY <1>6 DEF Arrived
<1>10. SlotsOK(build, e, slots)
  BY <1>6, <1>9 DEF SlotsOK
<1> QED
  BY <1>6, <1>7, <1>8, <1>10 DEF e

LEMMA GivenFacts ==
  ASSUME NEW small, CallsInv(small), Pushed
  PROVE  /\ Given(Top) \in Seq(WordsOn(Nat))
         /\ \A i \in 1 .. Len(Args[Statement(Top).callee]) :
              Given(Top)[i] = ReadAt(Slots(Top), SlotOfArg(Statement(Top).callee, i),
                                     Args[Statement(Top).callee][i])
         /\ Top.top = AllocLength(Args[Statement(Top).callee])
<1> DEFINE s == Top.sub
           st == Body[s][Top.at]
           c == st.callee
           L == Len(Args[c])
<1>1. frames # <<>> /\ Top.phase = "push" /\ ~(Top.arg <= L) /\ Statement(Top) = st
  <2>1. Top.arg > L /\ frames # <<>> /\ Top.phase = "push" /\ Statement(Top) = st
    BY DEF Pushed, InPhase, Statement
  <2>2. Top.arg \in Nat /\ L \in Nat
    <3>1. Top \in Frame /\ FrameOK(small, build, Top, Slots(Top))
      BY <2>1, TopFacts
    <3>2. s \in Subs /\ Top.arg \in Nat /\ Top.at \in DOMAIN Body[s]
      BY <3>1, FrameFacts DEF FrameOK
    <3>3. c \in Subs
      BY <3>2, StatementFacts
    <3> QED
      BY <3>2, <3>3, SubFacts
  <2> HIDE DEF L, st
  <2> QED
    BY <2>1, <2>2
<1>2. Top \in Frame /\ FrameOK(small, build, Top, Slots(Top)) /\ Pushing(build, Top, Slots(Top))
  BY <1>1, TopFacts DEF SlotsOK
<1>3. /\ s \in Subs /\ Top.at \in DOMAIN Body[s] /\ st.op = "call"
      /\ Top.regs \in [Regs(build, s) -> Words3]
  BY <1>1, <1>2, FrameFacts DEF FrameOK
<1>4. c \in Subs /\ DOMAIN st.args = 1 .. L /\ L \in Nat
  BY <1>3, CallFacts, SubFacts
<1>5. Top.arg = L + 1
  <2>1. Top.arg \in 1 .. L + 1
    BY <1>2 DEF Pushing
  <2> HIDE DEF L
  <2> QED
    BY <1>1, <1>4, <2>1
<1>6. Given(Top) = [i \in 1 .. L |-> Passed(build, Top, i)]
  <2>1. \A i : (IF st.args[i] = 0 THEN [j \in {0} |-> Undef] ELSE Value(Top, st.args[i])) = Passed(build, Top, i)
    BY Translate DEF Passed, Picked
  <2>2. Given(Top) =
          [i \in DOMAIN st.args |-> IF st.args[i] = 0 THEN [j \in {0} |-> Undef] ELSE Value(Top, st.args[i])]
    BY <1>1 DEF Given
  <2> HIDE DEF st, L
  <2> QED
    BY <1>4, <2>1, <2>2
<1>7. \A i \in 1 .. L : Passed(build, Top, i) \in WordsOn(Nat)
  BY <1>3, PassedFacts
<1>8. L + 1 - 1 = L
  <2> HIDE DEF L
  <2> QED
    BY <1>4
<1>9. /\ Top.top = Sums(Widths(Args[c]))[L]
      /\ \A i \in 1 .. L : Passed(build, Top, i) = ReadAt(Slots(Top), SlotOfArg(c, i), Args[c][i])
  <2>1. /\ Top.top = Sums(Widths(Args[c]))[Top.arg - 1]
        /\ \A i \in 1 .. Top.arg - 1 :
             Passed(build, Top, i) = ReadAt(Slots(Top), SlotOfArg(c, i), Args[c][i])
    BY <1>2 DEF Pushing
  <2>2. Top.arg - 1 = L
    BY <1>5, <1>8
  <2> QED
    BY <2>1, <2>2
<1>10. AllocLength(Args[c]) = Sums(Widths(Args[c]))[L]
  BY <1>4, SlotFacts
<1>11. \A n \in Nat : \A P : (\A i \in 1 .. n : P[i] \in WordsOn(Nat))
                               => [i \in 1 .. n |-> P[i]] \in Seq(WordsOn(Nat))
  OBVIOUS
<1>12. Given(Top) \in Seq(WordsOn(Nat))
  <2> DEFINE P == [i \in 1 .. L |-> Passed(build, Top, i)]
  <2>1. \A i \in 1 .. L : P[i] \in WordsOn(Nat)
    BY <1>7
  <2>2. [i \in 1 .. L |-> P[i]] = P
    OBVIOUS
  <2> HIDE DEF P, L
  <2>3. P \in Seq(WordsOn(Nat))
    BY <1>4, <1>11, <2>1, <2>2
  <2> QED
    BY <1>6, <2>3 DEF P
<1> QED
  BY <1>1, <1>6, <1>9, <1>10, <1>12

LEMMA CallSubGood ==
  ASSUME NEW small \in SUBSET Subs, Supports(small), CallsInv(small), Pushed, CallSub(Top, 0),
         UNCHANGED <<build, arrays, overrun>>
  PROVE  CallsInv(small)' /\ frames # <<>> /\ Above
<1> DEFINE s == Top.sub
           c == Statement(Top).callee
           h == [Top EXCEPT !.phase = "wait", !.top = 0]
           e == EnterFrame(c, Top.array, FALSE, Given(Top))
           fr2 == Append(WithTop(h), e)
<1>1. frames # <<>> /\ Top.phase = "push" /\ c = Body[s][Top.at].callee
  BY DEF Pushed, InPhase, Statement
<1>2. /\ Top \in Frame /\ Top.array = Len(arrays) /\ Top.array \in 1 .. Len(arrays)
      /\ Slots(Top) = arrays[Top.array] /\ FrameOK(small, build, Top, Slots(Top))
      /\ Depth = Len(frames) /\ Top = frames[Len(frames)] /\ Len(frames) \in Nat
      /\ arrays \in Seq(ArraySet)
  BY <1>1, TopFacts
<1>3. /\ s \in Subs /\ Top.at \in DOMAIN Body[s] /\ Body[s][Top.at].op = "call"
      /\ HasRoom(small, s, Slots(Top)) /\ Top.array \in Nat
  BY <1>1, <1>2, FrameFacts DEF FrameOK
<1>4. c \in Subs /\ HasRoom(small, c, Slots(Top))
  BY <1>1, <1>3, StatementFacts, RoomFacts
<1>5. /\ Given(Top) \in Seq(WordsOn(Nat))
      /\ \A i \in DOMAIN Args[c] : Given(Top)[i] = ReadAt(Slots(Top), SlotOfArg(c, i), Args[c][i])
  BY <1>4, GivenFacts, SubFacts
<1>6. /\ e \in Frame /\ e.sub = c /\ e.array = Top.array /\ e.host = FALSE /\ e.phase = "enter"
      /\ FrameOK(small, build, e, Slots(Top)) /\ SlotsOK(build, e, Slots(Top))
  <2> HIDE DEF c
  <2> QED
    BY <1>3, <1>4, <1>5, EnterFacts
<1>7. /\ h \in Frame /\ h.sub = s /\ h.array = Top.array /\ h.host = Top.host /\ h.phase = "wait"
      /\ h.at = Top.at /\ h.top = 0 /\ h.regs = Top.regs
  <2>1. ASSUME NEW z \in Int
        PROVE  LET w == [Top EXCEPT !.phase = "wait", !.top = z] IN
               /\ w \in Frame /\ w.sub = s /\ w.array = Top.array /\ w.host = Top.host
               /\ w.phase = "wait" /\ w.at = Top.at /\ w.top = z /\ w.regs = Top.regs
    BY <1>2 DEF Frame, Phases
  <2>2. 0 \in Int
    OBVIOUS
  <2> QED
    BY <2>1, <2>2
<1>8. frames' = fr2 /\ calls' = calls + 1
  BY DEF CallSub
<1> HIDE DEF h, e
<1>9. /\ WithTop(h) \in Seq(Frame) /\ Len(WithTop(h)) = Len(frames) /\ WithTop(h)[Len(frames)] = h
      /\ \A m \in 1 .. Len(frames) - 1 : WithTop(h)[m] = frames[m]
  BY <1>1, <1>7, WithTopFacts
<1>10. /\ fr2 \in Seq(Frame) /\ Len(fr2) = Len(frames) + 1 /\ fr2[Len(frames) + 1] = e
       /\ \A m \in 1 .. Len(frames) : fr2[m] = WithTop(h)[m]
  BY <1>6, <1>9, AppendFacts
<1> HIDE DEF fr2
<1>11. /\ \A m \in 1 .. Len(frames) - 1 : fr2[m] = frames[m]
       /\ fr2[Len(frames)] = h
  <2>1. Len(frames) \in 1 .. Len(frames) /\ \A m \in 1 .. Len(frames) - 1 : m \in 1 .. Len(frames)
    BY <1>1, TopFacts
  <2> QED
    BY <1>9, <1>10, <2>1
<1>12. FrameOK(small, build, h, Slots(Top)) /\ SlotsOK(build, h, Slots(Top))
  BY <1>2, <1>3, <1>7 DEF FrameOK, SlotsOK
<1>13. Linked(h, e)
  BY <1>1, <1>6, <1>7 DEF Linked
<1>14. Depth < MaxDepth /\ calls < MaxCalls /\ calls \in 0 .. MaxCalls /\ build \in Builds
       /\ Good(small, build, frames, arrays, calls) /\ ~overrun
  BY <1>1, TopFacts DEF CallsInv, Good
<1>15. calls + 1 \in 0 .. MaxCalls
  BY <1>14, ProgramAssumption
<1>16. Good(small, build, fr2, arrays, calls + 1)
  <2>1. /\ FrameOK(small, build, e, arrays[e.array]) /\ SlotsOK(build, e, arrays[e.array])
        /\ e.array = Len(arrays) /\ e.array \in 1 .. Len(arrays) /\ Len(arrays) <= Len(arrays)
    BY <1>2, <1>6
  <2>2. /\ fr2[Len(frames)].sub = frames[Len(frames)].sub
        /\ fr2[Len(frames)].array = frames[Len(frames)].array
        /\ fr2[Len(frames)].host = frames[Len(frames)].host
        /\ Linked(fr2[Len(frames)], e)
        /\ FrameOK(small, build, fr2[Len(frames)], arrays[frames[Len(frames)].array])
        /\ SlotsOK(build, fr2[Len(frames)], arrays[frames[Len(frames)].array])
    BY <1>2, <1>7, <1>11, <1>12, <1>13
  <2>3. Len(frames) < MaxDepth
    BY <1>2, <1>14
  <2>4. /\ fr2 \in Seq(Frame) /\ Len(fr2) = Len(frames) + 1 /\ fr2[Len(frames) + 1] = e
        /\ e.phase = "enter" /\ \A m \in 1 .. Len(frames) - 1 : fr2[m] = frames[m]
        /\ arrays \in Seq(ArraySet) /\ Good(small, build, frames, arrays, calls) /\ build \in Builds
    BY <1>2, <1>6, <1>10, <1>11, <1>14
  <2>5. Len(frames) # 0
    <3>1. Len(frames) >= 1
      BY <1>1, <1>2, TopFacts
    <3> QED
      BY <3>1
  <2> HIDE DEF c
  <2> QED
    BY <1>15, <2>1, <2>2, <2>3, <2>4, <2>5, FramePushed
<1>17. CallsInv(small)'
  BY <1>8, <1>14, <1>16 DEF CallsInv
<1> QED
  BY <1>1, <1>6, <1>7, <1>8, <1>17, KeptFacts DEF fr2

LEMMA VmCallGood ==
  ASSUME NEW small \in SUBSET Subs, Supports(small), CallsInv(small), VmCall
  PROVE  CallsInv(small)' /\ frames # <<>> /\ Above
<1> DEFINE c == Statement(Top).callee
<1>1. /\ Pushed /\ build[Top.sub] = "vm" /\ frames # <<>> /\ Top.phase = "push"
      /\ UNCHANGED <<build, arrays, overrun>>
  BY DEF VmCall, Pushed, InPhase
<1>2. /\ Top \in Frame /\ FrameOK(small, build, Top, Slots(Top)) /\ build \in Builds
  BY <1>1, TopFacts DEF CallsInv, Good
<1>3. Top.sub \in Subs /\ Top.at \in DOMAIN Body[Top.sub] /\ Body[Top.sub][Top.at].op = "call"
  BY <1>1, <1>2, FrameFacts DEF FrameOK
<1>4. VmHasCase(CallOpcode(Statement(Top)))
  BY <1>1, <1>2, <1>3 DEF Supports, Statement
<1>5. Top.top - ArgsAllocLength(c) = 0
  <2>1. c \in Subs
    BY <1>3, StatementFacts DEF Statement
  <2>2. AllocLength(Args[c]) < ByteValues /\ AllocLength(Args[c]) \in Nat
    BY <2>1, SlotFacts DEF Supports
  <2>3. \A n \in Nat : n < 256 => n - (n % 256) = 0
    OBVIOUS
  <2>4. AllocLength(Args[c]) - ArgsAllocLength(c) = 0
    BY <2>2, <2>3 DEF ArgsAllocLength, ByteValues
  <2> QED
    BY <1>1, <2>4, GivenFacts
<1>6. CallSub(Top, 0)
  BY <1>4, <1>5 DEF VmCall
<1> QED
  BY <1>1, <1>6, CallSubGood

LEMMA PrecompiledCallGood ==
  ASSUME NEW small \in SUBSET Subs, Supports(small), CallsInv(small), PrecompiledCall
  PROVE  CallsInv(small)' /\ frames # <<>> /\ Above
BY CallSubGood DEF PrecompiledCall

LEMMA NoWords ==
  ASSUME NEW slots \in ArraySet
  PROVE  /\ <<>> \in [{} -> SlotSet] /\ {} \subseteq DOMAIN slots /\ DOMAIN <<>> = {}
OBVIOUS

(* RETURN: the value is in the first slots of the stack.                   *)
LEMMA ReturnGood ==
  ASSUME NEW small \in SUBSET Subs, Supports(small), CallsInv(small), NEW k, Return(k)
  PROVE  CallsInv(small)' /\ frames # <<>> /\ TopOnly
<1> DEFINE s == Top.sub
           st == Body[s][k]
           t == Returned[s]
           sl == Slots(Top)
           ws == IF t.form = "void" THEN <<>>
                 ELSE IF build[s] = "vm" THEN VmReturn(Top, st.out) ELSE PrecompiledReturn(Top, st.out)
           res == [j \in DOMAIN ws |-> ws[j].word]
           g == [Top EXCEPT !.phase = "leave", !.at = k, !.result = res]
<1>1. /\ frames # <<>> /\ Top.phase = "run" /\ k \in DOMAIN Body[s] /\ st.op = "return"
      /\ arrays' = [arrays EXCEPT ![Top.array] = Write(@, ws)]
      /\ overrun' = (overrun \/ Beyond(sl, ws)) /\ frames' = WithTop(g) /\ UNCHANGED <<build, calls>>
  BY DEF Return, InPhase
<1>2. Top \in Frame /\ sl \in ArraySet /\ FrameOK(small, build, Top, sl)
  BY <1>1, TopFacts
<1>3. /\ s \in Subs /\ HasRoom(small, s, sl) /\ Top.regs \in [Regs(build, s) -> Words3] /\ Top.top = 0
  BY <1>1, <1>2, FrameFacts DEF FrameOK
<1>4. k \in Nat /\ t \in Type /\ ReturnAgrees(s, st)
  BY <1>1, <1>3, StatementFacts, SubFacts
<1> HIDE DEF ws, g, res
<1>5. \E D : /\ ws \in [D -> SlotSet] /\ D \subseteq DOMAIN sl
             /\ res \in WordsOn(Nat)
             /\ t.form # "void" => res = ReadAt(Write(sl, ws), 0, t)
  <2>1. CASE t.form = "void"
    <3>1. ws = <<>>
      BY <2>1 DEF ws
    <3>2. /\ ws \in [{} -> SlotSet] /\ {} \subseteq DOMAIN sl /\ DOMAIN ws = {}
      BY <1>2, <3>1, NoWords
    <3>3. res \in [{} -> Words3]
      BY <3>2 DEF res
    <3>4. res \in WordsOn(Nat)
      BY <3>3, WordsOnFacts
    <3> QED
      BY <2>1, <3>2, <3>4
  <2>2. CASE t.form # "void"
    <3> DEFINE my == st.out
               v == Picked(build, Top, my)
               J == 0 .. Width(t) - 1
    <3>1. Agrees(s, my, t) /\ Width(t) \in Nat
      BY <1>4, <2>2, TypeFacts DEF ReturnAgrees
    <3>2. v \in [J -> Words3] /\ v \in WordsOn(Nat)
      BY <1>3, <1>4, <3>1, PickedFacts
    <3>3. ws = At(0, [j \in J |-> Slot(Bank(t), IF my = 0 THEN Undef ELSE Val(build, Top, my)[j])])
      BY <2>2, Translate DEF ws, VmReturn, PrecompiledReturn, ResultWords
    <3>4. \A j \in J : (IF my = 0 THEN Undef ELSE Val(build, Top, my)[j]) = v[j]
      <4>1. CASE my = 0
        <5>1. \A j \in J : v[j] = Undef
          BY <1>3, <1>4, <3>1, <4>1, PickedFacts
        <5> HIDE DEF v, my
        <5> QED
          BY <4>1, <5>1
      <4>2. CASE my # 0
        <5>1. v = Val(build, Top, my)
          BY <1>3, <1>4, <3>1, <4>2, PickedFacts
        <5> HIDE DEF v, my
        <5> QED
          BY <4>2, <5>1
      <4> QED
        BY <4>1, <4>2
    <3>5. ws = Put(0, t, v)
      <4> HIDE DEF v, my
      <4> QED
        BY <3>3, <3>4 DEF Put
    <3>6. \A j \in J : j \in DOMAIN sl
      <4>1. J \subseteq DOMAIN sl
        BY <1>3, <2>2, RoomFacts
      <4> HIDE DEF sl
      <4> QED
        BY <4>1
    <3>10. sl \in ArraySet /\ t \in Type /\ v \in [0 .. Width(t) - 1 -> Words3]
      BY <1>2, <1>4, <3>2
    <3> HIDE DEF v, t, sl, s
    <3>9. ASSUME NEW z \in Nat, \A j \in J : z + j \in DOMAIN sl
          PROVE  /\ Put(z, t, v) \in [Span(z, t) -> SlotSet] /\ Span(z, t) \subseteq DOMAIN sl
                 /\ DOMAIN Put(z, t, v) = Span(z, t)
                 /\ ReadAt(Write(sl, Put(z, t, v)), z, t) = v
                 /\ \A j \in J : Put(z, t, v)[z + j].word = v[j]
      <4>1. /\ Put(z, t, v) \in [Span(z, t) -> SlotSet] /\ Span(z, t) \subseteq DOMAIN sl
            /\ DOMAIN Put(z, t, v) = Span(z, t)
            /\ ReadAt(Write(sl, Put(z, t, v)), z, t) = v
        BY <3>9, <3>10, PlacedFacts
      <4>2. \A j \in J : Put(z, t, v)[z + j].word = v[j]
        BY <3>9, <3>10, PlacedFacts
      <4> QED
        BY <4>1, <4>2
    <3>7. ASSUME NEW z \in Nat, z = 0
          PROVE  /\ ws \in [J -> SlotSet] /\ J \subseteq DOMAIN sl /\ DOMAIN ws = J
                 /\ ReadAt(Write(sl, ws), z, t) = v
                 /\ \A j \in J : ws[j].word = v[j]
      <4>1. \A j \in J : z + j = j
        BY <3>1, <3>7
      <4>2. \A j \in J : z + j \in DOMAIN sl
        BY <3>6, <4>1
      <4>3. Span(z, t) = J
        BY <4>1 DEF Span
      <4>4. ws = Put(z, t, v)
        BY <3>5, <3>7
      <4> HIDE DEF J
      <4>5. \A j \in J : ws[j].word = v[j]
        BY <3>9, <4>1, <4>2, <4>4
      <4> QED
        BY <3>9, <4>2, <4>3, <4>4, <4>5
    <3>8. /\ ws \in [J -> SlotSet] /\ J \subseteq DOMAIN sl /\ DOMAIN ws = J
          /\ ReadAt(Write(sl, ws), 0, t) = v
          /\ \A j \in J : ws[j].word = v[j]
      <4> HIDE DEF J
      <4>1. 0 \in Nat
        OBVIOUS
      <4> QED
        BY <3>7, <4>1
    <3> HIDE DEF J
    <3>11. res = v
      BY <3>2, <3>8 DEF res
    <3> QED
      BY <3>2, <3>8, <3>11
  <2> QED
    BY <2>1, <2>2
<1>6. /\ g \in Frame /\ g.sub = s /\ g.array = Top.array /\ g.host = Top.host /\ g.phase = "leave"
      /\ g.at = k /\ g.top = Top.top /\ g.regs = Top.regs /\ g.result = res
  <2>1. res \in WordsOn(Nat)
    BY <1>5
  <2> QED
    BY <1>2, <1>4, <2>1 DEF g, Frame, Phases
<1>7. FrameOK(small, build, g, sl)
  BY <1>1, <1>2, <1>3, <1>6 DEF FrameOK
<1>8. SlotsOK(build, g, Write(sl, ws))
  BY <1>5, <1>6 DEF SlotsOK, Answered
<1>9. CallsInv(small)'
  BY <1>1, <1>5, <1>6, <1>7, <1>8, TopWrites
<1> QED
  BY <1>1, <1>6, <1>9, KeptFacts

(* The copy of a result changes one variable.                              *)
LEMMA TakeFacts ==
  ASSUME NEW f, f.sub \in Subs, f.regs \in [Regs(build, f.sub) -> Words3],
         NEW my \in DOMAIN Mys(f.sub), NEW slots \in ArraySet
  PROVE  /\ VmTakeResult(f, slots, my) \in [Regs(build, f.sub) -> Words3]
         /\ \A j \in Words(f.sub, my) :
              VmTakeResult(f, slots, my)[Reg(build, f.sub, my, j)] = Read(slots, j, Bank(Mys(f.sub)[my]))
         /\ \A i \in DOMAIN Mys(f.sub) : i # my => \A j \in Words(f.sub, i) :
              VmTakeResult(f, slots, my)[Reg(build, f.sub, i, j)] = f.regs[Reg(build, f.sub, i, j)]
<1> DEFINE s == f.sub
           b == Bank(Mys(s)[my])
           R == Regs(build, s)
           J == Words(s, my)
           r(j) == Reg(build, s, my, j)
           T(x) == IF \E j \in J : r(j) = x THEN Read(slots, CHOOSE j \in J : r(j) = x, b) ELSE f.regs[x]
<1>1. VmTakeResult(f, slots, my) = [x \in R |-> T(x)]
  <2>1. DOMAIN f.regs = R
    OBVIOUS
  <2>2. \A j : Register(s, my, j) = r(j)
    BY Translate
  <2> QED
    BY <2>1, <2>2 DEF VmTakeResult
<1>2. \A x \in R : T(x) \in Words3
  BY ReadFacts
<1>3. \A i \in DOMAIN Mys(s) : \A j \in Words(s, i) : Reg(build, s, i, j) \in R
  BY RegFacts
<1>4. ASSUME NEW j \in J PROVE T(r(j)) = Read(slots, j, b)
  <2>1. \A l \in J : r(l) = r(j) => l = j
    BY RegistersApart
  <2> HIDE DEF r, J
  <2>2. (CHOOSE l \in J : r(l) = r(j)) = j
    BY <2>1
  <2> QED
    BY <2>2
<1>5. ASSUME NEW i \in DOMAIN Mys(s), i # my, NEW j \in Words(s, i)
      PROVE  T(Reg(build, s, i, j)) = f.regs[Reg(build, s, i, j)]
  <2>1. \A l \in J : r(l) # Reg(build, s, i, j)
    BY <1>5, RegistersApart
  <2> HIDE DEF r, J
  <2> QED
    BY <2>1
<1> HIDE DEF T
<1>6. VmTakeResult(f, slots, my) \in [R -> Words3]
  BY <1>1, <1>2
<1> QED
  BY <1>1, <1>3, <1>4, <1>5, <1>6

LEMMA CallerFacts ==
  ASSUME NEW small, CallsInv(small), frames # <<>>, ~Top.host
  PROVE  /\ Depth # 1 /\ Depth - 1 \in 1 .. Len(frames) /\ Caller = frames[Depth - 1] /\ Caller \in Frame
         /\ Caller.phase = "wait" /\ Caller.array = Top.array
         /\ Caller.sub \in Subs /\ Caller.at \in DOMAIN Body[Caller.sub]
         /\ Body[Caller.sub][Caller.at].op = "call" /\ Body[Caller.sub][Caller.at].callee = Top.sub
         /\ Caller.regs \in [Regs(build, Caller.sub) -> Words3] /\ Caller.top = 0
         /\ FrameOK(small, build, Caller, Slots(Top))
<1>1. /\ frames \in Seq(Frame) /\ Depth \in Nat /\ Depth >= 1 /\ Depth = Len(frames)
      /\ Top = frames[Depth] /\ Slots(Top) = arrays[Top.array]
  BY TopFacts
<1>2. Depth # 1
  BY <1>1 DEF CallsInv, Good
<1>3. Depth - 1 \in 1 .. Len(frames) /\ Depth \in 2 .. Len(frames) /\ Caller = frames[Depth - 1]
  BY <1>1, <1>2 DEF Caller
<1>4. Linked(frames[Depth - 1], frames[Depth])
  BY <1>3 DEF CallsInv, Good
<1>5. FrameOK(small, build, frames[Depth - 1], arrays[frames[Depth - 1].array])
  BY <1>3 DEF CallsInv, Good
<1>6. Caller \in Frame
  BY <1>1, <1>3
<1>7. /\ Caller.phase = "wait" /\ Caller.array = Top.array
      /\ Body[Caller.sub][Caller.at].callee = Top.sub
  BY <1>1, <1>3, <1>4 DEF Linked
<1>8. FrameOK(small, build, Caller, Slots(Top))
  BY <1>1, <1>3, <1>5, <1>7
<1>9. Caller.sub \in Subs
  BY <1>6, FrameFacts
<1> QED
  BY <1>2, <1>3, <1>6, <1>7, <1>8, <1>9 DEF FrameOK

(* The caller goes on.                                                     *)
LEMMA ResumeFacts ==
  ASSUME NEW small, CallsInv(small), frames # <<>>, ~Top.host, Top.phase = "leave"
  PROVE  LET f == Caller
             my == Body[f.sub][f.at].out
             g == Resume(f, Top.exc, Slots(Top))
         IN  /\ g \in Frame /\ g.sub = f.sub /\ g.at = f.at /\ g.array = f.array /\ g.host = f.host
             /\ g.phase \in {"run", "leave"}
             /\ FrameOK(small, build, g, Slots(Top)) /\ SlotsOK(build, g, Slots(Top))
             /\ Top.exc \/ my = 0 => g.regs = f.regs
             /\ ~Top.exc /\ my # 0 => /\ my \in DOMAIN Mys(f.sub)
                                      /\ g.regs = VmTakeResult(f, Slots(Top), my)
<1> DEFINE f == Caller
           my == Body[f.sub][f.at].out
           sl == Slots(Top)
           g == Resume(f, Top.exc, sl)
           T == VmTakeResult(f, sl, my)
<1>1. /\ f \in Frame /\ f.sub \in Subs /\ f.at \in DOMAIN Body[f.sub] /\ Body[f.sub][f.at].op = "call"
      /\ f.regs \in [Regs(build, f.sub) -> Words3] /\ f.top = 0 /\ f.phase = "wait"
      /\ FrameOK(small, build, f, sl)
  BY CallerFacts
<1>2. sl \in ArraySet
  BY TopFacts
<1>3. my # 0 => my \in DOMAIN Mys(f.sub)
  BY <1>1, CallFacts
<1>4. g = IF Top.exc
            THEN IF Body[f.sub][f.at].catch THEN [f EXCEPT !.phase = "run"]
                 ELSE [f EXCEPT !.phase = "leave", !.exc = TRUE]
            ELSE IF my = 0 THEN [f EXCEPT !.phase = "run"] ELSE [f EXCEPT !.phase = "run", !.regs = T]
  BY DEF Resume, VmIfException, PrecompiledIfException, PrecompiledTakeResult, Statement
<1> HIDE DEF f, my, sl, g, T
<1>5. CASE (Top.exc /\ Body[f.sub][f.at].catch) \/ (~Top.exc /\ my = 0)
  <2>1. g = [f EXCEPT !.phase = "run"]
    BY <1>4, <1>5
  <2>2. /\ g \in Frame /\ g.sub = f.sub /\ g.at = f.at /\ g.array = f.array /\ g.host = f.host
        /\ g.phase = "run" /\ g.regs = f.regs /\ g.top = f.top
    BY <1>1, <2>1 DEF Frame, Phases
  <2>3. FrameOK(small, build, g, sl) /\ SlotsOK(build, g, sl)
    BY <1>1, <2>2 DEF FrameOK, SlotsOK
  <2> QED
    BY <1>5, <2>2, <2>3 DEF f, my, sl, g
<1>6. CASE Top.exc /\ ~Body[f.sub][f.at].catch
  <2>1. g = [f EXCEPT !.phase = "leave", !.exc = TRUE]
    BY <1>4, <1>6
  <2>2. /\ g \in Frame /\ g.sub = f.sub /\ g.at = f.at /\ g.array = f.array /\ g.host = f.host
        /\ g.phase = "leave" /\ g.exc = TRUE /\ g.regs = f.regs /\ g.top = f.top
    BY <1>1, <2>1 DEF Frame, Phases
  <2>3. FrameOK(small, build, g, sl) /\ SlotsOK(build, g, sl)
    BY <1>1, <2>2 DEF FrameOK, SlotsOK
  <2> QED
    BY <1>6, <2>2, <2>3 DEF f, my, sl, g
<1>7. CASE ~Top.exc /\ my # 0
  <2>1. g = [f EXCEPT !.phase = "run", !.regs = T]
    BY <1>4, <1>7
  <2>2. T \in [Regs(build, f.sub) -> Words3]
    BY <1>1, <1>2, <1>3, <1>7, TakeFacts DEF T
  <2>3. T \in WordsOn(RegIds)
    BY <1>1, <2>2, RegFacts, WordsOnFacts
  <2>4. /\ g \in Frame /\ g.sub = f.sub /\ g.at = f.at /\ g.array = f.array /\ g.host = f.host
        /\ g.phase = "run" /\ g.regs = T /\ g.top = f.top
    BY <1>1, <2>1, <2>3 DEF Frame, Phases
  <2>5. FrameOK(small, build, g, sl) /\ SlotsOK(build, g, sl)
    BY <1>1, <2>2, <2>4 DEF FrameOK, SlotsOK
  <2> QED
    BY <1>3, <1>7, <2>4, <2>5 DEF f, my, sl, g, T
<1> QED
  BY <1>5, <1>6, <1>7

LEMMA SubSeqFacts ==
  ASSUME NEW S, NEW q \in Seq(S), NEW n \in 0 .. Len(q)
  PROVE  /\ SubSeq(q, 1, n) \in Seq(S) /\ Len(SubSeq(q, 1, n)) = n
         /\ \A m \in 1 .. n : SubSeq(q, 1, n)[m] = q[m]
OBVIOUS

LEMMA EndSubGood ==
  ASSUME NEW small, CallsInv(small), EndSub
  PROVE  /\ CallsInv(small)' /\ frames # <<>> /\ ~Top.host /\ Top.phase = "leave"
         /\ frames' \in Seq(Frame) /\ Len(frames') = Depth - 1
         /\ frames'[Depth - 1] = Resume(Caller, Top.exc, Slots(Top))
         /\ \A m \in 1 .. Depth - 2 : frames'[m] = frames[m]
<1> DEFINE n == Depth - 1
           q == SubSeq(frames, 1, n)
           g == Resume(Caller, Top.exc, Slots(Top))
           fr2 == [q EXCEPT ![n] = g]
<1>1. /\ frames # <<>> /\ Top.phase = "leave" /\ ~Top.host /\ UNCHANGED <<build, arrays, overrun, calls>>
      /\ frames' = [q EXCEPT ![n] = Resume(@, Top.exc, Slots(Top))]
  BY DEF EndSub, InPhase
<1>2. /\ frames \in Seq(Frame) /\ arrays \in Seq(ArraySet) /\ Depth = Len(frames) /\ Depth \in Nat
      /\ Top.array = Len(arrays) /\ Slots(Top) = arrays[Top.array]
      /\ n \in 1 .. Len(frames) /\ Depth # 1 /\ Caller = frames[n] /\ Caller.array = Top.array
  BY <1>1, TopFacts, CallerFacts
<1>3. n \in 0 .. Len(frames) /\ n \in 1 .. n /\ n = Len(frames) - 1 /\ n - 1 = Len(frames) - 2
  BY <1>2
<1>4. /\ g \in Frame /\ g.sub = Caller.sub /\ g.array = Caller.array /\ g.host = Caller.host
      /\ g.phase \in {"run", "leave"} /\ FrameOK(small, build, g, Slots(Top)) /\ SlotsOK(build, g, Slots(Top))
  BY <1>1, ResumeFacts
<1>5. q \in Seq(Frame) /\ Len(q) = n /\ \A m \in 1 .. n : q[m] = frames[m]
  BY <1>2, <1>3, SubSeqFacts
<1> HIDE DEF q, n, g
<1>6. frames' = [q EXCEPT ![n] = g]
  <2>1. q[n] = Caller
    BY <1>2, <1>3, <1>5
  <2> QED
    BY <1>1, <2>1 DEF g
<1>7. fr2 \in Seq(Frame) /\ Len(fr2) = n /\ fr2[n] = g /\ \A m \in 1 .. n : m # n => fr2[m] = q[m]
  BY <1>3, <1>4, <1>5, PutFacts
<1> HIDE DEF fr2
<1>8. \A m \in 1 .. n - 1 : fr2[m] = frames[m]
  <2>1. \A m \in 1 .. n - 1 : m \in 1 .. n /\ m # n
    BY <1>3
  <2> QED
    BY <1>5, <1>7, <2>1
<1>9. Good(small, build, fr2, arrays, calls)
  <2>1. /\ Len(fr2) = Len(frames) - 1 /\ \A m \in 1 .. Len(frames) - 2 : fr2[m] = frames[m]
    BY <1>3, <1>7, <1>8
  <2>2. Len(arrays) = (IF Len(frames) = 1 THEN 0 ELSE frames[Len(frames) - 1].array)
    BY <1>2, <1>3
  <2>3. /\ fr2[Len(frames) - 1].sub = frames[Len(frames) - 1].sub
        /\ fr2[Len(frames) - 1].array = frames[Len(frames) - 1].array
        /\ fr2[Len(frames) - 1].host = frames[Len(frames) - 1].host
        /\ fr2[Len(frames) - 1].phase \in {"run", "leave"}
        /\ FrameOK(small, build, fr2[Len(frames) - 1], arrays[frames[Len(frames) - 1].array])
        /\ SlotsOK(build, fr2[Len(frames) - 1], arrays[frames[Len(frames) - 1].array])
    BY <1>2, <1>3, <1>4, <1>7
  <2>4. Good(small, build, frames, arrays, calls)
    BY DEF CallsInv
  <2> QED
    BY <1>1, <1>2, <1>7, <2>1, <2>2, <2>3, <2>4, FramePopped
<1>10. CallsInv(small)'
  BY <1>1, <1>6, <1>9 DEF CallsInv, fr2
<1>11. n - 1 = Depth - 2 /\ n = Depth - 1
  BY <1>2, <1>3
<1> QED
  BY <1>1, <1>6, <1>7, <1>8, <1>10, <1>11 DEF fr2, g

LEMMA EndHostGood ==
  ASSUME NEW small, CallsInv(small), EndHost
  PROVE  /\ CallsInv(small)' /\ frames # <<>> /\ Top.host
         /\ Len(frames') = Depth - 1 /\ \A m \in 1 .. Depth - 1 : frames'[m] = frames[m]
<1> DEFINE n == Depth - 1
           q == SubSeq(frames, 1, n)
           l == IF Depth = 1 THEN 0 ELSE Caller.array
           a2 == SubSeq(arrays, 1, l)
<1>1. /\ frames # <<>> /\ Top.phase = "leave" /\ Top.host /\ UNCHANGED <<build, overrun, calls>>
      /\ frames' = q /\ arrays' = a2
  BY DEF EndHost, InPhase
<1>2. /\ frames \in Seq(Frame) /\ arrays \in Seq(ArraySet) /\ Depth = Len(frames) /\ Depth \in Nat
      /\ Depth >= 1 /\ Top = frames[Depth] /\ Len(arrays) \in Nat
  BY <1>1, TopFacts
<1>3. n \in 0 .. Len(frames) /\ n = Len(frames) - 1 /\ Len(frames) - 2 = n - 1
  BY <1>2
<1>4. ASSUME Depth # 1
      PROVE  /\ n \in 1 .. Len(frames) /\ Caller = frames[n] /\ Caller.phase \in {"run", "leave"}
             /\ Caller.array \in 1 .. Len(arrays)
             /\ FrameOK(small, build, Caller, arrays[Caller.array])
             /\ SlotsOK(build, Caller, arrays[Caller.array])
  <2>1. n \in 1 .. Len(frames) /\ Depth \in 2 .. Len(frames) /\ Caller = frames[n]
    BY <1>2, <1>4 DEF Caller
  <2>2. Linked(frames[Depth - 1], frames[Depth])
    BY <2>1 DEF CallsInv, Good
  <2>3. Caller.phase \in {"run", "leave"}
    BY <1>1, <1>2, <2>1, <2>2 DEF Linked
  <2> HIDE DEF n
  <2> QED
    BY <2>1, <2>3 DEF CallsInv, Good
<1>5. l \in 0 .. Len(arrays)
  BY <1>2, <1>4
<1>6. q \in Seq(Frame) /\ Len(q) = n /\ \A m \in 1 .. n : q[m] = frames[m]
  BY <1>2, <1>3, SubSeqFacts
<1> HIDE DEF l, n
<1>7. a2 \in Seq(ArraySet) /\ Len(a2) = l /\ \A m \in 1 .. l : a2[m] = arrays[m]
  BY <1>2, <1>5, SubSeqFacts
<1> HIDE DEF q, a2
<1>8. Good(small, build, q, a2, calls)
  <2>1. /\ Len(q) = Len(frames) - 1 /\ \A m \in 1 .. Len(frames) - 2 : q[m] = frames[m]
    <3>1. \A m \in 1 .. n - 1 : m \in 1 .. n
      BY <1>3
    <3> QED
      BY <1>3, <1>6, <3>1
  <2>2. Len(a2) = (IF Len(frames) = 1 THEN 0 ELSE frames[Len(frames) - 1].array)
    BY <1>2, <1>3, <1>4, <1>7 DEF l
  <2>3. \A m \in 1 .. Len(a2) : a2[m] = arrays[m]
    BY <1>7
  <2>4. Len(frames) # 1 =>
        /\ q[Len(frames) - 1].sub = frames[Len(frames) - 1].sub
        /\ q[Len(frames) - 1].array = frames[Len(frames) - 1].array
        /\ q[Len(frames) - 1].host = frames[Len(frames) - 1].host
        /\ q[Len(frames) - 1].phase \in {"run", "leave"}
        /\ FrameOK(small, build, q[Len(frames) - 1], arrays[frames[Len(frames) - 1].array])
        /\ SlotsOK(build, q[Len(frames) - 1], arrays[frames[Len(frames) - 1].array])
    <3> SUFFICES ASSUME Len(frames) # 1
                 PROVE  q[n] = frames[n] /\ frames[n] = Caller
      BY <1>2, <1>3, <1>4
    <3>1. n \in 1 .. n
      BY <1>2, <1>3, <1>4
    <3> QED
      BY <1>2, <1>4, <1>6, <3>1
  <2>5. Good(small, build, frames, arrays, calls)
    BY DEF CallsInv
  <2> QED
    BY <1>1, <1>6, <1>7, <2>1, <2>2, <2>3, <2>4, <2>5, FramePopped
<1>9. CallsInv(small)'
  BY <1>1, <1>8 DEF CallsInv
<1> QED
  BY <1>1, <1>6, <1>9 DEF n

LEMMA OneFacts ==
  ASSUME NEW S, NEW e \in S
  PROVE  <<e>> \in Seq(S) /\ Len(<<e>>) = 1 /\ <<e>>[1] = e
OBVIOUS

LEMMA HostGood ==
  ASSUME NEW small \in SUBSET Subs, Supports(small), CallsInv(small), NEW s \in Subs, Host(s)
  PROVE  CallsInv(small)' /\ frames = <<>>
<1> DEFINE a == NewArray(StackSize)
           e == EnterFrame(s, 1, TRUE, <<>>)
           fr2 == <<e>>
           ar2 == <<a>>
<1>1. /\ frames = <<>> /\ calls < MaxCalls /\ s \in Entries /\ arrays' = ar2 /\ frames' = fr2
      /\ calls' = calls + 1 /\ UNCHANGED <<build, overrun>>
  BY DEF Host
<1>2. a \in ArraySet /\ DOMAIN a = 0 .. StackSize - 1
  <2>1. Slot("object", Undef) \in SlotSet
    BY WordFacts DEF Slot, SlotSet, Banks
  <2> QED
    BY <2>1 DEF NewArray, ArraySet
<1>3. HasRoom(small, s, a)
  BY <1>2 DEF HasRoom
<1>4. Args[s] = <<>>
  BY <1>1, ProgramAssumption
<1>5. DOMAIN Args[s] = {}
  BY <1>4
<1>6. <<>> \in Seq(WordsOn(Nat)) /\ 1 \in Nat /\ TRUE \in BOOLEAN
  OBVIOUS
<1> HIDE DEF a
<1>7. /\ e \in Frame /\ e.sub = s /\ e.array = 1 /\ e.host = TRUE /\ e.phase = "enter"
      /\ FrameOK(small, build, e, a) /\ SlotsOK(build, e, a)
  BY <1>3, <1>5, <1>6, EnterFacts
<1> HIDE DEF e
<1>8. fr2 \in Seq(Frame) /\ Len(fr2) = 1 /\ fr2[1] = e
  BY <1>7, OneFacts
<1>9. ar2 \in Seq(ArraySet) /\ Len(ar2) = 1 /\ ar2[1] = a
  BY <1>2, OneFacts
<1>10. /\ Good(small, build, frames, arrays, calls) /\ ~overrun /\ build \in Builds
       /\ arrays = <<>> /\ calls \in 0 .. MaxCalls
  BY <1>1 DEF CallsInv, Good
<1>11. calls + 1 \in 0 .. MaxCalls /\ 0 < MaxDepth
  BY <1>1, <1>10, ProgramAssumption
<1>12. Len(frames) = 0 /\ Len(arrays) = 0
  BY <1>1, <1>10
<1> HIDE DEF fr2, ar2
<1>13. Good(small, build, fr2, ar2, calls + 1)
  <2>1. /\ Len(fr2) = Len(frames) + 1 /\ fr2[Len(frames) + 1] = e /\ e.array = Len(ar2)
        /\ e.array \in 1 .. Len(ar2) /\ Len(arrays) <= Len(ar2) /\ Len(frames) < MaxDepth
        /\ FrameOK(small, build, e, ar2[e.array]) /\ SlotsOK(build, e, ar2[e.array])
    BY <1>7, <1>8, <1>9, <1>11, <1>12
  <2>2. /\ \A m \in 1 .. Len(frames) - 1 : fr2[m] = frames[m]
        /\ \A m \in 1 .. Len(arrays) : ar2[m] = arrays[m]
    BY <1>12
  <2>3. e.host /\ e.phase = "enter" /\ fr2 \in Seq(Frame) /\ ar2 \in Seq(ArraySet)
    BY <1>7, <1>8, <1>9
  <2>4. Good(small, build, frames, arrays, calls) /\ build \in Builds
    BY <1>10
  <2> QED
    BY <1>11, <1>12, <2>1, <2>2, <2>3, <2>4, FramePushed
<1> QED
  BY <1>1, <1>10, <1>13 DEF CallsInv

LEMMA DestroyGood ==
  ASSUME NEW small \in SUBSET Subs, Supports(small), CallsInv(small), NEW s \in Subs, Destroy(s)
  PROVE  CallsInv(small)' /\ frames # <<>> /\ Above
<1> DEFINE self == Word(Depth, 0, 0)
           a == [n \in {0} |-> Slot("object", self)]
           l == Len(arrays) + 1
           v == [j \in {0} |-> self]
           e == EnterFrame(s, l, TRUE, <<v>>)
           fr2 == Append(frames, e)
           ar2 == Append(arrays, a)
<1>1. /\ frames # <<>> /\ Top.phase \in {"run", "leave"} /\ s \in Destroys
      /\ Depth < MaxDepth /\ calls < MaxCalls /\ arrays' = ar2 /\ frames' = fr2
      /\ calls' = calls + 1 /\ UNCHANGED <<build, overrun>>
  BY DEF Destroy
<1>2. /\ frames \in Seq(Frame) /\ arrays \in Seq(ArraySet) /\ Depth = Len(frames) /\ Depth \in 0 .. MaxDepth
      /\ Top = frames[Len(frames)] /\ Top.array = Len(arrays) /\ Top.array \in 1 .. Len(arrays)
      /\ Slots(Top) = arrays[Top.array] /\ Len(frames) \in Nat /\ Len(arrays) \in Nat
      /\ FrameOK(small, build, Top, Slots(Top)) /\ SlotsOK(build, Top, Slots(Top))
  BY <1>1, TopFacts
<1>3. self \in Words3
  BY <1>2, WordFacts
<1> HIDE DEF self
<1>4. a \in ArraySet /\ DOMAIN a = 0 .. 0 /\ a[0] = Slot("object", self)
  <2>1. Slot("object", self) \in SlotSet
    BY <1>3 DEF Slot, SlotSet, Banks
  <2>2. {0} = 0 .. 0
    OBVIOUS
  <2> QED
    BY <2>1, <2>2 DEF ArraySet
<1>5. HasRoom(small, s, a)
  BY <1>1, <1>4 DEF HasRoom, Supports
<1>6. v \in WordsOn(Nat)
  <2>1. v \in [{0} -> Words3] /\ {0} \in SUBSET Nat
    BY <1>3
  <2> HIDE DEF v
  <2> QED
    BY <2>1, WordsOnFacts
<1>7. Len(Args[s]) = 1 /\ DOMAIN Args[s] = {1} /\ Args[s][1].form = "object"
  <2>1. Len(Args[s]) = 1 /\ Args[s][1].form = "object"
    BY <1>1, ProgramAssumption
  <2>2. DOMAIN Args[s] = 1 .. 1 /\ 1 .. 1 = {1}
    BY <2>1, SubFacts
  <2> QED
    BY <2>1, <2>2
<1>8. \A i \in DOMAIN Args[s] : <<v>>[i] = ReadAt(a, SlotOfArg(s, i), Args[s][i])
  <2> DEFINE t == Args[s][1]
  <2>1. Width(t) = 1 /\ Bank(t) = "object"
    BY <1>7 DEF Width, Bank
  <2>2. SlotOfArg(s, 1) = 0
    <3>1. \A i \in 1 .. Len(Args[s]) : SlotOfArg(s, i) = Sums(Widths(Args[s]))[i - 1]
      BY SlotFacts
    <3>2. Sums(Widths(Args[s]))[0] = 0 /\ 1 \in 1 .. Len(Args[s]) /\ 1 - 1 = 0
      BY <1>7, SlotFacts
    <3> QED
      BY <3>1, <3>2
  <2> HIDE DEF t
  <2>3. ReadAt(a, 0, t) = [j \in 0 .. Width(t) - 1 |-> Read(a, 0 + j, Bank(t))]
    BY DEF ReadAt
  <2> HIDE DEF a
  <2>4. Read(a, 0, "object") = self
    BY <1>4 DEF Read, Slot
  <2>5. 0 .. Width(t) - 1 = {0}
    BY <2>1
  <2>6. \A j \in {0} : Read(a, 0 + j, Bank(t)) = self
    BY <2>1, <2>4
  <2>7. ReadAt(a, 0, t) = v
    BY <2>3, <2>5, <2>6
  <2> HIDE DEF v
  <2>8. <<v>>[1] = v
    OBVIOUS
  <2> QED
    BY <1>7, <2>2, <2>7, <2>8 DEF t
<1>9. <<v>> \in Seq(WordsOn(Nat)) /\ l \in Nat /\ TRUE \in BOOLEAN
  BY <1>2, <1>6, OneFacts
<1> HIDE DEF a, v
<1>10. /\ e \in Frame /\ e.sub = s /\ e.array = l /\ e.host = TRUE /\ e.phase = "enter"
       /\ FrameOK(small, build, e, a) /\ SlotsOK(build, e, a)
  <2> HIDE DEF l
  <2> QED
    BY <1>5, <1>8, <1>9, EnterFacts
<1> HIDE DEF e
<1>11. /\ fr2 \in Seq(Frame) /\ Len(fr2) = Len(frames) + 1 /\ fr2[Len(frames) + 1] = e
       /\ \A m \in 1 .. Len(frames) : fr2[m] = frames[m]
  BY <1>2, <1>10, AppendFacts
<1>12. /\ ar2 \in Seq(ArraySet) /\ Len(ar2) = l /\ ar2[l] = a
       /\ \A m \in 1 .. Len(arrays) : ar2[m] = arrays[m]
  BY <1>2, <1>4, AppendFacts
<1> HIDE DEF fr2, ar2
<1>13. /\ Good(small, build, frames, arrays, calls) /\ ~overrun /\ build \in Builds
       /\ calls \in 0 .. MaxCalls
  BY DEF CallsInv, Good
<1>14. calls + 1 \in 0 .. MaxCalls
  BY <1>1, <1>13, ProgramAssumption
<1>15. Good(small, build, fr2, ar2, calls + 1)
  <2>1. l \in 1 .. l /\ Len(arrays) <= l
    BY <1>2
  <2>2. /\ Len(frames) < MaxDepth /\ e.array = Len(ar2) /\ e.array \in 1 .. Len(ar2) /\ Len(arrays) <= Len(ar2)
        /\ FrameOK(small, build, e, ar2[e.array]) /\ SlotsOK(build, e, ar2[e.array])
    <3> HIDE DEF l
    <3> QED
      BY <1>1, <1>2, <1>10, <1>12, <2>1
  <2>3. Len(frames) \in 1 .. Len(frames) /\ \A m \in 1 .. Len(frames) - 1 : m \in 1 .. Len(frames)
    BY <1>1, <1>2, TopFacts
  <2>4. fr2[Len(frames)] = Top /\ \A m \in 1 .. Len(frames) - 1 : fr2[m] = frames[m]
    BY <1>2, <1>11, <2>3
  <2>5. Linked(Top, e)
    BY <1>1, <1>2, <1>10 DEF Linked
  <2>6. /\ fr2[Len(frames)].sub = frames[Len(frames)].sub
        /\ fr2[Len(frames)].array = frames[Len(frames)].array
        /\ fr2[Len(frames)].host = frames[Len(frames)].host
        /\ Linked(fr2[Len(frames)], e)
        /\ FrameOK(small, build, fr2[Len(frames)], arrays[frames[Len(frames)].array])
        /\ SlotsOK(build, fr2[Len(frames)], arrays[frames[Len(frames)].array])
    BY <1>2, <2>4, <2>5
  <2> QED
    BY <1>1, <1>2, <1>10, <1>11, <1>12, <1>13, <1>14, <2>2, <2>4, <2>6, FramePushed
<1>16. CallsInv(small)'
  BY <1>1, <1>13, <1>15 DEF CallsInv
<1>17. Len(frames') = Depth + 1 /\ \A m \in 1 .. Depth : frames'[m] = frames[m]
  BY <1>1, <1>2, <1>11
<1> QED
  BY <1>1, <1>16, <1>17 DEF Above, RegsKept

-----------------------------------------------------------------------------
(* Every step.                                                             *)

LEMMA InitGood ==
  ASSUME NEW small, Init PROVE CallsInv(small)
<1>1. frames = <<>> /\ arrays = <<>> /\ ~overrun /\ calls = 0 /\ build \in Builds
  BY DEF Init
<1>2. \A m : m \notin 1 .. 0 /\ m \notin 2 .. 0
  OBVIOUS
<1>3. MaxDepth \in Nat /\ MaxCalls \in Nat /\ 0 <= MaxDepth /\ 0 \in 0 .. MaxCalls
  BY ProgramAssumption
<1>4. Len(frames) = 0 /\ frames \in Seq(Frame) /\ arrays \in Seq(ArraySet)
  BY <1>1
<1> QED
  BY <1>1, <1>2, <1>3, <1>4 DEF CallsInv, Good

LEMMA StepGood ==
  ASSUME NEW small \in SUBSET Subs, Supports(small), CallsInv(small), [Next]_vars
  PROVE  CallsInv(small)'
<1>1. CASE CopyArgs
  BY <1>1, CopyArgsGood
<1>2. CASE PushArg
  BY <1>2, PushArgGood
<1>3. CASE VmCall
  BY <1>3, VmCallGood
<1>4. CASE PrecompiledCall
  BY <1>4, PrecompiledCallGood
<1>5. CASE Croak
  BY <1>5, CroakGood
<1>6. CASE EndSub
  BY <1>6, EndSubGood
<1>7. CASE EndHost
  BY <1>7, EndHostGood
<1>8. CASE UNCHANGED vars
  BY <1>8 DEF CallsInv, vars
<1>9. ASSUME NEW k \in Statements, Begin(k) \/ Return(k) PROVE CallsInv(small)'
  BY <1>9, BeginGood, ReturnGood
<1>10. ASSUME NEW s \in Subs, Host(s) \/ Destroy(s) PROVE CallsInv(small)'
  BY <1>10, HostGood, DestroyGood
<1> QED
  BY <1>1, <1>2, <1>3, <1>4, <1>5, <1>6, <1>7, <1>8, <1>9, <1>10 DEF Next, Done

LEMMA Invariance ==
  ASSUME NEW small \in SUBSET Subs, Supports(small)
  PROVE  Spec => []CallsInv(small)
<1>1. Init => CallsInv(small)
  BY InitGood
<1>2. CallsInv(small) /\ [Next]_vars => CallsInv(small)'
  BY StepGood
<1> QED
  BY <1>1, <1>2, PTL DEF Spec

-----------------------------------------------------------------------------
(* The properties.                                                         *)

LEMMA GoodFits ==
  ASSUME NEW small, CallsInv(small) PROVE StackFits
<1>1. /\ build \in Builds /\ frames \in Seq(Frame) /\ Len(frames) <= MaxDepth
      /\ arrays \in Seq(ArraySet) /\ calls \in 0 .. MaxCalls /\ ~overrun
      /\ frames # <<>> => frames[Len(frames)].phase # "wait"
  BY DEF CallsInv, Good
<1>2. /\ DOMAIN frames = 1 .. Len(frames) /\ DOMAIN arrays = 1 .. Len(arrays) /\ Len(frames) \in Nat
      /\ Depth = Len(frames) /\ overrun = FALSE
  <2>1. DOMAIN frames = 1 .. Len(frames) /\ DOMAIN arrays = 1 .. Len(arrays) /\ Len(frames) \in Nat
    BY <1>1
  <2> QED
    BY <1>1, <2>1 DEF Depth
<1>3. ASSUME NEW n \in 1 .. Len(frames)
      PROVE  /\ frames[n] \in Frame /\ frames[n].array \in 1 .. Len(arrays)
             /\ FrameOK(small, build, frames[n], arrays[frames[n].array])
  BY <1>1 DEF CallsInv, Good
<1>4. ASSUME NEW n \in 1 .. Len(frames)
      PROVE  frames[n].phase \in (IF n = Depth THEN {"enter", "run", "push", "leave"}
                                  ELSE {"wait", "run", "leave"})
  <2>1. CASE n = Depth
    <3>1. frames[n].phase \in Phases /\ frames # <<>>
      BY <1>1, <1>3, FrameFacts
    <3>2. frames[n].phase # "wait"
      BY <1>1, <1>2, <2>1, <3>1
    <3> QED
      BY <2>1, <3>1, <3>2 DEF Phases
  <2>2. CASE n # Depth
    <3>1. n + 1 \in 2 .. Len(frames) /\ (n + 1) - 1 = n
      <4>1. n # Len(frames) /\ Len(frames) \in Nat
        BY <1>2, <2>2
      <4> QED
        BY <4>1
    <3>2. Linked(frames[n], frames[n + 1])
      <4>1. \A m \in 2 .. Len(frames) : Linked(frames[m - 1], frames[m])
        BY DEF CallsInv, Good
      <4> QED
        BY <3>1, <4>1
    <3> QED
      BY <2>2, <3>2 DEF Linked
  <2> QED
    BY <2>1, <2>2
<1>5. ASSUME NEW n \in 1 .. Len(frames)
      PROVE  /\ frames[n].at \in DOMAIN Body[frames[n].sub]
             /\ frames[n].regs \in [RegistersOf(frames[n].sub) -> Words3]
             /\ frames[n].phase # "push" => frames[n].top = 0
  BY <1>3, Translate DEF FrameOK
<1>6. ASSUME NEW a \in 1 .. Len(arrays), NEW n \in DOMAIN arrays[a]
      PROVE  arrays[a][n] \in [bank : Banks, word : Words3]
  <2>1. arrays[a] \in ArraySet
    BY <1>1
  <2> QED
    BY <2>1 DEF ArraySet, SlotSet
<1>7. TypeOK
  <2>1. \A n \in DOMAIN frames :
          LET f == frames[n] IN
          /\ f.phase \in (IF n = Depth THEN {"enter", "run", "push", "leave"} ELSE {"wait", "run", "leave"})
          /\ f.at \in DOMAIN Body[f.sub] /\ f.array \in DOMAIN arrays
          /\ f.regs \in [RegistersOf(f.sub) -> Words3]
    BY <1>2, <1>3, <1>4, <1>5
  <2>2. \A a \in DOMAIN arrays : \A n \in DOMAIN arrays[a] : arrays[a][n] \in [bank : Banks, word : Words3]
    BY <1>2, <1>6
  <2> QED
    BY <1>1, <1>2, <2>1, <2>2 DEF TypeOK
<1> QED
  BY <1>1, <1>2, <1>5, <1>7 DEF StackFits

(***************************************************************************)
(* StackFits: PUSH_ARG and RETURN write no slot beyond the array the C     *)
(* caller allocated, be it the host's or the one slot of a DESTROY, and    *)
(* between its calls the argument stack of an activation is empty again,   *)
(* however deep the calls are nested and whoever runs the subroutines.     *)
(***************************************************************************)
THEOREM NothingOverruns ==
  ASSUME Supported
  PROVE  Spec => []StackFits
<1>1. PICK small \in SUBSET Subs : Supports(small)
  BY DEF Supported
<1>2. Spec => []CallsInv(small)
  BY <1>1, Invariance
<1>3. CallsInv(small) => StackFits
  BY GoodFits
<1> QED
  BY <1>2, <1>3, PTL

-----------------------------------------------------------------------------
(* An activation that has not started is on top.                           *)
LEMMA EnteringIsTop ==
  ASSUME NEW small, CallsInv(small), NEW n \in 1 .. Len(frames), frames[n].phase = "enter"
  PROVE  n = Depth /\ frames # <<>> /\ Top.phase = "enter"
<1>1. frames \in Seq(Frame) /\ Len(frames) \in Nat /\ Depth = Len(frames) /\ Top = frames[Depth]
  <2>1. frames \in Seq(Frame)
    BY DEF CallsInv, Good
  <2> QED
    BY <2>1 DEF Depth, Top
<1>2. n = Len(frames)
  <2> SUFFICES ASSUME n # Len(frames) PROVE FALSE
    OBVIOUS
  <2>1. n + 1 \in 2 .. Len(frames) /\ (n + 1) - 1 = n
    BY <1>1
  <2>2. \A m \in 2 .. Len(frames) : Linked(frames[m - 1], frames[m])
    BY DEF CallsInv, Good
  <2>3. Linked(frames[n], frames[n + 1])
    BY <2>1, <2>2
  <2> QED
    BY <2>3 DEF Linked
<1>3. Len(frames) # 0
  BY <1>1
<1>4. frames # <<>>
  BY <1>3
<1> QED
  BY <1>1, <1>2, <1>4

(* Nothing but the copy of the arguments happens then.                     *)
LEMMA OnlyCopyArgs ==
  ASSUME [Next]_vars, frames # <<>>, Top.phase = "enter"
  PROVE  CopyArgs \/ frames' = frames
BY DEF Next, vars, PushArg, VmCall, PrecompiledCall, Pushed, InPhase, Croak, EndSub, EndHost, Done,
       Begin, Return, Host, Destroy

LEMMA ArgsArriveStep ==
  ASSUME NEW small, CallsInv(small), [Next]_vars,
         NEW n \in DOMAIN frames \cap DOMAIN frames', frames[n].phase = "enter", frames'[n].phase = "run",
         NEW i \in DOMAIN Args[frames[n].sub]
  PROVE  Value(frames'[n], i) = frames[n].given[i]
<1>1. n \in 1 .. Len(frames)
  <2>1. frames \in Seq(Frame)
    BY DEF CallsInv, Good
  <2> QED
    BY <2>1
<1>2. n = Depth /\ frames # <<>> /\ Top.phase = "enter" /\ Top = frames[n]
  BY <1>1, EnteringIsTop DEF Top
<1>3. CopyArgs
  BY <1>2, OnlyCopyArgs
<1>4. frames' = WithTop(Entered(Top))
  BY <1>3, CopyArgsGood
<1>5. Entered(Top) \in Frame /\ Val(build, Entered(Top), i) = Top.given[i]
  BY <1>2, EnteredFacts
<1>6. frames'[n] = Entered(Top)
  BY <1>2, <1>4, <1>5, WithTopFacts, TopFacts
<1> QED
  BY <1>2, <1>5, <1>6, Translate

(***************************************************************************)
(* ArgsArrive: what the PUSH_ARG opcodes of the caller put on the stack,   *)
(* field by field, is in the registers of the callee when its body starts, *)
(* for every mix of types and of virtual machine and precompiled code.     *)
(***************************************************************************)
THEOREM ArgumentsArrive ==
  ASSUME Supported
  PROVE  Spec => ArgsArrive
<1>1. PICK small \in SUBSET Subs : Supports(small)
  BY DEF Supported
<1>2. Spec => []CallsInv(small)
  BY <1>1, Invariance
<1>3. CallsInv(small) /\ [Next]_vars =>
        [\A n \in DOMAIN frames \cap DOMAIN frames' :
           (frames[n].phase = "enter" /\ frames'[n].phase = "run")
             => \A i \in DOMAIN Args[frames[n].sub] : Value(frames'[n], i) = frames[n].given[i]]_vars
  BY ArgsArriveStep
<1> QED
  BY <1>2, <1>3, PTL DEF Spec, ArgsArrive

-----------------------------------------------------------------------------
(* What a step that ends no call does.                                     *)
LEMMA OtherSteps ==
  ASSUME NEW small \in SUBSET Subs, Supports(small), CallsInv(small), [Next]_vars, ~EndSub, frames # <<>>
  PROVE  \/ frames' = frames
         \/ TopOnly
         \/ Above
         \/ CopyArgs /\ Len(frames') = Depth /\ \A m \in 1 .. Depth - 1 : frames'[m] = frames[m]
         \/ Top.host /\ Len(frames') = Depth - 1 /\ \A m \in 1 .. Depth - 1 : frames'[m] = frames[m]
<1>1. CASE CopyArgs
  <2>1. frames' = WithTop(Entered(Top)) /\ Entered(Top) \in Frame
    BY <1>1, CopyArgsGood, EnteredFacts
  <2> QED
    BY <1>1, <2>1, WithTopFacts, TopFacts
<1>2. CASE PushArg
  BY <1>2, PushArgGood
<1>3. CASE VmCall
  BY <1>3, VmCallGood
<1>4. CASE PrecompiledCall
  BY <1>4, PrecompiledCallGood
<1>5. CASE Croak
  BY <1>5, CroakGood
<1>6. CASE EndHost
  BY <1>6, EndHostGood
<1>7. CASE UNCHANGED vars
  BY <1>7 DEF vars
<1>8. ASSUME NEW k \in Statements, Begin(k) \/ Return(k) PROVE TopOnly
  BY <1>8, BeginGood, ReturnGood
<1>9. ASSUME NEW s \in Subs, Host(s) \/ Destroy(s) PROVE Above
  BY <1>9, HostGood, DestroyGood
<1> QED
  BY <1>1, <1>2, <1>3, <1>4, <1>5, <1>6, <1>7, <1>8, <1>9 DEF Next, Done

LEMMA OnlyEndSub ==
  ASSUME NEW small \in SUBSET Subs, Supports(small), CallsInv(small), [Next]_vars,
         Len(frames') = Depth - 1, ~Top.host
  PROVE  EndSub
<1>1. Depth = Len(frames) /\ Len(frames) \in Nat
  <2>1. frames \in Seq(Frame)
    BY DEF CallsInv, Good
  <2> QED
    BY <2>1 DEF Depth
<1>2. CASE frames # <<>>
  <2> SUFFICES ASSUME ~EndSub PROVE FALSE
    OBVIOUS
  <2>1. Len(frames') # Len(frames) /\ Len(frames') # Depth /\ Len(frames') # Depth + 1
    BY <1>1
  <2> QED
    BY <1>2, <2>1, OtherSteps DEF TopOnly, Above
<1>3. CASE frames = <<>>
  <2>1. frames' \in Seq(Frame)
    BY StepGood DEF CallsInv, Good
  <2>2. Len(frames') \in Nat /\ Len(frames) = 0
    BY <1>3, <2>1
  <2> QED
    BY <1>1, <2>2
<1> QED
  BY <1>2, <1>3

(* The value of the callee's RETURN, in the variable of the caller.        *)
LEMMA ResultArrivesStep ==
  ASSUME NEW small \in SUBSET Subs, Supports(small), CallsInv(small), [Next]_vars,
         Len(frames') = Depth - 1, ~Top.host, ~Top.exc
  PROVE  LET c == frames'[Depth - 1] IN
         Statement(c).out = 0 \/ Value(c, Statement(c).out) = Top.result
<1> DEFINE f == Caller
           s == f.sub
           my == Body[s][f.at].out
           sl == Slots(Top)
           c == frames'[Depth - 1]
           t == Returned[Top.sub]
<1>1. EndSub
  BY OnlyEndSub
<1>2. frames # <<>> /\ Top.phase = "leave" /\ c = Resume(f, Top.exc, sl)
  BY <1>1, EndSubGood
<1>3. /\ s \in Subs /\ f.at \in DOMAIN Body[s] /\ Body[s][f.at].op = "call"
      /\ Body[s][f.at].callee = Top.sub /\ f.regs \in [Regs(build, s) -> Words3]
  BY <1>2, CallerFacts
<1>4. /\ c.sub = s /\ c.at = f.at
      /\ my # 0 => my \in DOMAIN Mys(s) /\ c.regs = VmTakeResult(f, sl, my)
  BY <1>2, ResumeFacts
<1>5. Statement(c).out = my
  BY <1>4 DEF Statement
<1>6. CASE my # 0
  <2>1. /\ t.form # "void" /\ my \in DOMAIN Mys(s)
        /\ Bank(Mys(s)[my]) = Bank(t) /\ Width(Mys(s)[my]) = Width(t)
    BY <1>3, <1>6, CallFacts
  <2>2. sl \in ArraySet /\ Top.result = ReadAt(sl, 0, t)
    BY <1>2, <2>1, TopFacts DEF SlotsOK, Answered
  <2>3. \A j \in Words(s, my) : c.regs[Reg(build, s, my, j)] = Read(sl, j, Bank(t))
    <3> DEFINE T == VmTakeResult(f, sl, my)
    <3>1. \A j \in Words(s, my) : T[Reg(build, s, my, j)] = Read(sl, j, Bank(Mys(s)[my]))
      BY <1>3, <2>1, <2>2, TakeFacts
    <3>2. c.regs = T
      BY <1>4, <1>6
    <3> HIDE DEF T, c
    <3> QED
      BY <2>1, <3>1, <3>2
  <2>4. Val(build, c, my) = [j \in Words(s, my) |-> c.regs[Reg(build, s, my, j)]]
    BY <1>4 DEF Val
  <2>5. Words(s, my) = 0 .. Width(t) - 1
    BY <2>1 DEF Words
  <2> HIDE DEF c, s, my, sl, t, f
  <2>6. \A j \in 0 .. Width(t) - 1 : 0 + j = j
    OBVIOUS
  <2>7. ReadAt(sl, 0, t) = [j \in 0 .. Width(t) - 1 |-> Read(sl, j, Bank(t))]
    BY <2>6 DEF ReadAt
  <2>8. Val(build, c, my) = Top.result
    BY <2>2, <2>3, <2>4, <2>5, <2>7
  <2>9. Value(c, my) = Top.result
    BY <2>8, Translate
  <2> QED
    BY <1>5, <2>9 DEF c
<1> QED
  BY <1>5, <1>6

(***************************************************************************)
(* ResultArrives: the variable of the caller gets what RETURN read in the  *)
(* callee, although the end of its scopes ran destructors in between that  *)
(* called other subroutines: these have an array of their own.             *)
(***************************************************************************)
THEOREM ResultsArrive ==
  ASSUME Supported
  PROVE  Spec => ResultArrives
<1>1. PICK small \in SUBSET Subs : Supports(small)
  BY DEF Supported
<1>2. Spec => []CallsInv(small)
  BY <1>1, Invariance
<1>3. CallsInv(small) /\ [Next]_vars =>
        [(Len(frames') = Depth - 1 /\ ~Top.host /\ ~Top.exc)
           => LET c == frames'[Depth - 1] IN
              Statement(c).out = 0 \/ Value(c, Statement(c).out) = Top.result]_vars
  BY <1>1, ResultArrivesStep
<1> QED
  BY <1>2, <1>3, PTL DEF Spec, ResultArrives

-----------------------------------------------------------------------------
LEMMA SameValue ==
  ASSUME NEW f, NEW g, f.sub = g.sub, f.regs = g.regs, NEW i
  PROVE  Value(f, i) = Value(g, i)
BY DEF Value

LEMMA VariablesKeptStep ==
  ASSUME NEW small \in SUBSET Subs, Supports(small), CallsInv(small), [Next]_vars,
         NEW n \in DOMAIN frames \cap DOMAIN frames', frames[n].phase # "enter",
         NEW i \in DOMAIN Mys(frames[n].sub)
  PROVE  \/ Value(frames'[n], i) = Value(frames[n], i)
         \/ /\ n = Len(frames') /\ n = Depth - 1 /\ ~Top.host /\ ~Top.exc
            /\ i = Statement(frames[n]).out
<1>1. /\ frames \in Seq(Frame) /\ frames' \in Seq(Frame) /\ Depth = Len(frames) /\ Len(frames) \in Nat
  <2>1. frames \in Seq(Frame)
    BY DEF CallsInv, Good
  <2>2. frames' \in Seq(Frame)
    BY StepGood DEF CallsInv, Good
  <2> QED
    BY <2>1, <2>2 DEF Depth
<1>2. n \in 1 .. Depth /\ n \in 1 .. Len(frames') /\ frames # <<>>
  BY <1>1
<1>3. CASE EndSub
  <2>1. /\ ~Top.host /\ Top.phase = "leave" /\ Len(frames') = Depth - 1
        /\ frames'[Depth - 1] = Resume(Caller, Top.exc, Slots(Top))
        /\ \A m \in 1 .. Depth - 2 : frames'[m] = frames[m]
    BY <1>3, EndSubGood
  <2>2. CASE n = Depth - 1
    <3> DEFINE f == Caller
               my == Body[f.sub][f.at].out
               g == Resume(f, Top.exc, Slots(Top))
    <3>1. /\ f = frames[n] /\ f.sub \in Subs /\ f.regs \in [Regs(build, f.sub) -> Words3]
      BY <1>2, <2>1, <2>2, CallerFacts
    <3>2. /\ g.sub = f.sub
          /\ Top.exc \/ my = 0 => g.regs = f.regs
          /\ ~Top.exc /\ my # 0 => my \in DOMAIN Mys(f.sub) /\ g.regs = VmTakeResult(f, Slots(Top), my)
      BY <1>2, <2>1, ResumeFacts
    <3>3. frames'[n] = g /\ Statement(frames[n]).out = my
      BY <2>1, <2>2, <3>1 DEF Statement
    <3>4. CASE Top.exc \/ my = 0
      <4>1. Value(g, i) = Value(f, i)
        BY <3>2, <3>4, SameValue
      <4> QED
        BY <3>1, <3>3, <4>1
    <3>5. CASE ~Top.exc /\ my # 0 /\ i # my
      <4>1. Slots(Top) \in ArraySet
        BY <1>2, TopFacts
      <4>2. \A j \in Words(f.sub, i) : g.regs[Reg(build, f.sub, i, j)] = f.regs[Reg(build, f.sub, i, j)]
        <5> DEFINE T == VmTakeResult(f, Slots(Top), my)
        <5>1. my \in DOMAIN Mys(f.sub) /\ i \in DOMAIN Mys(f.sub) /\ g.regs = T
          BY <3>1, <3>2, <3>5
        <5>2. \A j \in Words(f.sub, i) : T[Reg(build, f.sub, i, j)] = f.regs[Reg(build, f.sub, i, j)]
          BY <3>1, <3>5, <4>1, <5>1, TakeFacts
        <5> HIDE DEF T, g
        <5> QED
          BY <5>1, <5>2
      <4>3. /\ Val(build, g, i) = [j \in Words(f.sub, i) |-> g.regs[Reg(build, f.sub, i, j)]]
            /\ Val(build, f, i) = [j \in Words(f.sub, i) |-> f.regs[Reg(build, f.sub, i, j)]]
        BY <3>2 DEF Val
      <4> HIDE DEF g, f
      <4>4. Val(build, g, i) = Val(build, f, i)
        BY <4>2, <4>3
      <4> QED
        BY <3>1, <3>3, <4>4, Translate
    <3>6. CASE ~Top.exc /\ i = my
      BY <2>1, <2>2, <3>3, <3>6
    <3> QED
      BY <3>4, <3>5, <3>6
  <2>3. CASE n # Depth - 1
    <3>1. n \in 1 .. Depth - 2
      BY <1>1, <1>2, <2>1, <2>3
    <3> QED
      BY <2>1, <3>1
  <2> QED
    BY <2>2, <2>3
<1>4. CASE ~EndSub
  <2>1. CASE TopOnly \/ Above
    <3>1. frames'[n].sub = frames[n].sub /\ frames'[n].regs = frames[n].regs
      BY <1>2, <2>1 DEF TopOnly, Above, RegsKept
    <3> QED
      BY <3>1, SameValue
  <2>2. CASE CopyArgs /\ \A m \in 1 .. Depth - 1 : frames'[m] = frames[m]
    <3>1. Top.phase = "enter" /\ Top = frames[Depth]
      BY <2>2, CopyArgsGood DEF Top
    <3>2. n \in 1 .. Depth - 1
      BY <1>1, <1>2, <3>1
    <3> QED
      BY <2>2, <3>2
  <2>3. CASE Len(frames') = Depth - 1 /\ \A m \in 1 .. Depth - 1 : frames'[m] = frames[m]
    BY <1>2, <2>3
  <2>4. CASE frames' = frames
    BY <2>4
  <2> QED
    BY <1>2, <1>4, <2>1, <2>2, <2>3, <2>4, OtherSteps
<1> QED
  BY <1>3, <1>4

(***************************************************************************)
(* VariablesKept: a call changes the one variable its result goes to, an   *)
(* exception none: the arrays of registers the virtual machine lays out in *)
(* one block do not overlap, and no variable of a value type reaches into  *)
(* the next one, for every mix of types in every subroutine.               *)
(***************************************************************************)
THEOREM VariablesAreKept ==
  ASSUME Supported
  PROVE  Spec => VariablesKept
<1>1. PICK small \in SUBSET Subs : Supports(small)
  BY DEF Supported
<1>2. Spec => []CallsInv(small)
  BY <1>1, Invariance
<1>3. CallsInv(small) /\ [Next]_vars =>
        [\A n \in DOMAIN frames \cap DOMAIN frames' : frames[n].phase # "enter" =>
           \A i \in DOMAIN Mys(frames[n].sub) :
             \/ Value(frames'[n], i) = Value(frames[n], i)
             \/ /\ n = Len(frames') /\ n = Depth - 1 /\ ~Top.host /\ ~Top.exc
                /\ i = Statement(frames[n]).out]_vars
  BY <1>1, VariablesKeptStep
<1> QED
  BY <1>2, <1>3, PTL DEF Spec, VariablesKept
=============================================================================
