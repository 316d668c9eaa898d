-------------------------- MODULE ConstantPool_proofs --------------------------
(***************************************************************************)
(* Proofs about ConstantPool, for any programs, names and hashes and any   *)
(* number of packages.                                                     *)
(*                                                                         *)
(* What opcodes refer to is found by index, so that the invariant says     *)
(* where the words are: of everything a symbol table has (KnownInv), of    *)
(* everything an opcode refers to (UsesInv), of the texts (StringsInv), of *)
(* the lists of packages that are finished (ListsInv) and of the switch    *)
(* statements (SwitchesInv), and that the image has them all (ImageInv).   *)
(* None of these words is one that the builder writes when it comes to the *)
(* branches of a switch (Slots): that is what lets each step keep them     *)
(* (Kept), by appending to a pool or by writing slots only.                *)
(*                                                                         *)
(* In order: pools; what a package knows; sorting; the invariant; what a   *)
(* step has to show; each step; the invariant holds; what is read, and the *)
(* properties.                                                             *)
(***************************************************************************)
EXTENDS ConstantPool, SymbolHash_proofs, SequenceTheorems

-----------------------------------------------------------------------------
(* Pools.                                                                  *)

PoolOK(pool) ==
  pool \in [values : Seq(Int), capacity : Nat] /\ Len(pool.values) + 1 <= pool.capacity

LEMMA PushFacts ==
  ASSUME NEW pool, PoolOK(pool), NEW v \in Int
  PROVE  PoolOK(Push(pool, v)) /\ Push(pool, v).values = Append(pool.values, v)
<1>1. pool.values \in Seq(Int) /\ Len(pool.values) \in Nat /\ pool.capacity \in Nat
  BY DEF PoolOK
<1>2. Append(pool.values, v) \in Seq(Int) /\ Len(Append(pool.values, v)) = Len(pool.values) + 1
  BY <1>1
<1>3. /\ Push(pool, v).values = Append(pool.values, v)
      /\ Push(pool, v).capacity =
           IF Len(pool.values) + 2 >= pool.capacity THEN 2 * pool.capacity ELSE pool.capacity
      /\ Push(pool, v) = [values |-> Push(pool, v).values, capacity |-> Push(pool, v).capacity]
  BY DEF Push
<1>4. Len(pool.values) + 1 <= pool.capacity
  BY DEF PoolOK
<1> DEFINE r == Push(pool, v)
           s == Append(pool.values, v)
<1>5. r = [values |-> r.values, capacity |-> r.capacity] /\ r.values = s
  BY <1>3
<1>6. s \in Seq(Int) /\ Len(s) = Len(pool.values) + 1
  BY <1>2
<1>7. r.capacity \in Nat /\ Len(s) + 1 <= r.capacity
  <2> HIDE DEF s
  <2> QED
    BY <1>1, <1>3, <1>4, <1>6
<1> HIDE DEF r, s
<1>8. PoolOK(r)
  BY <1>5, <1>6, <1>7 DEF PoolOK
<1> QED
  BY <1>5, <1>8 DEF r, s

LEMMA PushedFacts ==
  ASSUME NEW pool, PoolOK(pool), NEW values \in Seq(Int)
  PROVE  /\ Pushed(pool, values)[0] = pool
         /\ \A n \in 0 .. Len(values) : PoolOK(Pushed(pool, values)[n])
         /\ \A n \in 1 .. Len(values) :
              Pushed(pool, values)[n] = Push(Pushed(pool, values)[n - 1], values[n])
<1> DEFINE n == Len(values)
           T == {x \in [values : Seq(Int), capacity : Nat] : PoolOK(x)}
           step == [p \in T \X (1 .. n) |-> Push(p[1], values[p[2]])]
           IsPushed(g) == g = [i \in 0 .. n |-> IF i = 0 THEN pool ELSE Push(g[i - 1], values[i])]
<1>0. n \in Nat /\ \A i \in 1 .. n : values[i] \in Int
  OBVIOUS
<1>1. \A x \in T : \A i \in 1 .. n : Push(x, values[i]) \in T /\ step[<<x, i>>] = Push(x, values[i])
  <2>1. \A x \in T : \A i \in 1 .. n : PoolOK(Push(x, values[i]))
    BY <1>0, PushFacts
  <2>2. \A x \in T : \A i \in 1 .. n : Push(x, values[i]) \in T
    BY <2>1 DEF PoolOK
  <2> HIDE DEF T
  <2>3. \A x \in T : \A i \in 1 .. n : step[<<x, i>>] = Push(x, values[i])
    OBVIOUS
  <2> QED
    BY <2>2, <2>3
<1>2. pool \in T
  BY DEF PoolOK
<1>3. step \in [T \X (1 .. n) -> T]
  <2>1. \A p \in T \X (1 .. n) : Push(p[1], values[p[2]]) \in T
    <3> HIDE DEF T, step
    <3> QED
      BY <1>1
  <2> HIDE DEF T
  <2> QED
    BY <2>1
<1>4. PICK g : IsRun(g, n, T, pool, step)
  <2> HIDE DEF T, step, n
  <2> QED
    BY <1>0, <1>2, <1>3, RunExists
<1>5. \A x \in T : PoolOK(x)
  OBVIOUS
<1> HIDE DEF T, step
<1>6. /\ g \in [0 .. n -> T] /\ g[0] = pool
      /\ \A i \in 1 .. n : i \in 0 .. n /\ i # 0 /\ i - 1 \in 0 .. n /\ g[i] = Push(g[i - 1], values[i])
  <2>1. g \in [0 .. n -> T] /\ g[0] = pool /\ \A i \in 1 .. n : g[i] = step[<<g[i - 1], i>>]
    BY <1>4 DEF IsRun
  <2>2. \A i \in 1 .. n : i \in 0 .. n /\ i # 0 /\ i - 1 \in 0 .. n
    BY <1>0
  <2> QED
    BY <1>1, <2>1, <2>2
<1>7. IsPushed(g)
  <2>1. \A i \in 0 .. n : i = 0 \/ i \in 1 .. n
    BY <1>0
  <2>2. \A i \in 0 .. n : g[i] = IF i = 0 THEN pool ELSE Push(g[i - 1], values[i])
    BY <1>6, <2>1
  <2>3. g = [i \in 0 .. n |-> g[i]]
    BY <1>6
  <2> QED
    BY <2>2, <2>3
<1> DEFINE w == Pushed(pool, values)
<1>8. IsPushed(w)
  BY <1>7 DEF Pushed
<1>9. \A i \in 0 .. n : w[i] = IF i = 0 THEN pool ELSE Push(w[i - 1], values[i])
  <2> HIDE DEF w
  <2> QED
    BY <1>8
<1> HIDE DEF w
<1>10. w[0] = pool /\ \A i \in 1 .. n : w[i] = Push(w[i - 1], values[i])
  <2>1. 0 \in 0 .. n
    BY <1>0
  <2> QED
    BY <1>6, <1>9, <2>1
<1>11. \A i \in 0 .. n : PoolOK(w[i])
  <2> DEFINE Bad == {i \in 0 .. n : ~PoolOK(w[i])}
  <2>1. ASSUME Bad # {} PROVE FALSE
    <3>1. Bad \subseteq Nat
      OBVIOUS
    <3>2. PICK m \in Bad : \A k \in Bad : m <= k
      <4> HIDE DEF Bad
      <4> QED
        BY <2>1, <3>1, Least
    <3>3. CASE m = 0
      BY <1>10, <3>3
    <3>4. CASE m # 0
      <4>1. m \in 1 .. n /\ m - 1 \in 0 .. n /\ m - 1 \notin Bad /\ ~PoolOK(w[m])
        BY <1>0, <3>2, <3>4
      <4> QED
        BY <1>0, <1>10, <4>1, PushFacts
    <3> QED
      BY <3>3, <3>4
  <2> QED
    BY <2>1
<1> QED
  BY <1>10, <1>11 DEF w

(* Pushing several values appends them; the pool grows before it is full.  *)
LEMMA PushAllFacts ==
  ASSUME NEW pool, PoolOK(pool), NEW values \in Seq(Int)
  PROVE  PoolOK(PushAll(pool, values)) /\ PushAll(pool, values).values = pool.values \o values
<1> DEFINE n == Len(values)
           w == Pushed(pool, values)
           v == pool.values
           Is(s, i) == Len(s) = Len(v) + i /\ \A j \in 1 .. Len(v) + i : s[j] = (v \o values)[j]
           Bad == {i \in 0 .. n : ~Is(w[i].values, i)}
<1>0. v \in Seq(Int) /\ Len(v) \in Nat /\ n \in Nat
  BY DEF PoolOK
<1>1. /\ w[0] = pool /\ \A i \in 0 .. n : PoolOK(w[i])
      /\ \A i \in 1 .. n : w[i] = Push(w[i - 1], values[i])
  BY PushedFacts
<1>2. PushAll(pool, values) = w[n]
  BY DEF PushAll
<1> HIDE DEF w
<1>3. /\ Len(v \o values) = Len(v) + n /\ v \o values \in Seq(Int)
      /\ \A j \in 1 .. Len(v) : (v \o values)[j] = v[j]
      /\ \A j \in 1 .. n : (v \o values)[Len(v) + j] = values[j]
  BY <1>0
<1>4. ASSUME Bad # {} PROVE FALSE
  <2>1. Bad \subseteq Nat
    OBVIOUS
  <2>2. PICK m \in Bad : \A k \in Bad : m <= k
    <3> HIDE DEF Bad
    <3> QED
      BY <1>4, <2>1, Least
  <2>3. m \in 0 .. n /\ m \in Nat /\ ~Is(w[m].values, m)
    BY <2>2
  <2>4. CASE m = 0
    <3>1. Is(v, 0)
      BY <1>0, <1>3
    <3> QED
      BY <1>1, <2>3, <2>4, <3>1
  <2>5. CASE m # 0
    <3>1. m \in 1 .. n /\ m - 1 \in 0 .. n /\ m - 1 \notin Bad
      <4> HIDE DEF Bad
      <4>1. m - 1 \in 0 .. n /\ m \in 1 .. n /\ ~(m <= m - 1)
        BY <1>0, <2>3, <2>5
      <4> QED
        BY <2>2, <4>1
    <3> DEFINE s == w[m - 1].values
    <3>2. Is(s, m - 1) /\ s \in Seq(Int)
      BY <1>1, <3>1 DEF PoolOK
    <3>3. w[m].values = Append(s, values[m])
      <4>1. values[m] \in Int /\ PoolOK(w[m - 1]) /\ w[m] = Push(w[m - 1], values[m])
        BY <1>1, <3>1
      <4> HIDE DEF Bad
      <4> QED
        BY <4>1, PushFacts
    <3> HIDE DEF s
    <3>4. Is(Append(s, values[m]), m)
      <4>1. Len(Append(s, values[m])) = Len(v) + m
        BY <1>0, <2>3, <3>2
      <4>2. ASSUME NEW j \in 1 .. Len(v) + m PROVE Append(s, values[m])[j] = (v \o values)[j]
        <5>1. CASE j = Len(v) + m
          <6>1. Append(s, values[m])[j] = values[m]
            BY <1>0, <2>3, <3>2, <5>1
          <6> QED
            BY <1>3, <3>1, <5>1, <6>1
        <5>2. CASE j # Len(v) + m
          <6>1. j \in 1 .. Len(v) + (m - 1) /\ j \in 1 .. Len(s)
            BY <1>0, <2>3, <3>2, <5>2
          <6>2. Append(s, values[m])[j] = s[j]
            BY <3>2, <6>1
          <6> QED
            BY <3>2, <6>1, <6>2
        <5> QED
          BY <5>1, <5>2
      <4> QED
        BY <4>1, <4>2
    <3> QED
      BY <2>3, <3>3, <3>4
  <2> QED
    BY <2>4, <2>5
<1>5. Is(w[n].values, n)
  BY <1>0, <1>4
<1>6. w[n].values \in Seq(Int) /\ PoolOK(w[n])
  BY <1>0, <1>1 DEF PoolOK
<1>7. w[n].values = v \o values
  <2> DEFINE s == w[n].values
  <2>1. s \in Seq(Int) /\ Is(s, n)
    BY <1>5, <1>6
  <2> HIDE DEF s
  <2>2. Len(s) = Len(v \o values) /\ \A i \in 1 .. Len(s) : s[i] = (v \o values)[i]
    BY <1>3, <2>1
  <2>3. s = v \o values
    BY <1>3, <2>1, <2>2, SeqEqual
  <2> QED
    BY <2>3 DEF s
<1> QED
  BY <1>2, <1>6, <1>7

-----------------------------------------------------------------------------
(* What a package knows while it is compiled.                              *)

InternNames == {"ids", "types", "wide"}
TableNames  == InternNames \union ListKinds

Extends(s, t) == Len(s) <= Len(t) /\ \A i \in 1 .. Len(s) : t[i] = s[i]

(* The words from an index on, none of which a switch statement writes.    *)
Holds(values, slots, id, cells) ==
  \A j \in 1 .. Len(cells) :
    id + j - 1 \in 1 .. Len(values) /\ id + j - 1 \notin slots /\ values[id + j - 1] = cells[j]

(* The words a key stands for: a 64 bit constant has them in another order *)
(* than its key, everything else is its own key.                           *)
Meaning(m, table, key) ==
  IF table = "wide" /\ \E c \in m.constants : IsWide(c) /\ KeyOf(c) = key
  THEN <<key[2], key[1]>> ELSE key

InternedOK(known, slots, m) ==
  \A t \in InternNames : \A k \in Key :
    Fetch(known.tables[t], k) # Missing =>
      Holds(known.pool.values, slots, Fetch(known.tables[t], k), Meaning(m, t, k))

InList(list, id) == \E n \in 1 .. Len(list) : list[n] = id
ListOK(list, table) ==
  Distinct(list) /\ \A id \in Nat : Fetch(table, <<id>>) # Missing <=> InList(list, id)

IsKnown(known) == \E a, b, c : known = [pool |-> a, tables |-> b, lists |-> c]

KnownOK(known, slots, m) ==
  /\ IsKnown(known)
  /\ PoolOK(known.pool) /\ slots \subseteq 1 .. Len(known.pool.values)
  /\ known.tables = [t \in TableNames |-> known.tables[t]] /\ \A t \in TableNames : HashOK(known.tables[t])
  /\ known.lists \in [ListKinds -> Seq(Nat)]
  /\ InternedOK(known, slots, m)
  /\ \A k \in ListKinds : ListOK(known.lists[k], known.tables[k])

(* Words, ids and lists that are there stay.                               *)
KnownMore(known, r) ==
  /\ Extends(known.pool.values, r.pool.values)
  /\ \A t \in InternNames : \A k \in Key :
       Fetch(known.tables[t], k) # Missing => Fetch(r.tables[t], k) = Fetch(known.tables[t], k)
  /\ \A k \in ListKinds : Extends(known.lists[k], r.lists[k])

LEMMA KnownMoreSelf ==
  ASSUME NEW known, Len(known.pool.values) \in Nat, \A k \in ListKinds : Len(known.lists[k]) \in Nat
  PROVE  KnownMore(known, known)
BY DEF KnownMore, Extends

LEMMA ExtendsTransitive ==
  ASSUME NEW a, NEW b, NEW c, Len(a) \in Nat, Len(b) \in Nat, Len(c) \in Nat, Extends(a, b), Extends(b, c)
  PROVE  Extends(a, c)
BY DEF Extends

LEMMA KnownLengths ==
  ASSUME NEW known, NEW slots, NEW m, KnownOK(known, slots, m)
  PROVE  Len(known.pool.values) \in Nat /\ \A k \in ListKinds : Len(known.lists[k]) \in Nat
<1>1. known.pool.values \in Seq(Int) /\ \A k \in ListKinds : known.lists[k] \in Seq(Nat)
  BY DEF KnownOK, PoolOK
<1> QED
  BY <1>1

LEMMA KnownMoreTransitive ==
  ASSUME NEW slots, NEW m, NEW a, NEW b, NEW c, KnownOK(a, slots, m), KnownOK(b, slots, m), KnownOK(c, slots, m),
         KnownMore(a, b), KnownMore(b, c)
  PROVE  KnownMore(a, c)
<1>1. Extends(a.pool.values, c.pool.values)
  BY KnownLengths, ExtendsTransitive DEF KnownMore
<1>2. \A k \in ListKinds : Extends(a.lists[k], c.lists[k])
  BY KnownLengths, ExtendsTransitive DEF KnownMore
<1>3. \A t \in InternNames : \A k \in Key :
        Fetch(a.tables[t], k) # Missing => Fetch(c.tables[t], k) = Fetch(a.tables[t], k)
  BY DEF KnownMore
<1> QED
  BY <1>1, <1>2, <1>3 DEF KnownMore

LEMMA HoldsExtends ==
  ASSUME NEW v, NEW w, Len(v) \in Nat, Len(w) \in Nat, Extends(v, w),
         NEW slots, NEW id, NEW cells, Holds(v, slots, id, cells)
  PROVE  Holds(w, slots, id, cells)
BY DEF Holds, Extends

(* Words pushed are behind those that were there, and no switch has them.  *)
LEMMA PushedHolds ==
  ASSUME NEW v \in Seq(Int), NEW cells \in Seq(Int), NEW slots, slots \subseteq 1 .. Len(v)
  PROVE  Extends(v, v \o cells) /\ Holds(v \o cells, slots, Len(v) + 1, cells)
<1>1. Len(v) \in Nat /\ Len(cells) \in Nat /\ Len(v \o cells) = Len(v) + Len(cells)
  OBVIOUS
<1>2. \A i \in 1 .. Len(v) : (v \o cells)[i] = v[i]
  OBVIOUS
<1>3. \A j \in 1 .. Len(cells) : (v \o cells)[Len(v) + j] = cells[j]
  OBVIOUS
<1>4. Extends(v, v \o cells)
  BY <1>1, <1>2 DEF Extends
<1>5. \A j \in 1 .. Len(cells) :
        /\ Len(v) + 1 + j - 1 = Len(v) + j /\ Len(v) + j \in 1 .. Len(v \o cells)
        /\ Len(v) + j \notin 1 .. Len(v)
  BY <1>1
<1>6. Holds(v \o cells, slots, Len(v) + 1, cells)
  <2> DEFINE w == v \o cells
  <2> HIDE DEF w
  <2> QED
    BY <1>3, <1>5 DEF Holds, w
<1> QED
  BY <1>4, <1>6

WithPool(known, x)     == [known EXCEPT !.pool = x]
WithTables(known, x)   == [known EXCEPT !.tables = x]
WithLists(known, y, x) == [known EXCEPT !.lists = y, !.tables = x]

LEMMA KnownWith ==
  ASSUME NEW known, IsKnown(known), NEW x, NEW y
  PROVE  /\ LET r == WithPool(known, x) IN
            IsKnown(r) /\ r.pool = x /\ r.tables = known.tables /\ r.lists = known.lists
         /\ LET r == WithTables(known, x) IN
            IsKnown(r) /\ r.pool = known.pool /\ r.tables = x /\ r.lists = known.lists
         /\ LET r == WithLists(known, y, x) IN
            IsKnown(r) /\ r.pool = known.pool /\ r.tables = x /\ r.lists = y
<1> PICK a, b, c : known = [pool |-> a, tables |-> b, lists |-> c]
  BY DEF IsKnown
<1> DEFINE k == [known EXCEPT !.lists = y]
<1>1. k = [pool |-> a, tables |-> b, lists |-> y]
  OBVIOUS
<1>2. [known EXCEPT !.lists = y, !.tables = x] = [k EXCEPT !.tables = x]
  OBVIOUS
<1> HIDE DEF k
<1>3. [k EXCEPT !.tables = x] = [pool |-> a, tables |-> x, lists |-> y]
  BY <1>1
<1>4. [known EXCEPT !.pool = x] = [pool |-> x, tables |-> b, lists |-> c]
  OBVIOUS
<1>5. [known EXCEPT !.tables = x] = [pool |-> a, tables |-> x, lists |-> c]
  OBVIOUS
<1>6. known.pool = a /\ known.tables = b /\ known.lists = c
  OBVIOUS
<1>7. \A p, q, s : /\ IsKnown([pool |-> p, tables |-> q, lists |-> s])
                   /\ [pool |-> p, tables |-> q, lists |-> s].pool = p
                   /\ [pool |-> p, tables |-> q, lists |-> s].tables = q
                   /\ [pool |-> p, tables |-> q, lists |-> s].lists = s
  BY DEF IsKnown
<1> DEFINE r1 == [known EXCEPT !.pool = x]
           r2 == [known EXCEPT !.tables = x]
           r3 == [known EXCEPT !.lists = y, !.tables = x]
<1>8. /\ r1 = [pool |-> x, tables |-> b, lists |-> c] /\ r2 = [pool |-> a, tables |-> x, lists |-> c]
      /\ r3 = [pool |-> a, tables |-> x, lists |-> y]
  BY <1>2, <1>3, <1>4, <1>5
<1> HIDE DEF r1, r2, r3
<1>9. IsKnown(r1) /\ r1.pool = x /\ r1.tables = known.tables /\ r1.lists = known.lists
  BY <1>6, <1>7, <1>8
<1>10. IsKnown(r2) /\ r2.pool = known.pool /\ r2.tables = x /\ r2.lists = known.lists
  BY <1>6, <1>7, <1>8
<1>11. IsKnown(r3) /\ r3.pool = known.pool /\ r3.tables = x /\ r3.lists = y
  BY <1>6, <1>7, <1>8
<1> QED
  BY <1>9, <1>10, <1>11 DEF r1, r2, r3, WithPool, WithTables, WithLists

(* A pool that grows keeps all that a package knows.                       *)
LEMMA PoolGrows ==
  ASSUME NEW known, NEW slots, NEW m, KnownOK(known, slots, m), NEW cells \in Seq(Int), NEW more,
         more \subseteq Len(known.pool.values) + 1 .. Len(known.pool.values) + Len(cells)
  PROVE  LET r == [known EXCEPT !.pool = PushAll(known.pool, cells)] IN
         KnownOK(r, slots \union more, m) /\ KnownMore(known, r)
<1> DEFINE pool == PushAll(known.pool, cells)
           r == [known EXCEPT !.pool = pool]
           v == known.pool.values
           all == slots \union more
<1>1. /\ PoolOK(known.pool) /\ slots \subseteq 1 .. Len(v) /\ v \in Seq(Int) /\ Len(v) \in Nat
      /\ IsKnown(known)
  BY DEF KnownOK, PoolOK
<1>2. PoolOK(pool) /\ pool.values = v \o cells
  BY <1>1, PushAllFacts
<1>3. /\ IsKnown(r)
      /\ r.pool = pool /\ r.tables = known.tables /\ r.lists = known.lists
  <2> HIDE DEF pool
  <2>1. r = WithPool(known, pool)
    BY DEF WithPool
  <2>2. IsKnown(known)
    BY <1>1
  <2> HIDE DEF r, v, all
  <2> QED
    BY <2>1, <2>2, KnownWith
<1>4. Extends(v, pool.values) /\ Len(pool.values) = Len(v) + Len(cells) /\ Len(cells) \in Nat
  <2>1. Len(cells) \in Nat /\ Len(v \o cells) = Len(v) + Len(cells)
    BY <1>1
  <2> HIDE DEF pool, v
  <2> QED
    BY <1>1, <1>2, <2>1, PushedHolds
<1> HIDE DEF pool, r
<1>5. all \subseteq 1 .. Len(pool.values)
  BY <1>1, <1>4
<1>6. ASSUME NEW id, NEW words, Holds(v, slots, id, words)
      PROVE  Holds(pool.values, all, id, words)
  <2>1. Holds(pool.values, slots, id, words)
    BY <1>1, <1>4, <1>6, HoldsExtends
  <2>2. \A j \in 1 .. Len(words) : id + j - 1 \in 1 .. Len(v)
    BY <1>6 DEF Holds
  <2>3. \A i \in 1 .. Len(v) : i \notin more
    BY <1>1
  <2> QED
    BY <2>1, <2>2, <2>3 DEF Holds
<1>7. InternedOK(r, all, m)
  <2>1. InternedOK(known, slots, m)
    BY DEF KnownOK
  <2> HIDE DEF all
  <2> QED
    BY <1>3, <1>6, <2>1 DEF InternedOK
<1>8. KnownOK(r, all, m)
  <2> HIDE DEF all
  <2> QED
    BY <1>2, <1>3, <1>5, <1>7 DEF KnownOK
<1>9. KnownMore(known, r)
  BY <1>3, <1>4, KnownLengths DEF KnownMore, Extends
<1> QED
  BY <1>8, <1>9 DEF r, pool

(* A key is found afterwards under the index of its words, which were      *)
(* there or have been pushed.                                              *)
LEMMA InternedFacts ==
  ASSUME Hashing, NEW known, NEW slots, NEW m, KnownOK(known, slots, m), NEW t \in InternNames,
         NEW key \in Key, NEW cells \in Seq(Int), cells = Meaning(m, t, key)
  PROVE  LET r == Interned(known, t, key, cells) IN
         /\ KnownOK(r, slots, m) /\ KnownMore(known, r)
         /\ Fetch(r.tables[t], key) # Missing
<1>1. CASE Fetch(known.tables[t], key) # Missing
  <2>1. Interned(known, t, key, cells) = known
    BY <1>1 DEF Interned
  <2> QED
    BY <1>1, <2>1, KnownLengths, KnownMoreSelf
<1>2. CASE Fetch(known.tables[t], key) = Missing
  <2> DEFINE grown == [known EXCEPT !.pool = PushAll(known.pool, cells)]
             id == Len(known.pool.values) + 1
             table == Insert(known.tables[t], key, 4 * Len(key), id)
             ts == [known.tables EXCEPT ![t] = table]
             r == [grown EXCEPT !.tables = ts]
  <2>1. Interned(known, t, key, cells) = r
    BY <1>2 DEF Interned, NextId, KnownOK
  <2>2. KnownOK(grown, slots, m) /\ KnownMore(known, grown)
    <3>1. {} \subseteq Len(known.pool.values) + 1 .. Len(known.pool.values) + Len(cells) /\ slots \union {} = slots
      OBVIOUS
    <3> QED
      BY <3>1, PoolGrows
  <2>3. /\ known.tables = [u \in TableNames |-> known.tables[u]]
        /\ \A u \in TableNames : HashOK(known.tables[u])
        /\ t \in TableNames /\ PoolOK(known.pool)
        /\ IsKnown(known)
    BY DEF KnownOK, TableNames
  <2>4. id \in Nat /\ id # Missing /\ 4 * Len(key) \in Nat
    <3>1. Len(known.pool.values) \in Nat /\ Len(key) \in Nat
      BY <2>3 DEF PoolOK, Key
    <3> QED
      BY <3>1 DEF Missing
  <2>5. /\ HashOK(table)
        /\ \A k \in Key : Fetch(table, k) = IF k = key THEN id ELSE Fetch(known.tables[t], k)
    <3> HIDE DEF id
    <3> QED
      BY <2>3, <2>4, TableIsMap
  <2> HIDE DEF table
  <2>6. /\ ts = [u \in TableNames |-> ts[u]] /\ ts[t] = table
        /\ \A u \in TableNames : u # t => ts[u] = known.tables[u]
    BY <2>3
  <2>7. /\ IsKnown(grown)
        /\ grown.pool = PushAll(known.pool, cells) /\ grown.tables = known.tables /\ grown.lists = known.lists
    <3>1. grown = WithPool(known, PushAll(known.pool, cells))
      BY DEF WithPool
    <3> HIDE DEF grown
    <3> QED
      BY <2>3, <3>1, KnownWith
  <2> HIDE DEF grown, ts
  <2>8. /\ IsKnown(r)
        /\ r.pool = grown.pool /\ r.tables = ts /\ r.lists = known.lists
    <3>1. r = WithTables(grown, ts)
      BY DEF WithTables
    <3> HIDE DEF r
    <3> QED
      BY <2>7, <3>1, KnownWith
  <2> HIDE DEF r
  <2>9. Holds(grown.pool.values, slots, id, cells)
    <3>1. known.pool.values \in Seq(Int) /\ grown.pool.values = known.pool.values \o cells
      BY <2>3, <2>7, PushAllFacts DEF PoolOK
    <3>2. slots \subseteq 1 .. Len(known.pool.values)
      BY DEF KnownOK
    <3> QED
      BY <3>1, <3>2, PushedHolds
  <2>10. InternedOK(r, slots, m)
    <3>1. SUFFICES ASSUME NEW u \in InternNames, NEW k \in Key, Fetch(r.tables[u], k) # Missing
                   PROVE  Holds(r.pool.values, slots, Fetch(r.tables[u], k), Meaning(m, u, k))
      BY DEF InternedOK
    <3>2. CASE u = t /\ k = key
      BY <2>5, <2>6, <2>8, <2>9, <3>2
    <3>3. CASE ~(u = t /\ k = key)
      <4>1. u \in TableNames
        BY DEF TableNames
      <4>2. Fetch(r.tables[u], k) = Fetch(known.tables[u], k)
        BY <2>5, <2>6, <2>8, <3>3, <4>1
      <4>3. InternedOK(grown, slots, m)
        BY <2>2 DEF KnownOK
      <4> QED
        BY <2>7, <2>8, <3>1, <4>2, <4>3 DEF InternedOK
    <3> QED
      BY <3>2, <3>3
  <2>11. \A k \in ListKinds : k \in TableNames /\ k # t
    BY DEF ListKinds, TableNames, InternNames
  <2>12. KnownOK(r, slots, m)
    <3>1. \A u \in TableNames : HashOK(ts[u])
      BY <2>3, <2>5, <2>6
    <3>2. \A k \in ListKinds : ListOK(r.lists[k], r.tables[k])
      BY <2>6, <2>8, <2>11 DEF KnownOK
    <3>3. PoolOK(r.pool) /\ slots \subseteq 1 .. Len(r.pool.values) /\ r.lists \in [ListKinds -> Seq(Nat)]
      BY <2>2, <2>7, <2>8 DEF KnownOK
    <3> QED
      BY <2>6, <2>8, <2>10, <3>1, <3>2, <3>3 DEF KnownOK
  <2>13. KnownMore(known, r)
    <3>1. \A u \in InternNames : \A k \in Key :
            Fetch(known.tables[u], k) # Missing => Fetch(r.tables[u], k) = Fetch(known.tables[u], k)
      <4>1. \A u \in InternNames : u \in TableNames
        BY DEF TableNames
      <4> QED
        BY <1>2, <2>5, <2>6, <2>8, <4>1
    <3> QED
      BY <2>2, <2>7, <2>8, <3>1 DEF KnownMore
  <2>14. Fetch(r.tables[t], key) # Missing
    BY <2>4, <2>5, <2>6, <2>8
  <2> QED
    BY <2>1, <2>12, <2>13, <2>14
<1> QED
  BY <1>1, <1>2

(* An id is in its list afterwards, once.                                  *)
LEMMA ListedFacts ==
  ASSUME Hashing, NEW known, NEW slots, NEW m, KnownOK(known, slots, m), NEW kind \in ListKinds, NEW id \in Nat
  PROVE  LET r == Listed(known, kind, id) IN
         KnownOK(r, slots, m) /\ KnownMore(known, r) /\ InList(r.lists[kind], id)
<1> DEFINE list == known.lists[kind]
           key == <<id>>
<1>1. /\ known.tables = [u \in TableNames |-> known.tables[u]]
      /\ \A u \in TableNames : HashOK(known.tables[u])
      /\ known.lists \in [ListKinds -> Seq(Nat)]
      /\ IsKnown(known)
      /\ kind \in TableNames /\ kind \notin InternNames /\ key \in Key
      /\ ListOK(list, known.tables[kind])
  BY DEF KnownOK, TableNames, InternNames, ListKinds, Key
<1>2. CASE Fetch(known.tables[kind], key) # Missing
  <2>1. Listed(known, kind, id) = known
    BY <1>2 DEF Listed
  <2> QED
    BY <1>1, <1>2, <2>1, KnownLengths, KnownMoreSelf DEF ListOK
<1>3. CASE Fetch(known.tables[kind], key) = Missing
  <2> DEFINE table == Insert(known.tables[kind], key, 4, 1)
             ts == [known.tables EXCEPT ![kind] = table]
             more == Append(list, id)
             ls == [known.lists EXCEPT ![kind] = more]
             r == [known EXCEPT !.lists = ls, !.tables = ts]
  <2>1. Listed(known, kind, id) = r
    BY <1>1, <1>3 DEF Listed
  <2>2. /\ HashOK(table)
        /\ \A k \in Key : Fetch(table, k) = IF k = key THEN 1 ELSE Fetch(known.tables[kind], k)
    <3>1. 4 \in Nat /\ 1 \in Nat
      OBVIOUS
    <3>2. HashOK(known.tables[kind]) /\ key \in Key
      BY <1>1
    <3> HIDE DEF key
    <3> DEFINE h == known.tables[kind]
    <3> HIDE DEF h
    <3>3. HashOK(h)
      BY <3>2 DEF h
    <3>4. /\ HashOK(Insert(h, key, 4, 1))
          /\ \A k \in Key : Fetch(Insert(h, key, 4, 1), k) = IF k = key THEN 1 ELSE Fetch(h, k)
      BY <3>1, <3>2, <3>3, TableIsMap
    <3> QED
      BY <3>4 DEF h
  <2>3. list \in Seq(Nat) /\ Len(list) \in Nat
    BY <1>1
  <2> HIDE DEF list
  <2>4. /\ more \in Seq(Nat) /\ Len(more) = Len(list) + 1 /\ more[Len(list) + 1] = id
        /\ \A n \in 1 .. Len(list) : more[n] = list[n]
    BY <2>3
  <2> HIDE DEF table, more
  <2>5. /\ ts = [u \in TableNames |-> ts[u]] /\ ts[kind] = table
        /\ \A u \in TableNames : u # kind => ts[u] = known.tables[u]
    BY <1>1
  <2>6. /\ ls \in [ListKinds -> Seq(Nat)] /\ ls[kind] = more
        /\ \A k \in ListKinds : k # kind => ls[k] = known.lists[k]
    BY <1>1, <2>4
  <2> HIDE DEF ts, ls
  <2>7. /\ IsKnown(r)
        /\ r.pool = known.pool /\ r.tables = ts /\ r.lists = ls
    <3>1. r = WithLists(known, ls, ts)
      BY DEF WithLists
    <3> HIDE DEF r
    <3> QED
      BY <1>1, <3>1, KnownWith
  <2> HIDE DEF r
  <2>8. \A i \in Nat : InList(more, i) <=> InList(list, i) \/ i = id
    <3>1. \A n \in 1 .. Len(more) : n \in 1 .. Len(list) \/ n = Len(list) + 1
      BY <2>3, <2>4
    <3>2. Len(list) + 1 \in 1 .. Len(more) /\ \A n \in 1 .. Len(list) : n \in 1 .. Len(more)
      BY <2>3, <2>4
    <3> QED
      BY <2>4, <3>1, <3>2 DEF InList
  <2>9. ListOK(more, table)
    <3>1. \A i \in Nat : Fetch(table, <<i>>) # Missing <=> InList(more, i)
      <4>1. SUFFICES ASSUME NEW i \in Nat PROVE Fetch(table, <<i>>) # Missing <=> InList(more, i)
        OBVIOUS
      <4>2. <<i>> \in Key /\ (<<i>> = key <=> i = id)
        BY DEF Key
      <4>3. Fetch(known.tables[kind], <<i>>) # Missing <=> InList(list, i)
        BY <1>1 DEF ListOK, list
      <4>4. 1 # Missing
        BY DEF Missing
      <4> HIDE DEF key
      <4> QED
        BY <2>2, <2>8, <4>2, <4>3, <4>4
    <3>2. ~InList(list, id) /\ Distinct(list)
      BY <1>1, <1>3 DEF ListOK, list
    <3>3. Distinct(more)
      <4>1. DOMAIN more = 1 .. Len(list) + 1 /\ DOMAIN list = 1 .. Len(list)
        BY <2>3, <2>4
      <4>2. \A n \in DOMAIN more : n \in 1 .. Len(list) \/ n = Len(list) + 1
        BY <2>3, <4>1
      <4>3. \A n \in 1 .. Len(list) : more[n] # id
        BY <2>4, <3>2 DEF InList
      <4>4. \A i, j \in 1 .. Len(list) : more[i] = more[j] => i = j
        BY <2>4, <3>2, <4>1 DEF Distinct
      <4> QED
        BY <2>4, <4>2, <4>3, <4>4 DEF Distinct
    <3> QED
      BY <3>1, <3>3 DEF ListOK
  <2>10. KnownOK(r, slots, m)
    <3>1. \A u \in TableNames : HashOK(ts[u])
      BY <1>1, <2>2, <2>5
    <3>2. \A k \in ListKinds : ListOK(r.lists[k], r.tables[k])
      <4>1. \A k \in ListKinds : k \in TableNames
        BY DEF TableNames
      <4> QED
        BY <2>5, <2>6, <2>7, <2>9, <4>1 DEF KnownOK
    <3>3. PoolOK(r.pool) /\ slots \subseteq 1 .. Len(r.pool.values)
      BY <2>7 DEF KnownOK
    <3>4. InternedOK(r, slots, m)
      <4>1. \A u \in InternNames : r.tables[u] = known.tables[u]
        BY <1>1, <2>5, <2>7 DEF TableNames
      <4>2. InternedOK(known, slots, m)
        BY DEF KnownOK
      <4> QED
        BY <2>7, <4>1, <4>2 DEF InternedOK
    <3> QED
      BY <2>5, <2>6, <2>7, <3>1, <3>2, <3>3, <3>4 DEF KnownOK
  <2>11. KnownMore(known, r)
    <3>1. \A u \in InternNames : r.tables[u] = known.tables[u]
      BY <1>1, <2>5, <2>7 DEF TableNames
    <3>2. Extends(list, more)
      BY <2>3, <2>4 DEF Extends
    <3>3. \A k \in ListKinds : Extends(known.lists[k], r.lists[k])
      <4>1. \A k \in ListKinds : Extends(known.lists[k], known.lists[k])
        BY KnownLengths DEF Extends
      <4> QED
        BY <2>6, <2>7, <3>2, <4>1 DEF list
    <3>4. Extends(known.pool.values, r.pool.values)
      BY <2>7, KnownLengths DEF Extends
    <3> QED
      BY <3>1, <3>3, <3>4 DEF KnownMore
  <2>12. InList(r.lists[kind], id)
    BY <2>6, <2>7, <2>8
  <2> QED
    BY <2>1, <2>10, <2>11, <2>12
<1> QED
  BY <1>2, <1>3

-----------------------------------------------------------------------------
(* Sorting.                                                                *)

Case == [match : Int, jump : Nat]

(* The first n cases are in order, and none that follows is smaller.       *)
Low(c, n) == \A a \in 1 .. n : \A b \in 1 .. Len(c) : a < b => c[a].match <= c[b].match
Same(c, d) ==
  /\ \A a \in 1 .. Len(c) : \E b \in 1 .. Len(d) : c[a] = d[b]
  /\ \A a \in 1 .. Len(d) : \E b \in 1 .. Len(c) : d[a] = c[b]

(* After the exchanges of the i-th case with those up to the j-th.         *)
Least1(c, i, j) == \A b \in 1 .. Len(c) : i < b /\ b <= j => c[i].match <= c[b].match

LEMMA ExchangedFacts ==
  ASSUME NEW c \in Seq(Case), NEW i \in 1 .. Len(c), NEW j \in 1 .. Len(c), Low(c, i - 1), Least1(c, i, j - 1)
  PROVE  LET r == Exchanged(c, i, j) IN
         r \in Seq(Case) /\ Len(r) = Len(c) /\ Same(r, c) /\ Low(r, i - 1) /\ Least1(r, i, j)
<1>0. /\ Len(c) \in Nat /\ i \in Nat /\ j \in Nat
      /\ \A a \in 1 .. Len(c) : a \in Nat /\ c[a] \in Case /\ c[a].match \in Int
  <2>1. \A a \in 1 .. Len(c) : a \in Nat /\ c[a] \in Case
    OBVIOUS
  <2>2. \A x \in Case : x.match \in Int
    BY DEF Case
  <2> QED
    BY <2>1, <2>2
<1>1. CASE j > i /\ c[i].match > c[j].match
  <2> DEFINE d == [c EXCEPT ![i] = c[j]]
             r == [d EXCEPT ![j] = c[i]]
  <2>1. Exchanged(c, i, j) = r
    BY <1>1 DEF Exchanged
  <2>2. d \in Seq(Case) /\ Len(d) = Len(c) /\ \A a \in 1 .. Len(c) : d[a] = IF a = i THEN c[j] ELSE c[a]
    BY <1>0, ExceptSeq
  <2> HIDE DEF d
  <2>3. r \in Seq(Case) /\ Len(r) = Len(c) /\ \A a \in 1 .. Len(c) : r[a] = IF a = j THEN c[i] ELSE d[a]
    BY <1>0, <2>2, ExceptSeq
  <2> HIDE DEF r
  <2>4. \A a \in 1 .. Len(c) : r[a] = IF a = j THEN c[i] ELSE IF a = i THEN c[j] ELSE c[a]
    BY <2>2, <2>3
  <2>5. r[i] = c[j] /\ r[j] = c[i]
    BY <1>0, <1>1, <2>4
  <2>6. Same(r, c)
    <3>1. \A a \in 1 .. Len(c) : \E b \in 1 .. Len(c) : c[a] = r[b]
      <4>1. SUFFICES ASSUME NEW a \in 1 .. Len(c) PROVE \E b \in 1 .. Len(c) : c[a] = r[b]
        OBVIOUS
      <4>2. CASE a = i
        BY <2>5, <4>2
      <4>3. CASE a = j
        BY <2>5, <4>3
      <4>4. CASE a # i /\ a # j
        BY <2>4, <4>4
      <4> QED
        BY <4>2, <4>3, <4>4
    <3>2. \A a \in 1 .. Len(c) : \E b \in 1 .. Len(c) : r[a] = c[b]
      BY <2>4
    <3> QED
      BY <2>3, <3>1, <3>2 DEF Same
  <2>7. Low(r, i - 1)
    <3>1. SUFFICES ASSUME NEW a \in 1 .. i - 1, NEW b \in 1 .. Len(c), a < b
                   PROVE  r[a].match <= r[b].match
      BY <2>3 DEF Low
    <3>2. a \in 1 .. Len(c) /\ a # i /\ a # j /\ a < i /\ a < j
      BY <1>0, <1>1
    <3>3. r[a] = c[a]
      BY <2>4, <3>2
    <3>4. \A k \in 1 .. Len(c) : a < k => c[a].match <= c[k].match
      BY DEF Low
    <3> QED
      BY <2>4, <3>1, <3>2, <3>3, <3>4
  <2>8. Least1(r, i, j)
    <3>1. SUFFICES ASSUME NEW b \in 1 .. Len(c), i < b, b <= j PROVE r[i].match <= r[b].match
      BY <2>3 DEF Least1
    <3>2. CASE b = j
      BY <1>0, <1>1, <2>5, <3>2
    <3>3. CASE b # j
      <4>1. b <= j - 1 /\ r[b] = c[b]
        BY <1>0, <2>4, <3>1, <3>3
      <4>2. c[i].match <= c[b].match
        BY <3>1, <4>1 DEF Least1
      <4> QED
        BY <1>0, <1>1, <2>5, <4>1, <4>2
    <3> QED
      BY <3>2, <3>3
  <2> QED
    BY <2>1, <2>3, <2>6, <2>7, <2>8
<1>2. CASE ~(j > i /\ c[i].match > c[j].match)
  <2>1. Exchanged(c, i, j) = c
    BY <1>2 DEF Exchanged
  <2>2. Least1(c, i, j)
    <3>1. SUFFICES ASSUME NEW b \in 1 .. Len(c), i < b, b <= j PROVE c[i].match <= c[b].match
      BY DEF Least1
    <3>2. CASE b = j
      BY <1>0, <1>2, <3>1, <3>2
    <3>3. CASE b # j
      BY <1>0, <3>1, <3>3 DEF Least1
    <3> QED
      BY <3>2, <3>3
  <2> QED
    BY <2>1, <2>2 DEF Same
<1> QED
  BY <1>1, <1>2

LEMMA ExchangedType ==
  ASSUME NEW c \in Seq(Case), NEW i \in 1 .. Len(c), NEW j \in 1 .. Len(c)
  PROVE  Exchanged(c, i, j) \in Seq(Case) /\ Len(Exchanged(c, i, j)) = Len(c)
<1> DEFINE d == [c EXCEPT ![i] = c[j]]
<1>1. d \in Seq(Case) /\ Len(d) = Len(c)
  BY ExceptSeq
<1>2. Exchanged(c, i, j) = c \/ Exchanged(c, i, j) = [d EXCEPT ![j] = c[i]]
  BY DEF Exchanged
<1> HIDE DEF d
<1>3. [d EXCEPT ![j] = c[i]] \in Seq(Case) /\ Len([d EXCEPT ![j] = c[i]]) = Len(d)
  BY <1>1, ExceptSeq
<1> QED
  BY <1>1, <1>2, <1>3

Sequences(n) == {c \in Seq(Case) : Len(c) = n}

LEMMA PassFunction ==
  ASSUME NEW c \in Seq(Case), NEW i \in 1 .. Len(c)
  PROVE  /\ Pass(c, i)[0] = c
         /\ \A j \in 0 .. Len(c) : Pass(c, i)[j] \in Sequences(Len(c))
         /\ \A j \in 1 .. Len(c) : Pass(c, i)[j] = Exchanged(Pass(c, i)[j - 1], i, j)
<1> DEFINE n == Len(c)
           T == Sequences(n)
           step == [p \in T \X (1 .. n) |-> Exchanged(p[1], i, p[2])]
           IsPass(g) == g = [j \in 0 .. n |-> IF j = 0 THEN c ELSE Exchanged(g[j - 1], i, j)]
<1>0. n \in Nat /\ i \in 1 .. n /\ c \in T
  BY DEF Sequences
<1>1. \A x \in T : \A j \in 1 .. n : Exchanged(x, i, j) \in T /\ step[<<x, j>>] = Exchanged(x, i, j)
  <2>1. \A x \in T : \A j \in 1 .. n : Exchanged(x, i, j) \in T
    BY <1>0, ExchangedType DEF Sequences
  <2> HIDE DEF T
  <2>2. \A x \in T : \A j \in 1 .. n : step[<<x, j>>] = Exchanged(x, i, j)
    OBVIOUS
  <2> QED
    BY <2>1, <2>2
<1>3. step \in [T \X (1 .. n) -> T]
  <2>1. \A p \in T \X (1 .. n) : Exchanged(p[1], i, p[2]) \in T
    <3> HIDE DEF T, step
    <3> QED
      BY <1>1
  <2> HIDE DEF T
  <2> QED
    BY <2>1
<1>4. PICK g : IsRun(g, n, T, c, step)
  <2> HIDE DEF T, step, n
  <2> QED
    BY <1>0, <1>3, RunExists
<1> HIDE DEF T, step
<1>6. /\ g \in [0 .. n -> T] /\ g[0] = c
      /\ \A j \in 1 .. n : j \in 0 .. n /\ j # 0 /\ j - 1 \in 0 .. n /\ g[j] = Exchanged(g[j - 1], i, j)
  <2>1. g \in [0 .. n -> T] /\ g[0] = c /\ \A j \in 1 .. n : g[j] = step[<<g[j - 1], j>>]
    BY <1>4 DEF IsRun
  <2>2. \A j \in 1 .. n : j \in 0 .. n /\ j # 0 /\ j - 1 \in 0 .. n
    BY <1>0
  <2> QED
    BY <1>1, <2>1, <2>2
<1>7. IsPass(g)
  <2>1. \A j \in 0 .. n : j = 0 \/ j \in 1 .. n
    BY <1>0
  <2>2. \A j \in 0 .. n : g[j] = IF j = 0 THEN c ELSE Exchanged(g[j - 1], i, j)
    BY <1>6, <2>1
  <2>3. g = [j \in 0 .. n |-> g[j]]
    BY <1>6
  <2> QED
    BY <2>2, <2>3
<1> DEFINE w == Pass(c, i)
<1>8. IsPass(w)
  BY <1>7 DEF Pass
<1>9. \A j \in 0 .. n : w[j] = IF j = 0 THEN c ELSE Exchanged(w[j - 1], i, j)
  <2> HIDE DEF w
  <2> QED
    BY <1>8
<1> HIDE DEF w
<1>10. w[0] = c /\ \A j \in 1 .. n : w[j] = Exchanged(w[j - 1], i, j)
  <2>1. 0 \in 0 .. n
    BY <1>0
  <2> QED
    BY <1>6, <1>9, <2>1
<1>11. \A j \in 0 .. n : w[j] \in T
  <2> DEFINE Bad == {j \in 0 .. n : w[j] \notin T}
  <2>1. ASSUME Bad # {} PROVE FALSE
    <3>1. Bad \subseteq Nat
      OBVIOUS
    <3>2. PICK m \in Bad : \A k \in Bad : m <= k
      <4> HIDE DEF Bad
      <4> QED
        BY <2>1, <3>1, Least
    <3>3. CASE m = 0
      BY <1>0, <1>10, <3>3
    <3>4. CASE m # 0
      <4>1. m \in 1 .. n /\ m - 1 \in 0 .. n /\ m - 1 \notin Bad /\ w[m] \notin T
        BY <1>0, <3>2, <3>4
      <4>2. w[m - 1] \in T /\ w[m] = Exchanged(w[m - 1], i, m)
        BY <1>10, <4>1
      <4> HIDE DEF Bad
      <4> QED
        BY <1>1, <4>1, <4>2
    <3> QED
      BY <3>3, <3>4
  <2> QED
    BY <2>1
<1> QED
  BY <1>10, <1>11 DEF w, T

LEMMA SameTransitive ==
  ASSUME NEW a, NEW b, NEW c, Same(a, b), Same(b, c)
  PROVE  Same(a, c)
<1>1. \A i \in 1 .. Len(a) : \E k \in 1 .. Len(c) : a[i] = c[k]
  BY DEF Same
<1>2. \A i \in 1 .. Len(c) : \E k \in 1 .. Len(a) : c[i] = a[k]
  BY DEF Same
<1> QED
  BY <1>1, <1>2 DEF Same

(* A pass leaves the smallest of the cases that follow in its place.       *)
LEMMA PassFacts ==
  ASSUME NEW c \in Seq(Case), NEW i \in 1 .. Len(c), Low(c, i - 1)
  PROVE  LET r == Pass(c, i)[Len(c)] IN r \in Sequences(Len(c)) /\ Same(r, c) /\ Low(r, i)
<1> DEFINE n == Len(c)
           w == Pass(c, i)
           Good(j) == Same(w[j], c) /\ Low(w[j], i - 1) /\ Least1(w[j], i, j)
           Bad == {j \in 0 .. n : ~Good(j)}
<1>0. n \in Nat /\ i \in 1 .. n
  OBVIOUS
<1>1. /\ w[0] = c /\ \A j \in 0 .. n : w[j] \in Seq(Case) /\ Len(w[j]) = n
      /\ \A j \in 1 .. n : w[j] = Exchanged(w[j - 1], i, j)
  BY PassFunction DEF Sequences
<1> HIDE DEF w
<1>2. Good(0)
  <2>1. Same(c, c)
    BY DEF Same
  <2>2. Least1(c, i, 0)
    BY <1>0 DEF Least1
  <2> QED
    BY <1>1, <2>1, <2>2
<1>3. ASSUME NEW j \in 1 .. n, Good(j - 1) PROVE Good(j)
  <2> DEFINE d == w[j - 1]
  <2>1. j - 1 \in 0 .. n
    BY <1>0
  <2>2. d \in Seq(Case) /\ Len(d) = n /\ Low(d, i - 1) /\ Least1(d, i, j - 1) /\ Same(d, c)
    BY <1>1, <1>3, <2>1
  <2>3. w[j] = Exchanged(d, i, j)
    BY <1>1
  <2> HIDE DEF d
  <2>4. Same(w[j], d) /\ Low(w[j], i - 1) /\ Least1(w[j], i, j)
    BY <1>0, <2>2, <2>3, ExchangedFacts
  <2> QED
    BY <2>2, <2>4, SameTransitive
<1> HIDE DEF Good
<1>4. ASSUME Bad # {} PROVE FALSE
  <2>1. Bad \subseteq Nat
    OBVIOUS
  <2>2. PICK m \in Bad : \A k \in Bad : m <= k
    <3> HIDE DEF Bad
    <3> QED
      BY <1>4, <2>1, Least
  <2>3. m # 0
    BY <1>2
  <2>4. m \in 1 .. n /\ m - 1 \in 0 .. n /\ m - 1 \notin Bad
    BY <1>0, <2>2, <2>3
  <2> QED
    BY <1>3, <2>4
<1>5. Good(n)
  BY <1>0, <1>4
<1>6. w[n] \in Sequences(n)
  BY <1>0, <1>1 DEF Sequences
<1> DEFINE r == w[n]
<1>7. r \in Sequences(n) /\ Len(r) = n /\ Same(r, c) /\ Low(r, i - 1) /\ Least1(r, i, n)
  BY <1>5, <1>6 DEF Good, Sequences
<1> HIDE DEF r
<1>8. Low(r, i)
  <2>1. SUFFICES ASSUME NEW a \in 1 .. i, NEW b \in 1 .. n, a < b PROVE r[a].match <= r[b].match
    BY <1>7 DEF Low
  <2>2. CASE a = i
    BY <1>7, <2>1, <2>2 DEF Least1
  <2>3. CASE a # i
    <3>1. a \in 1 .. i - 1
      BY <1>0, <2>3
    <3> QED
      BY <1>7, <2>1, <3>1 DEF Low
  <2> QED
    BY <2>2, <2>3
<1> QED
  BY <1>7, <1>8 DEF r, w

LEMMA PassesFunction ==
  ASSUME NEW c \in Seq(Case)
  PROVE  /\ Passes(c)[0] = c
         /\ \A i \in 0 .. Len(c) : Passes(c)[i] \in Sequences(Len(c))
         /\ \A i \in 1 .. Len(c) : Passes(c)[i] = Pass(Passes(c)[i - 1], i)[Len(c)]
<1> DEFINE n == Len(c)
           T == Sequences(n)
           step == [p \in T \X (1 .. n) |-> Pass(p[1], p[2])[n]]
           IsPasses(g) == g = [i \in 0 .. n |-> IF i = 0 THEN c ELSE Pass(g[i - 1], i)[n]]
<1>0. n \in Nat /\ n \in 0 .. n /\ c \in T
  BY DEF Sequences
<1>1. \A x \in T : \A i \in 1 .. n : Pass(x, i)[n] \in T /\ step[<<x, i>>] = Pass(x, i)[n]
  <2>1. \A x \in T : \A i \in 1 .. n : Pass(x, i)[n] \in T
    <3>1. SUFFICES ASSUME NEW x \in T, NEW i \in 1 .. n PROVE Pass(x, i)[n] \in T
      OBVIOUS
    <3>2. x \in Seq(Case) /\ Len(x) = n
      BY DEF Sequences
    <3> HIDE DEF n
    <3>3. i \in 1 .. Len(x) /\ n \in 0 .. Len(x)
      BY <1>0, <3>2
    <3>4. Pass(x, i)[n] \in Sequences(Len(x))
      BY <3>2, <3>3, PassFunction
    <3> QED
      BY <3>2, <3>4
  <2> HIDE DEF T
  <2>2. \A x \in T : \A i \in 1 .. n : step[<<x, i>>] = Pass(x, i)[n]
    OBVIOUS
  <2> QED
    BY <2>1, <2>2
<1>3. step \in [T \X (1 .. n) -> T]
  <2>1. \A p \in T \X (1 .. n) : Pass(p[1], p[2])[n] \in T
    <3> HIDE DEF T, step
    <3> QED
      BY <1>1
  <2> HIDE DEF T
  <2> QED
    BY <2>1
<1>4. PICK g : IsRun(g, n, T, c, step)
  <2> HIDE DEF T, step, n
  <2> QED
    BY <1>0, <1>3, RunExists
<1> HIDE DEF T, step
<1>6. /\ g \in [0 .. n -> T] /\ g[0] = c
      /\ \A i \in 1 .. n : i \in 0 .. n /\ i # 0 /\ i - 1 \in 0 .. n /\ g[i] = Pass(g[i - 1], i)[n]
  <2>1. g \in [0 .. n -> T] /\ g[0] = c /\ \A i \in 1 .. n : g[i] = step[<<g[i - 1], i>>]
    BY <1>4 DEF IsRun
  <2>2. \A i \in 1 .. n : i \in 0 .. n /\ i # 0 /\ i - 1 \in 0 .. n
    BY <1>0
  <2> QED
    BY <1>1, <2>1, <2>2
<1>7. IsPasses(g)
  <2>1. \A i \in 0 .. n : i = 0 \/ i \in 1 .. n
    BY <1>0
  <2>2. \A i \in 0 .. n : g[i] = IF i = 0 THEN c ELSE Pass(g[i - 1], i)[n]
    BY <1>6, <2>1
  <2>3. g = [i \in 0 .. n |-> g[i]]
    BY <1>6
  <2> QED
    BY <2>2, <2>3
<1> DEFINE w == Passes(c)
<1>8. IsPasses(w)
  BY <1>7 DEF Passes
<1>9. \A i \in 0 .. n : w[i] = IF i = 0 THEN c ELSE Pass(w[i - 1], i)[n]
  <2> HIDE DEF w
  <2> QED
    BY <1>8
<1> HIDE DEF w
<1>10. w[0] = c /\ \A i \in 1 .. n : w[i] = Pass(w[i - 1], i)[n]
  <2>1. 0 \in 0 .. n
    BY <1>0
  <2> QED
    BY <1>6, <1>9, <2>1
<1>11. \A i \in 0 .. n : w[i] \in T
  <2> DEFINE Bad == {i \in 0 .. n : w[i] \notin T}
  <2>1. ASSUME Bad # {} PROVE FALSE
    <3>1. Bad \subseteq Nat
      OBVIOUS
    <3>2. PICK m \in Bad : \A k \in Bad : m <= k
      <4> HIDE DEF Bad
      <4> QED
        BY <2>1, <3>1, Least
    <3>3. CASE m = 0
      BY <1>0, <1>10, <3>3
    <3>4. CASE m # 0
      <4>1. m \in 1 .. n /\ m - 1 \in 0 .. n /\ m - 1 \notin Bad /\ w[m] \notin T
        BY <1>0, <3>2, <3>4
      <4>2. w[m - 1] \in T /\ w[m] = Pass(w[m - 1], m)[n]
        BY <1>10, <4>1
      <4> HIDE DEF Bad
      <4> QED
        BY <1>1, <4>1, <4>2
    <3> QED
      BY <3>3, <3>4
  <2> QED
    BY <2>1
<1> QED
  BY <1>10, <1>11 DEF w, T

(***************************************************************************)
(* The exchanges of the checker sort the cases of a switch statement and   *)
(* lose none of them (spvm_op_checker.c, SWITCH).                          *)
(***************************************************************************)
THEOREM CasesAreSorted ==
  ASSUME NEW c \in Seq(Case)
  PROVE  /\ Sorted(c) \in Seq(Case) /\ Len(Sorted(c)) = Len(c) /\ Same(Sorted(c), c)
         /\ \A i, j \in 1 .. Len(c) : i < j => Sorted(c)[i].match <= Sorted(c)[j].match
<1> DEFINE n == Len(c)
           w == Passes(c)
           Good(i) == Same(w[i], c) /\ Low(w[i], i)
           Bad == {i \in 0 .. n : ~Good(i)}
<1>0. n \in Nat
  OBVIOUS
<1>1. /\ w[0] = c /\ \A i \in 0 .. n : w[i] \in Seq(Case) /\ Len(w[i]) = n
      /\ \A i \in 1 .. n : w[i] = Pass(w[i - 1], i)[n]
  BY PassesFunction DEF Sequences
<1>2. Sorted(c) = w[n]
  BY DEF Sorted
<1> HIDE DEF w
<1>3. Good(0)
  <2>1. Same(c, c) /\ Low(c, 0)
    BY DEF Same, Low
  <2> QED
    BY <1>1, <2>1
<1>4. ASSUME NEW i \in 1 .. n, Good(i - 1) PROVE Good(i)
  <2> DEFINE d == w[i - 1]
  <2>1. i - 1 \in 0 .. n
    BY <1>0
  <2>2. d \in Seq(Case) /\ Len(d) = n /\ Low(d, i - 1) /\ Same(d, c)
    BY <1>1, <1>4, <2>1
  <2>3. w[i] = Pass(d, i)[n]
    BY <1>1
  <2> HIDE DEF d
  <2>4. Same(w[i], d) /\ Low(w[i], i)
    BY <2>2, <2>3, PassFacts
  <2> QED
    BY <2>2, <2>4, SameTransitive
<1> HIDE DEF Good
<1>5. ASSUME Bad # {} PROVE FALSE
  <2>1. Bad \subseteq Nat
    OBVIOUS
  <2>2. PICK m \in Bad : \A k \in Bad : m <= k
    <3> HIDE DEF Bad
    <3> QED
      BY <1>5, <2>1, Least
  <2>3. m # 0
    BY <1>3
  <2>4. m \in 1 .. n /\ m - 1 \in 0 .. n /\ m - 1 \notin Bad
    BY <1>0, <2>2, <2>3
  <2> QED
    BY <1>4, <2>4
<1>6. Good(n)
  BY <1>0, <1>5
<1> DEFINE r == w[n]
<1>7. r \in Seq(Case) /\ Len(r) = n /\ Same(r, c) /\ Low(r, n)
  BY <1>0, <1>1, <1>6 DEF Good
<1> HIDE DEF r
<1>8. \A i, j \in 1 .. n : i < j => r[i].match <= r[j].match
  BY <1>7 DEF Low
<1> QED
  BY <1>2, <1>7, <1>8 DEF r

-----------------------------------------------------------------------------
(* The invariant.                                                          *)

(* The words of a switch statement that the builder writes.                *)
Slots(s) ==
  {s.id} \union
  IF IsTable(s.cases) THEN s.id + 3 .. s.id + 3 + s.cases[Len(s.cases)].match - s.cases[1].match
  ELSE {s.id + 1 + 2 * i : i \in 1 .. Len(s.cases)}
SlotsOf(p) == UNION {Slots(switches[i]) : i \in {i \in 1 .. Len(switches) : switches[i].package = p}}

KnownOf(p) == [pool |-> pools[p], tables |-> tables[p], lists |-> lists[p]]

(* What an opcode may refer to.                                            *)
Referable == [kind : {"type", "long", "double", "string"} \union Singles, of : Seq(Nat)]
ConstantOK(c, m) ==
  /\ c \in Referable
  /\ c.kind \in {"type", "long", "double"} => Len(c.of) = 2
  /\ c.kind \in Singles => Len(c.of) = 1
  /\ IsWide(c) => c \in m.constants

(* An index at which a package has what an opcode refers to.               *)
Found(c, known, slots, buffer, id) ==
  IF c.kind = "string"
  THEN id \in Nat /\ \E start \in Nat \ {0} : Holds(known.pool.values, slots, id, <<Len(c.of), start>>)
                                              /\ Holds(buffer, {}, start, c.of)
  ELSE /\ id = Fetch(known.tables[TableOf(c.kind)], KeyOf(c)) /\ id # Missing
       /\ c.kind \in ListKinds => InList(known.lists[c.kind], c.of[1])
       /\ c.kind = "type" => InList(known.lists["basic"], RuntimeType(c.of)[1])

(* A node is an opcode's own, or that of the constant of a subroutine that *)
(* is only called from one package.                                        *)
Nodes == ({"node"} \X Nat) \union ({"sub"} \X DOMAIN ConstantSubs)
NodeOK(u, i) ==
  \/ u.node = <<"node", i>>
  \/ \E s \in DOMAIN ConstantSubs :
       u.node = <<"sub", s>> /\ ConstantSubs[s] = u.constant /\ u.package \in Callers[s]

Uses == [package : 1 .. Packages, constant : Referable, node : Nodes]
SwitchRecords ==
  [package : 1 .. Packages, id : Nat \ {0}, source : Seq(Int), cases : Seq(Case), built : BOOLEAN, default : Nat]

TypeInv ==
  /\ phase \in {"names", "check", "build", "run"} /\ package \in 1 .. Packages /\ menu \in Menus
  /\ pools = [p \in 1 .. Packages |-> pools[p]] /\ tables = [p \in 1 .. Packages |-> tables[p]]
  /\ lists = [p \in 1 .. Packages |-> lists[p]]
  /\ listIds \in [1 .. Packages -> [ListKinds -> Nat]]
  /\ uses \in Seq(Uses) /\ switches \in Seq(SwitchRecords)

(* A text in the symbol table is in the buffer at the index it has.        *)
TextsOK(s) ==
  /\ s \in [buffer : Seq(Nat), capacity : Nat, symtable : Hash] /\ HashOK(s.symtable)
  /\ Len(s.buffer) + 1 <= s.capacity /\ BufferCapacity <= s.capacity
  /\ \A k \in Key : Fetch(s.symtable, k) # Missing => Holds(s.buffer, {}, Fetch(s.symtable, k), k)
NamesKnown(s) == \A n \in Names : Fetch(s.symtable, Append(n, Nul)) # Missing
StringsInv == TextsOK(strings) /\ (phase # "names" => NamesKnown(strings))

KnownInv == \A p \in 1 .. Packages : KnownOK(KnownOf(p), SlotsOf(p), menu)

UseOK(u, i) ==
  /\ ConstantOK(u.constant, menu) /\ NodeOK(u, i) /\ u.node \in DOMAIN poolIds
  /\ Found(u.constant, KnownOf(u.package), SlotsOf(u.package), strings.buffer, poolIds[u.node])
UsesInv == \A i \in 1 .. Len(uses) : UseOK(uses[i], i)

Finished(p) == p < package \/ phase \in {"build", "run"}
Counted(list) == <<Len(list)>> \o list
ListsInv ==
  \A p \in 1 .. Packages : Finished(p) =>
    \A k \in ListKinds : Holds(pools[p].values, SlotsOf(p), listIds[p][k], Counted(lists[p][k]))

(* What a switch statement has in the pool from the start, and what the    *)
(* builder writes.                                                         *)
Lowest(s)  == s.cases[1].match
Highest(s) == s.cases[Len(s.cases)].match
Fixed(s, values, slots) ==
  IF IsTable(s.cases) THEN Holds(values, slots, s.id + 1, <<Lowest(s), Highest(s)>>)
  ELSE /\ Holds(values, slots, s.id + 1, <<Len(s.cases)>>)
       /\ \A i \in 1 .. Len(s.cases) : Holds(values, slots, s.id + 2 * i, <<s.cases[i].match>>)
Written(s, values) ==
  /\ values[s.id] = s.default
  /\ IF IsTable(s.cases)
     THEN \A v \in Lowest(s) .. Highest(s) : values[s.id + 3 + (v - Lowest(s))] = Branch(s, v)
     ELSE \A i \in 1 .. Len(s.cases) : values[s.id + 1 + 2 * i] = s.cases[i].jump

CasesOK(s) ==
  /\ Len(s.cases) > 0 /\ Len(s.cases) = Len(s.source) /\ Same(s.cases, Numbered(s.source))
  /\ \A i, j \in 1 .. Len(s.cases) : i < j => s.cases[i].match <= s.cases[j].match
SwitchOK(s) ==
  /\ CasesOK(s)
  /\ Fixed(s, pools[s.package].values, SlotsOf(s.package))
  /\ s.built => Written(s, pools[s.package].values)
SwitchesInv ==
  /\ \A i \in 1 .. Len(switches) : SwitchOK(switches[i])
  /\ \A i, j \in 1 .. Len(switches) :
       i # j /\ switches[i].package = switches[j].package => Slots(switches[i]) \cap Slots(switches[j]) = {}

ImageInv ==
  phase = "run" =>
    /\ \A i \in 1 .. Len(switches) : switches[i].built
    /\ image.texts = strings.buffer
    /\ \A p \in 1 .. Packages : \A n \in 1 .. Len(pools[p].values) :
         image.values[image.bases[p] + n + 1] = pools[p].values[n]

Inv == TypeInv /\ StringsInv /\ KnownInv /\ UsesInv /\ ListsInv /\ SwitchesInv /\ ImageInv

-----------------------------------------------------------------------------
(* What no step takes away: words that no switch statement writes, ids,    *)
(* members of lists.                                                       *)
Kept(a, slots, r, more) ==
  /\ \A n \in 1 .. Len(a.pool.values) : n \notin slots =>
       n \in 1 .. Len(r.pool.values) /\ n \notin more /\ r.pool.values[n] = a.pool.values[n]
  /\ \A t \in InternNames : \A k \in Key :
       Fetch(a.tables[t], k) # Missing => Fetch(r.tables[t], k) = Fetch(a.tables[t], k)
  /\ \A k \in ListKinds : Extends(a.lists[k], r.lists[k])

LEMMA HoldsKept ==
  ASSUME NEW a, NEW slots, NEW r, NEW more, Kept(a, slots, r, more), NEW id, NEW cells,
         Holds(a.pool.values, slots, id, cells)
  PROVE  Holds(r.pool.values, more, id, cells)
BY DEF Kept, Holds

LEMMA MoreIsKept ==
  ASSUME NEW a, NEW slots, NEW r, NEW more, Len(a.pool.values) \in Nat, Len(r.pool.values) \in Nat,
         KnownMore(a, r), \A n \in 1 .. Len(a.pool.values) : n \notin more
  PROVE  Kept(a, slots, r, slots \union more)
<1>1. Len(a.pool.values) <= Len(r.pool.values)
      /\ \A n \in 1 .. Len(a.pool.values) : r.pool.values[n] = a.pool.values[n]
  BY DEF KnownMore, Extends
<1>2. \A n \in 1 .. Len(a.pool.values) : n \in 1 .. Len(r.pool.values)
  BY <1>1
<1> QED
  BY <1>1, <1>2 DEF Kept, KnownMore

LEMMA InListExtends ==
  ASSUME NEW v, NEW w, Len(v) \in Nat, Len(w) \in Nat, Extends(v, w), NEW id, InList(v, id)
  PROVE  InList(w, id)
<1>1. PICK n \in 1 .. Len(v) : v[n] = id
  BY DEF InList
<1>2. n \in 1 .. Len(w) /\ w[n] = v[n]
  BY DEF Extends
<1> QED
  BY <1>1, <1>2 DEF InList

LEMMA KeyFacts ==
  ASSUME NEW c, NEW m, ConstantOK(c, m), c.kind # "string"
  PROVE  /\ TableOf(c.kind) \in InternNames /\ KeyOf(c) \in Key /\ Len(KeyOf(c)) \in Nat \ {0}
         /\ CellsOf(c) \in Seq(Int) /\ CellsOf(c) = Meaning(m, TableOf(c.kind), KeyOf(c))
<1>1. c.kind \in {"type", "long", "double", "sub", "var", "field"} /\ c.of \in Seq(Nat)
  BY DEF ConstantOK, Referable, Singles
<1>2. CASE c.kind = "type"
  <2>1. Len(c.of) = 2 /\ c.of[1] \in Nat /\ c.of[2] \in Nat
    BY <1>1, <1>2 DEF ConstantOK
  <2>2. RuntimeType(c.of) \in Seq(Nat) /\ Len(RuntimeType(c.of)) = 2
    BY <1>1, <2>1 DEF RuntimeType, BasicByte
  <2>3. RuntimeType(c.of) \in Seq(Int)
    BY <2>2
  <2> HIDE DEF RuntimeType
  <2>4. KeyOf(c) = RuntimeType(c.of) /\ CellsOf(c) = RuntimeType(c.of) /\ TableOf(c.kind) = "types"
    BY <1>2 DEF KeyOf, CellsOf, TableOf
  <2> QED
    BY <2>2, <2>3, <2>4 DEF Meaning, InternNames, Key
<1>3. CASE c.kind \in {"sub", "var", "field"}
  <2>1. KeyOf(c) = c.of /\ CellsOf(c) = c.of /\ TableOf(c.kind) = "ids" /\ Len(c.of) = 1
    BY <1>3 DEF KeyOf, CellsOf, TableOf, ConstantOK, Singles
  <2>2. c.of \in Seq(Int)
    BY <1>1
  <2> QED
    BY <1>1, <2>1, <2>2 DEF Meaning, InternNames, Key
<1>4. CASE c.kind \in {"long", "double"}
  <2>1. KeyOf(c) = <<c.of[2], c.of[1]>> /\ CellsOf(c) = c.of /\ TableOf(c.kind) = "wide" /\ Len(c.of) = 2
    BY <1>4 DEF KeyOf, CellsOf, TableOf, ConstantOK
  <2>2. c.of[1] \in Nat /\ c.of[2] \in Nat /\ c.of \in Seq(Int) /\ c \in m.constants /\ IsWide(c)
    BY <1>1, <1>4, <2>1 DEF ConstantOK, IsWide
  <2>3. KeyOf(c) \in Seq(Nat) /\ Len(KeyOf(c)) = 2
    BY <2>1, <2>2
  <2>4. <<KeyOf(c)[2], KeyOf(c)[1]>> = c.of
    <3>1. c.of = <<c.of[1], c.of[2]>>
      BY <2>1, <2>2
    <3> QED
      BY <2>1, <3>1
  <2>5. Meaning(m, "wide", KeyOf(c)) = <<KeyOf(c)[2], KeyOf(c)[1]>>
    BY <2>2 DEF Meaning
  <2>6. CellsOf(c) = Meaning(m, TableOf(c.kind), KeyOf(c)) /\ CellsOf(c) \in Seq(Int)
    <3>1. CellsOf(c) = <<KeyOf(c)[2], KeyOf(c)[1]>>
      BY <2>1, <2>4
    <3> QED
      BY <2>1, <2>2, <2>5, <3>1
  <2> QED
    BY <2>1, <2>3, <2>6 DEF InternNames, Key
<1> QED
  BY <1>1, <1>2, <1>3, <1>4

LEMMA FoundKept ==
  ASSUME NEW a, NEW slots, NEW r, NEW more, Kept(a, slots, r, more), NEW c, NEW m, ConstantOK(c, m),
         \A k \in ListKinds : Len(a.lists[k]) \in Nat /\ Len(r.lists[k]) \in Nat,
         NEW b, NEW d, Len(b) \in Nat, Len(d) \in Nat, Extends(b, d), NEW id, Found(c, a, slots, b, id)
  PROVE  Found(c, r, more, d, id)
<1>1. CASE c.kind = "string"
  <2>1. PICK start \in Nat \ {0} : Holds(a.pool.values, slots, id, <<Len(c.of), start>>) /\ Holds(b, {}, start, c.of)
    BY <1>1 DEF Found
  <2>4. id \in Nat
    BY <1>1 DEF Found
  <2>2. Holds(r.pool.values, more, id, <<Len(c.of), start>>)
    BY <2>1, HoldsKept
  <2>3. Holds(d, {}, start, c.of)
    BY <2>1, HoldsExtends
  <2> QED
    BY <1>1, <2>2, <2>3, <2>4 DEF Found
<1>2. CASE c.kind # "string"
  <2> DEFINE t == TableOf(c.kind)
             k == KeyOf(c)
  <2>1. /\ id = Fetch(a.tables[t], k) /\ id # Missing /\ t \in InternNames /\ k \in Key
        /\ c.kind \in ListKinds => InList(a.lists[c.kind], c.of[1])
        /\ c.kind = "type" => InList(a.lists["basic"], RuntimeType(c.of)[1])
    BY <1>2, KeyFacts DEF Found
  <2> HIDE DEF t, k
  <2>2. id = Fetch(r.tables[t], k)
    BY <2>1 DEF Kept
  <2>3. "basic" \in ListKinds /\ \A l \in ListKinds : Extends(a.lists[l], r.lists[l])
    BY DEF ListKinds, Kept
  <2>4. c.kind \in ListKinds => InList(r.lists[c.kind], c.of[1])
    BY <2>1, <2>3, InListExtends
  <2>5. c.kind = "type" => InList(r.lists["basic"], RuntimeType(c.of)[1])
    BY <2>1, <2>3, InListExtends
  <2> QED
    BY <1>2, <2>1, <2>2, <2>4, <2>5 DEF Found, t, k
<1> QED
  BY <1>1, <1>2

-----------------------------------------------------------------------------
(* What a step has to show.                                                *)

KnownNext(p) == [pool |-> pools'[p], tables |-> tables'[p], lists |-> lists'[p]]
SlotsNext(p) == UNION {Slots(switches'[i]) : i \in {i \in 1 .. Len(switches') : switches'[i].package = p}}
UseNext(u, i) ==
  /\ ConstantOK(u.constant, menu') /\ NodeOK(u, i) /\ u.node \in DOMAIN poolIds'
  /\ Found(u.constant, KnownNext(u.package), SlotsNext(u.package), strings'.buffer, poolIds'[u.node])
SwitchNext(s) ==
  /\ CasesOK(s)
  /\ Fixed(s, pools'[s.package].values, SlotsNext(s.package))
  /\ s.built => Written(s, pools'[s.package].values)

Steady(p) == KnownOK(KnownNext(p), SlotsNext(p), menu) /\ Kept(KnownOf(p), SlotsOf(p), KnownNext(p), SlotsNext(p))
KeepsAll  == menu' = menu /\ (\A p \in 1 .. Packages : Steady(p)) /\ Extends(strings.buffer, strings'.buffer)

LEMMA SelfKept ==
  ASSUME NEW a, NEW slots, \A k \in ListKinds : Len(a.lists[k]) \in Nat
  PROVE  Kept(a, slots, a, slots)
BY DEF Kept, Extends

LEMMA SelfSteady ==
  ASSUME KnownInv, NEW p \in 1 .. Packages, KnownNext(p) = KnownOf(p), SlotsNext(p) = SlotsOf(p)
  PROVE  Steady(p)
<1>1. KnownOK(KnownOf(p), SlotsOf(p), menu)
  BY DEF KnownInv
<1>2. Kept(KnownOf(p), SlotsOf(p), KnownOf(p), SlotsOf(p))
  BY <1>1, KnownLengths, SelfKept
<1> QED
  BY <1>1, <1>2 DEF Steady

(* A step that changes what one package knows, ...                         *)
LEMMA OneGrows ==
  ASSUME KnownInv, NEW p \in 1 .. Packages, NEW known, NEW more,
         KnownNext(p) = known, SlotsNext(p) = SlotsOf(p) \union more,
         \A q \in 1 .. Packages : q # p => KnownNext(q) = KnownOf(q) /\ SlotsNext(q) = SlotsOf(q),
         KnownOK(known, SlotsOf(p) \union more, menu), KnownMore(KnownOf(p), known),
         \A n \in 1 .. Len(pools[p].values) : n \notin more
  PROVE  \A q \in 1 .. Packages : Steady(q)
<1>1. SUFFICES ASSUME NEW q \in 1 .. Packages PROVE Steady(q)
  OBVIOUS
<1>2. CASE q # p
  BY <1>2, SelfSteady
<1>3. CASE q = p
  <2>1. KnownOK(KnownOf(p), SlotsOf(p), menu)
    BY DEF KnownInv
  <2>2. Len(KnownOf(p).pool.values) \in Nat /\ Len(known.pool.values) \in Nat
    BY <2>1, KnownLengths
  <2>3. KnownOf(p).pool.values = pools[p].values
    BY DEF KnownOf
  <2>4. Kept(KnownOf(p), SlotsOf(p), known, SlotsOf(p) \union more)
    BY <2>2, <2>3, MoreIsKept
  <2> QED
    BY <1>3, <2>4 DEF Steady
<1> QED
  BY <1>2, <1>3

(* ... keeps everything opcodes refer to, ...                              *)
LEMMA OldUses ==
  ASSUME KnownInv, KeepsAll, TextsOK(strings), TextsOK(strings'),
         NEW p \in 1 .. Packages, NEW c, ConstantOK(c, menu), NEW id,
         Found(c, KnownOf(p), SlotsOf(p), strings.buffer, id)
  PROVE  Found(c, KnownNext(p), SlotsNext(p), strings'.buffer, id)
<1> DEFINE a == KnownOf(p)
           r == KnownNext(p)
           slots == SlotsOf(p)
           more == SlotsNext(p)
           b == strings.buffer
           d == strings'.buffer
<1>1. KnownOK(a, slots, menu) /\ KnownOK(r, more, menu) /\ Kept(a, slots, r, more) /\ Extends(b, d)
  BY DEF KnownInv, KeepsAll, Steady
<1>2. \A k \in ListKinds : Len(a.lists[k]) \in Nat /\ Len(r.lists[k]) \in Nat
  <2> HIDE DEF a, r, slots, more
  <2> QED
    BY <1>1, KnownLengths
<1>3. Len(b) \in Nat /\ Len(d) \in Nat
  BY DEF TextsOK
<1>4. Found(c, a, slots, b, id)
  OBVIOUS
<1> HIDE DEF a, r, slots, more, b, d
<1>5. Found(c, r, more, d, id)
  BY <1>1, <1>2, <1>3, <1>4, FoundKept
<1> QED
  BY <1>5 DEF r, more, d

(* ... and the words that are not written.                                 *)
LEMMA OldWords ==
  ASSUME KeepsAll, NEW p \in 1 .. Packages, NEW id, NEW cells, Holds(pools[p].values, SlotsOf(p), id, cells)
  PROVE  Holds(pools'[p].values, SlotsNext(p), id, cells)
<1> DEFINE a == KnownOf(p)
           r == KnownNext(p)
           slots == SlotsOf(p)
           more == SlotsNext(p)
<1>1. Kept(a, slots, r, more)
  BY DEF KeepsAll, Steady
<1>2. a.pool.values = pools[p].values /\ r.pool.values = pools'[p].values
  BY DEF KnownOf, KnownNext
<1> HIDE DEF a, r
<1>3. Holds(r.pool.values, more, id, cells)
  BY <1>1, <1>2, HoldsKept
<1> QED
  BY <1>2, <1>3

LEMMA OldLists ==
  ASSUME ListsInv, KeepsAll,
         \A p \in 1 .. Packages : Finished(p)' => Finished(p) /\ lists'[p] = lists[p] /\ listIds'[p] = listIds[p]
  PROVE  ListsInv'
<1>1. SUFFICES ASSUME NEW p \in 1 .. Packages, Finished(p)', NEW k \in ListKinds
               PROVE  Holds(pools'[p].values, SlotsNext(p), listIds'[p][k], Counted(lists'[p][k]))
  BY DEF ListsInv, SlotsOf, SlotsNext
<1>2. Holds(pools[p].values, SlotsOf(p), listIds[p][k], Counted(lists[p][k]))
  BY <1>1 DEF ListsInv
<1> QED
  BY <1>1, <1>2, OldWords

LEMMA OldSwitch ==
  ASSUME KeepsAll, NEW s \in SwitchRecords, SwitchOK(s),
         s.built => Written(s, pools'[s.package].values)
  PROVE  SwitchNext(s)
<1>1. s.package \in 1 .. Packages
  BY DEF SwitchRecords
<1>2. Fixed(s, pools'[s.package].values, SlotsNext(s.package))
  BY <1>1, OldWords DEF SwitchOK, Fixed
<1> QED
  BY <1>2 DEF SwitchOK, SwitchNext

-----------------------------------------------------------------------------
(* Opcodes.                                                                *)

Shapes ==
  /\ pools = [p \in 1 .. Packages |-> pools[p]] /\ tables = [p \in 1 .. Packages |-> tables[p]]
  /\ lists = [p \in 1 .. Packages |-> lists[p]]

LEMMA SlotsStay ==
  ASSUME switches' = switches, NEW p
  PROVE  SlotsNext(p) = SlotsOf(p)
BY DEF SlotsOf, SlotsNext

LEMMA WrittenSlots ==
  ASSUME NEW s \in SwitchRecords, CasesOK(s)
  PROVE  /\ s.id \in Slots(s)
         /\ IsTable(s.cases) => \A x \in Lowest(s) .. Highest(s) : s.id + 3 + (x - Lowest(s)) \in Slots(s)
         /\ ~IsTable(s.cases) => \A j \in 1 .. Len(s.cases) : s.id + 1 + 2 * j \in Slots(s)
<1>1. s.id \in Slots(s)
  BY DEF Slots
<1>2. ASSUME IsTable(s.cases), NEW n \in Lowest(s) .. Highest(s)
      PROVE  s.id + 3 + (n - Lowest(s)) \in Slots(s)
  <2>1. s.id \in Nat /\ s.cases \in Seq(Case) /\ Len(s.cases) > 0
    BY DEF SwitchRecords, CasesOK
  <2>2. s.cases[1] \in Case /\ s.cases[Len(s.cases)] \in Case
    BY <2>1
  <2>3. Lowest(s) \in Int /\ Highest(s) \in Int
    BY <2>2 DEF Lowest, Highest, Case
  <2>4. s.id + 3 + (n - Lowest(s)) \in s.id + 3 .. s.id + 3 + Highest(s) - Lowest(s)
    BY <2>1, <2>3
  <2> QED
    BY <1>2, <2>4 DEF Slots, Lowest, Highest
<1>3. ASSUME ~IsTable(s.cases), NEW j \in 1 .. Len(s.cases) PROVE s.id + 1 + 2 * j \in Slots(s)
  BY <1>3 DEF Slots
<1> QED
  BY <1>1, <1>2, <1>3

LEMMA SwitchStays ==
  ASSUME TypeInv, KnownInv, SwitchesInv, KeepsAll, NEW i \in 1 .. Len(switches),
         Extends(pools[switches[i].package].values, pools'[switches[i].package].values)
  PROVE  SwitchNext(switches[i])
<1> DEFINE s == switches[i]
           v == pools[s.package].values
           w == pools'[s.package].values
<1>2. s \in SwitchRecords /\ SwitchOK(s)
  BY DEF TypeInv, SwitchesInv
<1>3. s.package \in 1 .. Packages
  BY <1>2 DEF SwitchRecords
<1>4. Slots(s) \subseteq SlotsOf(s.package)
  BY DEF SlotsOf
<1>5. SlotsOf(s.package) \subseteq 1 .. Len(v)
  BY <1>3 DEF KnownInv, KnownOK, KnownOf
<1>6. Extends(v, w)
  OBVIOUS
<1> HIDE DEF s, v, w
<1>7. \A n \in Slots(s) : w[n] = v[n]
  BY <1>4, <1>5, <1>6 DEF Extends
<1>8. Written(s, v) => Written(s, w)
  <2>1. SUFFICES ASSUME Written(s, v) PROVE Written(s, w)
    OBVIOUS
  <2>2. /\ s.id \in Slots(s)
        /\ IsTable(s.cases) => \A x \in Lowest(s) .. Highest(s) : s.id + 3 + (x - Lowest(s)) \in Slots(s)
        /\ ~IsTable(s.cases) => \A j \in 1 .. Len(s.cases) : s.id + 1 + 2 * j \in Slots(s)
    BY <1>2, WrittenSlots DEF SwitchOK
  <2> QED
    BY <1>7, <2>1, <2>2 DEF Written
<1>9. s.built => Written(s, w)
  BY <1>2, <1>8 DEF SwitchOK, v
<1>10. SwitchNext(s)
  <2>1. SwitchOK(s) /\ s \in SwitchRecords
    BY <1>2
  <2> QED
    BY <1>9, <2>1, OldSwitch DEF w
<1> QED
  BY <1>10 DEF s

LEMMA SwitchesStay ==
  ASSUME TypeInv, SwitchesInv, KeepsAll, switches' = switches,
         \A p \in 1 .. Packages : Extends(pools[p].values, pools'[p].values), KnownInv
  PROVE  SwitchesInv'
<1>1. SUFFICES ASSUME NEW i \in 1 .. Len(switches) PROVE SwitchNext(switches[i])
  BY DEF SwitchesInv, SwitchOK, SwitchNext, SlotsOf, SlotsNext
<1>2. switches[i].package \in 1 .. Packages
  <2>1. switches[i] \in SwitchRecords
    BY DEF TypeInv
  <2> QED
    BY <2>1 DEF SwitchRecords
<1> QED
  BY <1>2, SwitchStays

LEMMA UseStep ==
  ASSUME AtHome, Inv, phase = "check", NEW c, NEW node, NEW id, NEW known,
         KnownNext(package) = known, \A q \in 1 .. Packages : q # package => KnownNext(q) = KnownOf(q), Shapes',
         KnownOK(known, SlotsOf(package), menu), KnownMore(KnownOf(package), known),
         Refer(c, node, id), ConstantOK(c, menu), node \in ConstantNode(c),
         TextsOK(strings'), NamesKnown(strings'), Extends(strings.buffer, strings'.buffer),
         Found(c, known, SlotsOf(package), strings'.buffer, id),
         UNCHANGED <<phase, package, menu, listIds, switches, image>>
  PROVE  Inv'
<1> DEFINE u == [package |-> package, constant |-> c, node |-> node]
           n == Len(uses)
<1>1. TypeInv /\ KnownInv /\ ListsInv /\ UsesInv /\ SwitchesInv /\ TextsOK(strings) /\ package \in 1 .. Packages
  BY DEF Inv, StringsInv, TypeInv
<1>2. \A q \in 1 .. Packages : SlotsNext(q) = SlotsOf(q)
  BY SlotsStay
<1>3. KeepsAll
  <2>1. /\ SlotsNext(package) = SlotsOf(package) \union {} /\ SlotsOf(package) \union {} = SlotsOf(package)
        /\ \A q \in 1 .. Packages : q # package => KnownNext(q) = KnownOf(q) /\ SlotsNext(q) = SlotsOf(q)
        /\ \A k \in 1 .. Len(pools[package].values) : k \notin {}
    BY <1>1, <1>2
  <2>2. \A q \in 1 .. Packages : Steady(q)
    BY <1>1, <2>1, OneGrows
  <2> QED
    BY <2>2 DEF KeepsAll
<1>4. KnownInv'
  BY <1>3 DEF KnownInv, KeepsAll, Steady, KnownOf, SlotsOf, KnownNext, SlotsNext
<1>5. StringsInv'
  BY DEF StringsInv
<1>6. ListsInv'
  <2>1. \A p \in 1 .. Packages : Finished(p)' => Finished(p) /\ lists'[p] = lists[p] /\ listIds'[p] = listIds[p]
    <3>1. SUFFICES ASSUME NEW p \in 1 .. Packages, Finished(p)'
                   PROVE  Finished(p) /\ lists'[p] = lists[p] /\ listIds'[p] = listIds[p]
      OBVIOUS
    <3>2. p < package /\ p # package
      BY <1>1, <3>1 DEF Finished
    <3>3. KnownNext(p) = KnownOf(p)
      BY <3>2
    <3> QED
      BY <3>2, <3>3 DEF KnownOf, KnownNext, Finished
  <2> QED
    BY <1>1, <1>3, <2>1, OldLists
<1>7. SwitchesInv'
  <2>1. \A p \in 1 .. Packages : Extends(pools[p].values, pools'[p].values)
    <3>1. SUFFICES ASSUME NEW p \in 1 .. Packages PROVE Extends(pools[p].values, pools'[p].values)
      OBVIOUS
    <3>2. CASE p = package
      BY <3>2 DEF KnownMore, KnownOf, KnownNext
    <3>3. CASE p # package
      <4>1. pools'[p] = pools[p]
        BY <3>3 DEF KnownOf, KnownNext
      <4>2. KnownOK(KnownOf(p), SlotsOf(p), menu)
        BY <1>1 DEF KnownInv
      <4>3. Len(KnownOf(p).pool.values) \in Nat
        BY <4>2, KnownLengths
      <4> QED
        BY <4>1, <4>3 DEF KnownOf, Extends
    <3> QED
      BY <3>2, <3>3
  <2> QED
    BY <1>1, <1>3, <2>1, SwitchesStay
<1>8. /\ n \in Nat /\ uses \in Seq(Uses) /\ uses' = Append(uses, u)
      /\ poolIds' = [x \in DOMAIN poolIds \union {node} |-> IF x = node THEN id ELSE poolIds[x]]
  BY <1>1 DEF TypeInv, Refer
<1>9. /\ Len(uses') = n + 1 /\ uses'[n + 1] = u
      /\ \A i \in 1 .. n : uses'[i] = uses[i] /\ uses[i] \in Uses
  <2> HIDE DEF u
  <2> QED
    BY <1>8
<1>10. u \in Uses
  <2>1. node \in Nodes
    BY <1>8 DEF Nodes, ConstantNode, OwnNode
  <2> QED
    BY <1>1, <2>1 DEF Uses, ConstantOK
<1>11. TypeInv'
  <2>1. uses' \in Seq(Uses)
    BY <1>8, <1>10
  <2> QED
    BY <1>1, <2>1 DEF TypeInv, Shapes
<1>12. NodeOK(u, n + 1)
  BY DEF NodeOK, ConstantNode, OwnNode
<1>13. Found(c, KnownNext(package), SlotsNext(package), strings'.buffer, id)
  BY <1>1, <1>2
<1>14. UsesInv'
  <2>1. SUFFICES ASSUME NEW i \in 1 .. n + 1 PROVE UseNext(uses'[i], i)
    BY <1>9 DEF UsesInv, UseOK, UseNext, KnownOf, SlotsOf, KnownNext, SlotsNext
  <2>2. CASE i = n + 1
    <3>1. u.constant = c /\ u.node = node /\ u.package = package
      OBVIOUS
    <3> HIDE DEF u
    <3>2. uses'[i] = u
      BY <1>9, <2>2
    <3>3. node \in DOMAIN poolIds' /\ poolIds'[node] = id
      BY <1>8
    <3> QED
      BY <1>12, <1>13, <2>2, <3>1, <3>2, <3>3 DEF UseNext
  <2>3. CASE i # n + 1
    <3> DEFINE w == uses[i]
    <3>1. i \in 1 .. n /\ uses'[i] = w /\ w \in Uses
      BY <1>8, <1>9, <2>3
    <3>2. UseOK(w, i)
      BY <1>1, <3>1 DEF UsesInv
    <3>3. w.package \in 1 .. Packages
      BY <3>1 DEF Uses
    <3> HIDE DEF w, u
    <3>4. CASE w.node # node
      <4>1. w.node \in DOMAIN poolIds' /\ poolIds'[w.node] = poolIds[w.node]
        BY <1>8, <3>2, <3>4 DEF UseOK
      <4>2. Found(w.constant, KnownOf(w.package), SlotsOf(w.package), strings.buffer, poolIds[w.node])
            /\ ConstantOK(w.constant, menu)
        BY <3>2 DEF UseOK
      <4>3. Found(w.constant, KnownNext(w.package), SlotsNext(w.package), strings'.buffer, poolIds[w.node])
        BY <1>1, <1>3, <3>3, <4>2, OldUses
      <4> QED
        BY <3>1, <3>2, <4>1, <4>2, <4>3 DEF UseOK, UseNext
    <3>5. CASE w.node = node
      <4>1. w.constant = c /\ w.package = package
        <5>1. node # <<"node", i>>
          BY <1>8, <3>1 DEF ConstantNode, OwnNode
        <5>2. PICK s \in DOMAIN ConstantSubs :
                node = <<"sub", s>> /\ ConstantSubs[s] = w.constant /\ w.package \in Callers[s]
          BY <3>2, <3>5, <5>1 DEF UseOK, NodeOK
        <5>3. PICK r \in DOMAIN ConstantSubs :
                node = <<"sub", r>> /\ ConstantSubs[r] = c /\ package \in Callers[r]
          BY <5>2 DEF ConstantNode, OwnNode
        <5>4. r = s
          BY <5>2, <5>3
        <5> QED
          BY <5>2, <5>3, <5>4 DEF AtHome
      <4>2. w.node \in DOMAIN poolIds' /\ poolIds'[w.node] = id
        BY <1>8, <3>5
      <4> QED
        BY <1>13, <3>1, <3>2, <4>1, <4>2 DEF UseOK, UseNext
    <3> QED
      BY <3>4, <3>5
  <2> QED
    BY <2>2, <2>3
<1>15. ImageInv'
  BY DEF ImageInv
<1> QED
  BY <1>4, <1>5, <1>6, <1>7, <1>11, <1>14, <1>15 DEF Inv

-----------------------------------------------------------------------------
(* Texts.                                                                  *)

LEMMA PoolTextFacts ==
  ASSUME Hashing, TextsOK(strings), NEW text \in Seq(Nat), Len(text) < BufferCapacity
  PROVE  LET r == PoolText(text) IN
         /\ TextsOK(r) /\ Extends(strings.buffer, r.buffer)
         /\ NamesKnown(strings) => NamesKnown(r)
         /\ Fetch(r.symtable, Append(text, Nul)) # Missing
         /\ \A n \in Names : Fetch(strings.symtable, Append(n, Nul)) # Missing
                               => Fetch(r.symtable, Append(n, Nul)) # Missing
         /\ Holds(r.buffer, {}, Len(strings.buffer) + 1, text)
<1> DEFINE key == Append(text, Nul)
           b == strings.buffer
           capacity == IF Len(b) + 1 + Len(key) > strings.capacity THEN 2 * strings.capacity ELSE strings.capacity
           table == Insert(strings.symtable, key, Len(key), Len(b) + 1)
           r == [buffer |-> b \o key, capacity |-> capacity, symtable |-> table]
<1>1. /\ b \in Seq(Nat) /\ Len(b) \in Nat /\ strings.capacity \in Nat /\ HashOK(strings.symtable)
      /\ Len(b) + 1 <= strings.capacity /\ BufferCapacity <= strings.capacity /\ BufferCapacity \in Nat
      /\ strings = [buffer |-> b, capacity |-> strings.capacity, symtable |-> strings.symtable]
  BY CapacityAssumption DEF TextsOK
<1>2. key \in Seq(Nat) /\ Len(key) = Len(text) + 1 /\ Len(key) \in Nat
  BY DEF Nul
<1>3. PoolText(text) = r
  <2>1. \A x, y, z, p, q, s : strings = [buffer |-> x, capacity |-> y, symtable |-> z] =>
          [[strings EXCEPT !.buffer = p, !.capacity = q] EXCEPT !.symtable = s]
            = [buffer |-> p, capacity |-> q, symtable |-> s]
    <3>1. SUFFICES ASSUME NEW x, NEW y, NEW z, NEW p, NEW q, NEW s,
                          strings = [buffer |-> x, capacity |-> y, symtable |-> z]
                   PROVE  [[strings EXCEPT !.buffer = p, !.capacity = q] EXCEPT !.symtable = s]
                            = [buffer |-> p, capacity |-> q, symtable |-> s]
      OBVIOUS
    <3> DEFINE k == [strings EXCEPT !.buffer = p]
               l == [k EXCEPT !.capacity = q]
    <3>2. k = [buffer |-> p, capacity |-> y, symtable |-> z]
      BY <3>1
    <3>3. [strings EXCEPT !.buffer = p, !.capacity = q] = l
      OBVIOUS
    <3> HIDE DEF k
    <3>4. l = [buffer |-> p, capacity |-> q, symtable |-> z]
      BY <3>2
    <3> HIDE DEF l
    <3>5. [l EXCEPT !.symtable = s] = [buffer |-> p, capacity |-> q, symtable |-> s]
      BY <3>4
    <3> QED
      BY <3>3, <3>5
  <2>2. PoolText(text) = [[strings EXCEPT !.buffer = b \o key, !.capacity = capacity] EXCEPT !.symtable = table]
    BY DEF PoolText, AddText
  <2> HIDE DEF capacity, table, key
  <2>3. PoolText(text) = [buffer |-> b \o key, capacity |-> capacity, symtable |-> table]
    BY <1>1, <2>1, <2>2
  <2> QED
    BY <2>3
<1>4. /\ b \o key \in Seq(Nat) /\ Len(b \o key) = Len(b) + Len(key)
      /\ \A i \in 1 .. Len(b) : (b \o key)[i] = b[i]
      /\ \A i \in 1 .. Len(key) : (b \o key)[Len(b) + i] = key[i]
  BY <1>1, <1>2
<1>5. HashOK(table) /\ \A k \in Key : Fetch(table, k) = IF k = key THEN Len(b) + 1 ELSE Fetch(strings.symtable, k)
  <2> DEFINE h == strings.symtable
             bytes == Len(key)
             id == Len(b) + 1
  <2>1. HashOK(h) /\ key \in Key /\ bytes \in Nat /\ id \in Nat
    BY <1>1, <1>2 DEF Key
  <2>2. table = Insert(h, key, bytes, id)
    OBVIOUS
  <2> HIDE DEF key, b, table, bytes, id
  <2>3. /\ HashOK(Insert(h, key, bytes, id))
        /\ \A k \in Key : Fetch(Insert(h, key, bytes, id), k) = IF k = key THEN id ELSE Fetch(h, k)
    <3> HIDE DEF h
    <3> QED
      BY <2>1, TableIsMap
  <2> QED
    BY <2>2, <2>3 DEF id
<1>6. capacity \in Nat /\ Len(b) + Len(key) + 1 <= capacity /\ BufferCapacity <= capacity
  <2>1. Len(key) <= BufferCapacity
    BY <1>1, <1>2
  <2> HIDE DEF key, b
  <2> QED
    BY <1>1, <1>2, <2>1
<1> DEFINE d == b \o key
<1> HIDE DEF table, capacity, key, d
<1>7. Len(b) \in Nat /\ Len(d) \in Nat /\ Extends(b, d) /\ d \in Seq(Nat) /\ Len(d) = Len(b) + Len(key)
  BY <1>1, <1>2, <1>4 DEF Extends, d
<1>8. Holds(d, {}, Len(b) + 1, key)
  <2>1. ASSUME NEW j \in 1 .. Len(key)
        PROVE  Len(b) + 1 + j - 1 = Len(b) + j /\ Len(b) + j \in 1 .. Len(d)
    <3>1. j \in Nat /\ 1 <= j /\ j <= Len(key) /\ Len(b) \in Nat /\ Len(key) \in Nat
          /\ Len(d) = Len(b) + Len(key)
      BY <1>1, <1>2, <1>7
    <3> HIDE DEF b
    <3> QED
      BY <3>1
  <2> QED
    BY <1>4, <2>1 DEF Holds, d
<1>9. Holds(d, {}, Len(b) + 1, text)
  <2>1. \A j \in 1 .. Len(text) : j \in 1 .. Len(key) /\ key[j] = text[j]
    BY <1>2 DEF key
  <2> QED
    BY <1>8, <2>1 DEF Holds
<1>10. r.buffer = d /\ r.capacity = capacity /\ r.symtable = table
       /\ r = [buffer |-> d, capacity |-> capacity, symtable |-> table]
  BY DEF d
<1> HIDE DEF r, b
<1>11. \A k \in Key : Fetch(r.symtable, k) # Missing => Holds(d, {}, Fetch(r.symtable, k), k)
  <2>1. SUFFICES ASSUME NEW k \in Key, Fetch(table, k) # Missing PROVE Holds(d, {}, Fetch(table, k), k)
    BY <1>10
  <2>2. CASE k = key
    BY <1>5, <1>8, <2>2
  <2>3. CASE k # key
    <3>1. Fetch(table, k) = Fetch(strings.symtable, k)
      BY <1>5, <2>3
    <3>2. Holds(b, {}, Fetch(strings.symtable, k), k)
      BY <2>1, <3>1 DEF TextsOK, b
    <3> QED
      BY <1>7, <3>1, <3>2, HoldsExtends
  <2> QED
    BY <2>2, <2>3
<1>12. TextsOK(r)
  <2>1. table \in Hash
    BY <1>5 DEF HashOK
  <2>2. r \in [buffer : Seq(Nat), capacity : Nat, symtable : Hash]
    BY <1>6, <1>7, <1>10, <2>1
  <2>3. Len(d) + 1 <= capacity
    BY <1>6, <1>7
  <2> QED
    BY <1>5, <1>6, <1>10, <1>11, <2>2, <2>3 DEF TextsOK
<1>13. Len(b) + 1 # Missing /\ key \in Key
  BY <1>1, <1>2 DEF Missing, Key
<1>14. Fetch(r.symtable, key) # Missing
  BY <1>5, <1>10, <1>13
<1>15. \A n \in Names : Fetch(strings.symtable, Append(n, Nul)) # Missing
                               => Fetch(r.symtable, Append(n, Nul)) # Missing
  <2>1. \A n \in Names : Append(n, Nul) \in Key
    <3>1. \A n \in Names : n \in Seq(Nat)
      BY ProgramAssumption
    <3> QED
      BY <3>1 DEF Key, Nul
  <2> QED
    BY <1>5, <1>10, <1>13, <2>1
<1>16. NamesKnown(strings) => NamesKnown(r)
  BY <1>15 DEF NamesKnown
<1> QED
  BY <1>3, <1>7, <1>9, <1>10, <1>12, <1>14, <1>15, <1>16 DEF key, b

LEMMA SelfExtends ==
  ASSUME NEW b, Len(b) \in Nat
  PROVE  Extends(b, b)
BY DEF Extends

-----------------------------------------------------------------------------
(* Programs.                                                               *)

LEMMA ConstantFacts ==
  ASSUME menu \in Menus, NEW c \in menu.constants
  PROVE  /\ c = [kind |-> c.kind, of |-> c.of] /\ c.of \in Seq(Nat)
         /\ c.kind \in Pairs => Len(c.of) = 2
         /\ c.kind \in Singles => Len(c.of) = 1
         /\ c.kind # "array_init" => ConstantOK(c, menu)
         /\ c.kind = "string" => Len(c.of) < BufferCapacity
<1>1. /\ c \in [kind : Pairs \union Singles \union {"string"}, of : Seq(Nat)]
      /\ c.kind \in Pairs => Len(c.of) = 2
      /\ c.kind \in Singles => Len(c.of) = 1
  BY ProgramAssumption
<1>2. c.kind = "string" => Len(c.of) < BufferCapacity
  BY CapacityAssumption
<1>3. c.kind # "array_init" => c \in Referable
  BY <1>1 DEF Referable, Pairs
<1> QED
  BY <1>1, <1>2, <1>3 DEF ConstantOK, Pairs

LEMMA KeepFacts ==
  ASSUME TypeInv, NEW known, IsKnown(known), Keep(known)
  PROVE  /\ KnownNext(package) = known
         /\ \A q \in 1 .. Packages : q # package => KnownNext(q) = KnownOf(q)
         /\ Shapes'
<1>1. PICK a, b, c : known = [pool |-> a, tables |-> b, lists |-> c]
  BY DEF IsKnown
<1>2. known.pool = a /\ known.tables = b /\ known.lists = c
  BY <1>1
<1>3. /\ pools' = [pools EXCEPT ![package] = a] /\ tables' = [tables EXCEPT ![package] = b]
      /\ lists' = [lists EXCEPT ![package] = c] /\ package \in 1 .. Packages
      /\ pools = [p \in 1 .. Packages |-> pools[p]] /\ tables = [p \in 1 .. Packages |-> tables[p]]
      /\ lists = [p \in 1 .. Packages |-> lists[p]]
  BY <1>2 DEF Keep, TypeInv
<1>4. /\ pools'[package] = a /\ tables'[package] = b /\ lists'[package] = c
      /\ \A q \in 1 .. Packages : q # package =>
           pools'[q] = pools[q] /\ tables'[q] = tables[q] /\ lists'[q] = lists[q]
  BY <1>3
<1>5. Shapes'
  BY <1>3 DEF Shapes
<1> QED
  BY <1>1, <1>4, <1>5 DEF KnownNext, KnownOf

-----------------------------------------------------------------------------
(* The opcodes of each kind.                                               *)

(* What they have in common that leave the texts alone.                    *)
LEMMA KnownStep ==
  ASSUME AtHome, Inv, phase = "check", NEW c, NEW node, NEW known, NEW id,
         KnownOK(known, SlotsOf(package), menu), KnownMore(KnownOf(package), known), Keep(known),
         Refer(c, node, id), ConstantOK(c, menu), c.kind # "string", node \in ConstantNode(c),
         id = Fetch(known.tables[TableOf(c.kind)], KeyOf(c)), id # Missing,
         c.kind \in ListKinds => InList(known.lists[c.kind], c.of[1]),
         c.kind = "type" => InList(known.lists["basic"], RuntimeType(c.of)[1]),
         UNCHANGED <<phase, package, menu, listIds, strings, switches, image>>
  PROVE  Inv'
<1>1. TypeInv /\ IsKnown(known)
  BY DEF Inv, KnownOK
<1>2. /\ KnownNext(package) = known
      /\ \A q \in 1 .. Packages : q # package => KnownNext(q) = KnownOf(q)
      /\ Shapes'
  BY <1>1, KeepFacts
<1>3. Found(c, known, SlotsOf(package), strings'.buffer, id)
  BY DEF Found
<1>4. /\ TextsOK(strings) /\ NamesKnown(strings) /\ strings' = strings
  BY DEF Inv, StringsInv
<1>5. TextsOK(strings') /\ NamesKnown(strings')
  BY <1>4
<1>6. Extends(strings.buffer, strings'.buffer)
  <2>1. Len(strings.buffer) \in Nat
    BY <1>4 DEF TextsOK
  <2> QED
    BY <1>4, <2>1, SelfExtends
<1>7. UNCHANGED <<phase, package, menu, listIds, switches, image>>
  OBVIOUS
<1> QED
  BY <1>2, <1>3, <1>5, <1>6, <1>7, UseStep

LEMMA TwoWords ==
  ASSUME NEW s \in Seq(Nat), Len(s) = 2
  PROVE  s[1] \in Nat /\ s[2] \in Nat
OBVIOUS

LEMMA TypeWords ==
  ASSUME NEW of \in Seq(Nat), Len(of) = 2
  PROVE  /\ of[1] \in Nat /\ of[2] \in Nat
         /\ RuntimeType(of) \in Seq(Nat) /\ RuntimeType(of) \in Seq(Int) /\ RuntimeType(of) \in Key
         /\ Len(RuntimeType(of)) = 2 /\ RuntimeType(of)[1] \in Nat /\ RuntimeType(of)[2] \in Nat
<1>1. of[1] \in Nat /\ of[2] \in Nat
  BY TwoWords
<1>2. RuntimeType(of) \in Seq(Nat) /\ Len(RuntimeType(of)) = 2
  BY <1>1 DEF RuntimeType, BasicByte
<1> DEFINE r == RuntimeType(of)
<1> HIDE DEF r
<1>3. r \in Seq(Nat) /\ Len(r) = 2
  BY <1>2 DEF r
<1>4. r \in Seq(Int)
  BY <1>3
<1>5. r[1] \in Nat /\ r[2] \in Nat
  BY <1>3, TwoWords
<1> QED
  BY <1>1, <1>3, <1>4, <1>5 DEF Key, r

LEMMA TypeKnownFacts ==
  ASSUME Hashing, NEW known, NEW slots, NEW m, KnownOK(known, slots, m),
         NEW of \in Seq(Nat), Len(of) = 2
  PROVE  LET r == TypeKnown(known, of) IN
         /\ KnownOK(r, slots, m) /\ KnownMore(known, r)
         /\ Fetch(r.tables["types"], RuntimeType(of)) # Missing
         /\ InList(r.lists["basic"], RuntimeType(of)[1])
<1> DEFINE k == RuntimeType(of)
           listed == Listed(known, "basic", k[1])
           r == Interned(listed, "types", k, k)
<1>1. k \in Key /\ k \in Seq(Int) /\ k[1] \in Nat /\ Len(k) = 2
  BY TypeWords
<1>2. r = TypeKnown(known, of)
  BY DEF TypeKnown
<1> HIDE DEF k
<1>3. KnownOK(listed, slots, m) /\ KnownMore(known, listed) /\ InList(listed.lists["basic"], k[1])
  <2>1. "basic" \in ListKinds
    BY DEF ListKinds
  <2> QED
    BY <1>1, <2>1, ListedFacts
<1> HIDE DEF listed
<1>4. KnownOK(r, slots, m) /\ KnownMore(listed, r) /\ Fetch(r.tables["types"], k) # Missing
  <2>1. "types" \in InternNames /\ k = Meaning(m, "types", k)
    BY DEF InternNames, Meaning
  <2> QED
    BY <1>1, <1>3, <2>1, InternedFacts
<1> HIDE DEF r
<1>5. KnownMore(known, r)
  BY <1>3, <1>4, KnownMoreTransitive
<1>6. InList(r.lists["basic"], k[1])
  <2>1. Extends(listed.lists["basic"], r.lists["basic"])
    BY <1>4 DEF KnownMore, ListKinds
  <2>2. Len(listed.lists["basic"]) \in Nat /\ Len(r.lists["basic"]) \in Nat
    BY <1>3, <1>4, KnownLengths DEF ListKinds
  <2> QED
    BY <1>3, <2>1, <2>2, InListExtends
<1> QED
  BY <1>2, <1>4, <1>5, <1>6 DEF k

LEMMA KnownNow ==
  ASSUME Inv
  PROVE  /\ TypeInv /\ Known = KnownOf(package) /\ package \in 1 .. Packages
         /\ KnownOK(KnownOf(package), SlotsOf(package), menu) /\ menu \in Menus
<1>1. TypeInv /\ KnownInv
  BY DEF Inv
<1>2. package \in 1 .. Packages /\ menu \in Menus
  BY <1>1 DEF TypeInv
<1> QED
  BY <1>1, <1>2 DEF KnownInv, Known, KnownOf

LEMMA UseTypeStep ==
  ASSUME Hashing, AtHome, Inv, NEW c \in menu.constants, UseType(c)
  PROVE  Inv'
<1> DEFINE known == TypeKnown(KnownOf(package), c.of)
           id == Fetch(known.tables["types"], RuntimeType(c.of))
<1>1. phase = "check" /\ c.kind = "type" /\ KeyOf(c) = RuntimeType(c.of) /\ TableOf(c.kind) = "types"
  BY DEF UseType, Room, KeyOf, TableOf
<1>2. c.of \in Seq(Nat) /\ Len(c.of) = 2 /\ ConstantOK(c, menu)
  BY <1>1, KnownNow, ConstantFacts DEF Pairs
<1>3. Keep(known) /\ Refer(c, OwnNode, id)
  BY <1>1, KnownNow DEF UseType
<1>4. UNCHANGED <<phase, package, menu, listIds, strings, switches, image>>
  BY DEF UseType
<1>5. /\ KnownOK(known, SlotsOf(package), menu) /\ KnownMore(KnownOf(package), known)
      /\ id # Missing /\ InList(known.lists["basic"], RuntimeType(c.of)[1])
  BY <1>2, KnownNow, TypeKnownFacts
<1>6. id = Fetch(known.tables[TableOf(c.kind)], KeyOf(c)) /\ c.kind # "string" /\ c.kind \notin ListKinds
      /\ OwnNode \in ConstantNode(c)
  BY <1>1 DEF ListKinds, ConstantNode
<1> HIDE DEF known, id
<1> QED
  BY <1>1, <1>2, <1>3, <1>4, <1>5, <1>6, KnownStep

LEMMA UseIdStep ==
  ASSUME Hashing, AtHome, Inv, NEW c \in menu.constants, UseId(c)
  PROVE  Inv'
<1> DEFINE a == KnownOf(package)
           interned == Interned(a, "ids", c.of, c.of)
           known == Listed(interned, c.kind, c.of[1])
           id == Fetch(known.tables["ids"], c.of)
           slots == SlotsOf(package)
<1>1. /\ phase = "check" /\ c.kind \in {"sub", "var", "field"} /\ KeyOf(c) = c.of /\ TableOf(c.kind) = "ids"
      /\ c.kind # "string" /\ c.kind # "type" /\ c.kind \in ListKinds
  BY DEF UseId, Room, KeyOf, TableOf, ListKinds
<1>2. c.of \in Seq(Nat) /\ Len(c.of) = 1 /\ ConstantOK(c, menu)
  BY <1>1, KnownNow, ConstantFacts DEF Singles
<1>3. c.of[1] \in Nat /\ c.of \in Seq(Int) /\ c.of \in Key /\ c.of = Meaning(menu, "ids", c.of) /\ "ids" \in InternNames
  BY <1>2 DEF Key, Meaning, InternNames
<1>4. Keep(known) /\ Refer(c, OwnNode, id)
  BY KnownNow DEF UseId
<1>5. UNCHANGED <<phase, package, menu, listIds, strings, switches, image>>
  BY DEF UseId
<1>6. KnownOK(a, slots, menu)
  BY KnownNow
<1>7. id = Fetch(known.tables[TableOf(c.kind)], KeyOf(c)) /\ OwnNode \in ConstantNode(c)
  BY <1>1 DEF ConstantNode
<1> HIDE DEF a, id
<1>8. KnownOK(interned, slots, menu) /\ KnownMore(a, interned) /\ Fetch(interned.tables["ids"], c.of) # Missing
  BY <1>3, <1>6, InternedFacts
<1> HIDE DEF interned
<1>9. KnownOK(known, slots, menu) /\ KnownMore(interned, known) /\ InList(known.lists[c.kind], c.of[1])
  BY <1>1, <1>3, <1>8, ListedFacts
<1> HIDE DEF known, slots
<1>10. KnownMore(a, known)
  BY <1>6, <1>8, <1>9, KnownMoreTransitive
<1>11. id # Missing
  BY <1>3, <1>8, <1>9 DEF KnownMore, id
<1> QED
  BY <1>1, <1>2, <1>4, <1>5, <1>7, <1>9, <1>10, <1>11, KnownStep DEF a, slots

LEMMA WideConstantStep ==
  ASSUME Hashing, AtHome, Inv, NEW c \in menu.constants, NEW node, WideConstant(c, node)
  PROVE  Inv'
<1> DEFINE a == KnownOf(package)
           key == KeyOf(c)
           known == Interned(a, "wide", key, c.of)
           id == Fetch(known.tables["wide"], key)
           slots == SlotsOf(package)
<1>1. /\ phase = "check" /\ c.kind \in {"long", "double"} /\ TableOf(c.kind) = "wide"
      /\ c.kind # "string" /\ c.kind # "type" /\ c.kind \notin ListKinds /\ node \in ConstantNode(c)
  BY DEF WideConstant, IsWide, Room, TableOf, ListKinds
<1>2. ConstantOK(c, menu)
  BY <1>1, KnownNow, ConstantFacts
<1>3. /\ key \in Key /\ CellsOf(c) \in Seq(Int) /\ CellsOf(c) = Meaning(menu, "wide", key)
      /\ CellsOf(c) = c.of /\ "wide" \in InternNames
  BY <1>1, <1>2, KeyFacts DEF CellsOf, InternNames
<1>4. Keep(known) /\ Refer(c, node, id)
  BY KnownNow DEF WideConstant
<1>5. UNCHANGED <<phase, package, menu, listIds, strings, switches, image>>
  BY DEF WideConstant
<1>6. KnownOK(a, slots, menu)
  BY KnownNow
<1>7. id = Fetch(known.tables[TableOf(c.kind)], KeyOf(c))
  BY <1>1
<1> HIDE DEF a, key
<1>8. KnownOK(known, slots, menu) /\ KnownMore(a, known) /\ id # Missing
  BY <1>3, <1>6, InternedFacts
<1> HIDE DEF known, slots, id
<1> QED
  BY <1>1, <1>2, <1>4, <1>5, <1>7, <1>8, KnownStep DEF a, slots

(* The key of an array initialiser is in the table of 64 bit constants.    *)
LEMMA ArrayInitStep ==
  ASSUME Hashing, Supported, Inv, NEW c \in menu.constants, ArrayInit(c)
  PROVE  Inv'
<1> DEFINE slots == SlotsOf(package)
           a == KnownOf(package)
           array == <<c.of[1], c.of[2] + 1>>
           listed == Listed(a, "basic", c.of[1])
           element == IF IsNumeric(c.of) THEN a ELSE Interned(listed, "wide", c.of, c.of)
           again == Listed(element, "basic", array[1])
           init == Interned(again, "ids", array, array)
           known == TypeKnown(init, array)
           new == [kind |-> "type", of |-> array]
           id == Fetch(known.tables["types"], RuntimeType(array))
           OK(k) == KnownOK(k, slots, menu) /\ KnownMore(a, k)
<1>1. phase = "check" /\ c.kind = "array_init"
  BY DEF ArrayInit, Room
<1>2. c.of \in Seq(Nat) /\ Len(c.of) = 2 /\ c.of[1] \in Nat /\ c.of[2] \in Nat
  <2>1. c.of \in Seq(Nat) /\ Len(c.of) = 2
    BY <1>1, KnownNow, ConstantFacts DEF Pairs
  <2> QED
    BY <2>1
<1>3. array \in Seq(Nat) /\ Len(array) = 2 /\ array[1] \in Nat
  BY <1>2
<1>4. ConstantOK(new, menu)
  BY <1>3 DEF ConstantOK, Referable, Singles, IsWide
<1>5. /\ new.kind = "type" /\ new.of = array /\ KeyOf(new) = RuntimeType(array) /\ TableOf(new.kind) = "types"
      /\ new.kind # "string" /\ new.kind \notin ListKinds /\ OwnNode \in ConstantNode(new)
  BY DEF KeyOf, TableOf, ListKinds, ConstantNode
<1>6. Keep(known) /\ Refer(new, OwnNode, id)
  <2>1. Keep(known) /\ Refer(new, OwnNode, Fetch(known.tables["types"], KeyOf(new)))
    BY KnownNow DEF ArrayInit
  <2> QED
    BY <1>5, <2>1
<1>7. UNCHANGED <<phase, package, menu, listIds, strings, switches, image>>
  BY DEF ArrayInit
<1>8. OK(a)
  BY KnownNow, KnownLengths, KnownMoreSelf
<1>9. id = Fetch(known.tables[TableOf(new.kind)], KeyOf(new))
  BY <1>5
<1>10. "basic" \in ListKinds /\ "wide" \in InternNames /\ "ids" \in InternNames
  BY DEF ListKinds, InternNames
<1> HIDE DEF a, array, slots, id, known
<1>11. OK(listed)
  BY <1>2, <1>8, <1>10, ListedFacts
<1>12. OK(element)
  <2>1. CASE IsNumeric(c.of)
    BY <1>8, <2>1
  <2>2. CASE ~IsNumeric(c.of)
    <3>1. c.of = Meaning(menu, "wide", c.of)
      <4>1. CASE \E x \in menu.constants : IsWide(x) /\ KeyOf(x) = c.of
        <5>1. PICK x \in menu.constants : IsWide(x) /\ KeyOf(x) = c.of
          BY <4>1
        <5>2. x.of = c.of /\ x.kind \in {"long", "double"}
          BY <1>1, <2>2, <5>1, KnownNow DEF Supported, NoClash, IsWide
        <5>3. ConstantOK(x, menu)
          BY <5>2, KnownNow, ConstantFacts
        <5>4. CellsOf(x) = x.of /\ TableOf(x.kind) = "wide" /\ CellsOf(x) = Meaning(menu, TableOf(x.kind), KeyOf(x))
          BY <5>2, <5>3, KeyFacts DEF CellsOf, TableOf
        <5> QED
          BY <5>1, <5>2, <5>4
      <4>2. CASE ~\E x \in menu.constants : IsWide(x) /\ KeyOf(x) = c.of
        BY <4>2 DEF Meaning
      <4> QED
        BY <4>1, <4>2
    <3>2. c.of \in Key /\ c.of \in Seq(Int) /\ element = Interned(listed, "wide", c.of, c.of)
      BY <1>2, <2>2 DEF Key
    <3> HIDE DEF listed, element
    <3>3. KnownOK(element, slots, menu) /\ KnownMore(listed, element)
      BY <1>10, <1>11, <3>1, <3>2, InternedFacts
    <3> QED
      BY <1>8, <1>11, <3>3, KnownMoreTransitive
  <2> QED
    BY <2>1, <2>2
<1> HIDE DEF listed, element
<1>13. OK(again)
  <2>1. KnownOK(again, slots, menu) /\ KnownMore(element, again)
    BY <1>3, <1>10, <1>12, ListedFacts
  <2> HIDE DEF again
  <2> QED
    BY <1>8, <1>12, <2>1, KnownMoreTransitive
<1> HIDE DEF again
<1>14. OK(init)
  <2>1. array \in Key /\ array \in Seq(Int) /\ array = Meaning(menu, "ids", array)
    BY <1>3 DEF Key, Meaning
  <2>2. KnownOK(init, slots, menu) /\ KnownMore(again, init)
    BY <1>10, <1>13, <2>1, InternedFacts
  <2> HIDE DEF init
  <2> QED
    BY <1>8, <1>13, <2>2, KnownMoreTransitive
<1>15. /\ KnownOK(known, slots, menu) /\ KnownMore(init, known)
       /\ Fetch(known.tables["types"], RuntimeType(array)) # Missing
       /\ InList(known.lists["basic"], RuntimeType(array)[1])
  BY <1>3, <1>14, TypeKnownFacts DEF known
<1> HIDE DEF init
<1>16. KnownMore(a, known)
  BY <1>8, <1>14, <1>15, KnownMoreTransitive
<1>17. AtHome /\ id # Missing
  BY <1>15 DEF Supported, id
<1> HIDE DEF new
<1> QED
  BY <1>1, <1>4, <1>5, <1>6, <1>7, <1>9, <1>15, <1>16, <1>17, KnownStep DEF a, slots

LEMMA StringConstantStep ==
  ASSUME Hashing, AtHome, Inv, NEW c \in menu.constants, NEW node, StringConstant(c, node)
  PROVE  Inv'
<1> DEFINE a == KnownOf(package)
           start == Len(strings.buffer) + 1
           cells == <<Len(c.of), start>>
           known == [a EXCEPT !.pool = PushAll(a.pool, cells)]
           id == Len(a.pool.values) + 1
           slots == SlotsOf(package)
<1>1. phase = "check" /\ c.kind = "string" /\ node \in ConstantNode(c)
  BY DEF StringConstant, Room
<1>2. c.of \in Seq(Nat) /\ Len(c.of) < BufferCapacity /\ ConstantOK(c, menu) /\ Len(c.of) \in Nat
  BY <1>1, KnownNow, ConstantFacts
<1>3. TextsOK(strings) /\ NamesKnown(strings) /\ Len(strings.buffer) \in Nat
  <2>1. TextsOK(strings) /\ NamesKnown(strings)
    BY <1>1 DEF Inv, StringsInv
  <2> QED
    BY <2>1 DEF TextsOK
<1>4. start \in Nat \ {0} /\ cells \in Seq(Int)
  BY <1>2, <1>3
<1>5. /\ TextsOK(strings') /\ NamesKnown(strings') /\ Extends(strings.buffer, strings'.buffer)
      /\ Holds(strings'.buffer, {}, start, c.of)
  <2>1. strings' = PoolText(c.of)
    BY DEF StringConstant
  <2> QED
    BY <1>2, <1>3, <2>1, PoolTextFacts
<1>6. a = [pool |-> pools[package], tables |-> tables[package], lists |-> lists[package]]
  BY DEF KnownOf
<1>7. Refer(c, node, id)
  BY <1>6 DEF StringConstant, NextId
<1>8. UNCHANGED <<phase, package, menu, listIds, switches, image>>
  BY DEF StringConstant
<1>9. KnownOK(a, slots, menu) /\ TypeInv /\ package \in 1 .. Packages
  BY KnownNow
<1>10. /\ KnownNext(package) = known
       /\ \A q \in 1 .. Packages : q # package => KnownNext(q) = KnownOf(q)
       /\ Shapes'
  <2> DEFINE pool == PushAll(a.pool, cells)
  <2>1. /\ pools' = [pools EXCEPT ![package] = pool] /\ tables' = tables /\ lists' = lists
        /\ pools = [p \in 1 .. Packages |-> pools[p]] /\ tables = [p \in 1 .. Packages |-> tables[p]]
        /\ lists = [p \in 1 .. Packages |-> lists[p]]
    BY <1>6, <1>9 DEF StringConstant, TypeInv
  <2>2. known = [pool |-> pool, tables |-> tables[package], lists |-> lists[package]]
    <3>1. a = [pool |-> pools[package], tables |-> tables[package], lists |-> lists[package]]
      BY <1>6
    <3>2. \A x : [a EXCEPT !.pool = x] = [pool |-> x, tables |-> tables[package], lists |-> lists[package]]
      <4> HIDE DEF a
      <4> QED
        BY <3>1
    <3> QED
      BY <3>2
  <2> HIDE DEF pool, a, known
  <2>3. pools'[package] = pool /\ \A q \in 1 .. Packages : q # package => pools'[q] = pools[q]
    BY <1>9, <2>1
  <2>4. Shapes'
    BY <2>1 DEF Shapes
  <2> QED
    BY <2>1, <2>2, <2>3, <2>4 DEF KnownNext, KnownOf
<1> HIDE DEF a, start, slots
<1>11. KnownOK(known, slots, menu) /\ KnownMore(a, known)
  <2>1. {} \subseteq Len(a.pool.values) + 1 .. Len(a.pool.values) + Len(cells) /\ slots \union {} = slots
    OBVIOUS
  <2> HIDE DEF cells
  <2> QED
    BY <1>4, <1>9, <2>1, PoolGrows
<1>12. Holds(known.pool.values, slots, id, cells)
  <2>1. PoolOK(a.pool) /\ slots \subseteq 1 .. Len(a.pool.values) /\ a.pool.values \in Seq(Int) /\ IsKnown(a)
    BY <1>9 DEF KnownOK, PoolOK
  <2> DEFINE pool == PushAll(a.pool, cells)
  <2> HIDE DEF cells
  <2>2. pool.values = a.pool.values \o cells
    BY <1>4, <2>1, PushAllFacts
  <2>3. known.pool = pool
    BY <2>1 DEF IsKnown
  <2> QED
    BY <1>4, <2>1, <2>2, <2>3, PushedHolds
<1>13. id \in Nat
  BY <1>9, KnownLengths
<1> HIDE DEF known, cells, id
<1>14. Found(c, known, slots, strings'.buffer, id)
  <2>1. cells = <<Len(c.of), start>>
    BY DEF cells
  <2> QED
    BY <1>1, <1>4, <1>5, <1>12, <1>13, <2>1 DEF Found
<1> QED
  BY <1>1, <1>2, <1>5, <1>7, <1>8, <1>10, <1>11, <1>14, UseStep DEF a, slots

-----------------------------------------------------------------------------
(* Names, switch statements, the end of a package.                         *)

LEMMA UsesStay ==
  ASSUME TypeInv, KnownInv, UsesInv, KeepsAll, TextsOK(strings), TextsOK(strings'),
         uses' = uses, poolIds' = poolIds
  PROVE  UsesInv'
<1>1. SUFFICES ASSUME NEW i \in 1 .. Len(uses) PROVE UseNext(uses[i], i)
  BY DEF UsesInv, UseOK, UseNext, KnownOf, SlotsOf, KnownNext, SlotsNext
<1> DEFINE u == uses[i]
<1>2. u \in Uses /\ UseOK(u, i)
  BY DEF TypeInv, UsesInv
<1>3. u.package \in 1 .. Packages
  BY <1>2 DEF Uses
<1> HIDE DEF u
<1>4. /\ ConstantOK(u.constant, menu) /\ NodeOK(u, i) /\ u.node \in DOMAIN poolIds
      /\ Found(u.constant, KnownOf(u.package), SlotsOf(u.package), strings.buffer, poolIds[u.node])
  BY <1>2 DEF UseOK
<1>5. Found(u.constant, KnownNext(u.package), SlotsNext(u.package), strings'.buffer, poolIds[u.node])
  BY <1>3, <1>4, OldUses
<1>6. menu' = menu
  BY DEF KeepsAll
<1> QED
  BY <1>4, <1>5, <1>6 DEF UseNext, u

(* A step that leaves what packages know alone.                            *)
LEMMA CalmStep ==
  ASSUME Inv, UNCHANGED <<package, menu, pools, tables, lists, listIds, poolIds, uses, switches>>,
         phase' \in {"names", "check", "build", "run"}, \A p \in 1 .. Packages : Finished(p)' => Finished(p),
         TextsOK(strings'), Extends(strings.buffer, strings'.buffer)
  PROVE  TypeInv' /\ KnownInv' /\ UsesInv' /\ ListsInv' /\ SwitchesInv'
<1>1. TypeInv /\ KnownInv /\ ListsInv /\ UsesInv /\ SwitchesInv /\ TextsOK(strings)
  BY DEF Inv, StringsInv
<1>2. \A q \in 1 .. Packages : SlotsNext(q) = SlotsOf(q) /\ KnownNext(q) = KnownOf(q)
  BY SlotsStay DEF KnownNext, KnownOf
<1>3. KeepsAll
  BY <1>1, <1>2, SelfSteady DEF KeepsAll
<1>4. TypeInv'
  BY <1>1 DEF TypeInv
<1>5. KnownInv'
  BY <1>3 DEF KnownInv, KeepsAll, Steady, KnownOf, SlotsOf, KnownNext, SlotsNext
<1>6. UsesInv'
  BY <1>1, <1>3, UsesStay
<1>7. ListsInv'
  BY <1>1, <1>3, OldLists
<1>8. SwitchesInv'
  <2>1. \A p \in 1 .. Packages : Extends(pools[p].values, pools'[p].values)
    <3>1. SUFFICES ASSUME NEW p \in 1 .. Packages PROVE Extends(pools[p].values, pools[p].values)
      OBVIOUS
    <3>2. KnownOK(KnownOf(p), SlotsOf(p), menu)
      BY <1>1 DEF KnownInv
    <3>3. Len(KnownOf(p).pool.values) \in Nat
      BY <3>2, KnownLengths
    <3> QED
      BY <3>3 DEF KnownOf, Extends
  <2> QED
    BY <1>1, <1>3, <2>1, SwitchesStay
<1> QED
  BY <1>4, <1>5, <1>6, <1>7, <1>8

LEMMA StringsNow ==
  ASSUME Inv
  PROVE  TextsOK(strings) /\ Len(strings.buffer) \in Nat /\ Extends(strings.buffer, strings.buffer)
<1>1. TextsOK(strings)
  BY DEF Inv, StringsInv
<1>2. Len(strings.buffer) \in Nat
  BY <1>1 DEF TextsOK
<1> QED
  BY <1>1, <1>2, SelfExtends

LEMMA NameStep ==
  ASSUME Hashing, Inv, NEW text \in Names, Name(text)
  PROVE  Inv'
<1>1. text \in Seq(Nat) /\ Len(text) < BufferCapacity
  BY ProgramAssumption, CapacityAssumption
<1>2. TextsOK(strings') /\ Extends(strings.buffer, strings'.buffer)
  <2>1. strings' = NamePooled(text)
    BY DEF Name
  <2>2. CASE strings' = strings
    BY <2>2, StringsNow
  <2>3. CASE strings' = PoolText(text)
    BY <1>1, <2>3, StringsNow, PoolTextFacts
  <2> QED
    BY <2>1, <2>2, <2>3 DEF NamePooled
<1>3. /\ phase = "names" /\ phase' = phase
      /\ UNCHANGED <<package, menu, pools, tables, lists, listIds, poolIds, uses, switches>>
  BY DEF Name
<1>4. TypeInv' /\ KnownInv' /\ UsesInv' /\ ListsInv' /\ SwitchesInv'
  BY <1>2, <1>3, CalmStep DEF Finished
<1>5. StringsInv'
  BY <1>2, <1>3 DEF StringsInv
<1>6. ImageInv'
  BY <1>3 DEF ImageInv
<1> QED
  BY <1>4, <1>5, <1>6 DEF Inv

LEMMA NamesDoneStep ==
  ASSUME Inv, NamesDone
  PROVE  Inv'
<1>1. /\ phase = "names" /\ phase' = "check" /\ strings' = strings
      /\ UNCHANGED <<package, menu, pools, tables, lists, listIds, poolIds, uses, switches>>
  BY DEF NamesDone
<1>2. TextsOK(strings') /\ Extends(strings.buffer, strings'.buffer)
  BY <1>1, StringsNow
<1>3. TypeInv' /\ KnownInv' /\ UsesInv' /\ ListsInv' /\ SwitchesInv'
  BY <1>1, <1>2, CalmStep DEF Finished
<1>4. StringsInv'
  <2>1. NamesKnown(strings')
    BY <1>1 DEF NamesDone, NamesKnown
  <2> QED
    BY <1>2, <2>1 DEF StringsInv
<1>5. ImageInv'
  BY <1>1 DEF ImageInv
<1> QED
  BY <1>3, <1>4, <1>5 DEF Inv

LEMMA StutterStep ==
  ASSUME Inv, UNCHANGED vars
  PROVE  Inv'
<1>1. /\ phase' = phase /\ strings' = strings /\ image' = image
      /\ UNCHANGED <<package, menu, pools, tables, lists, listIds, poolIds, uses, switches>>
  BY DEF vars
<1>2. TextsOK(strings') /\ Extends(strings.buffer, strings'.buffer)
  BY <1>1, StringsNow
<1>3. phase' \in {"names", "check", "build", "run"}
  BY <1>1 DEF Inv, TypeInv
<1>4. TypeInv' /\ KnownInv' /\ UsesInv' /\ ListsInv' /\ SwitchesInv'
  BY <1>1, <1>2, <1>3, CalmStep DEF Finished
<1>5. StringsInv' /\ ImageInv'
  BY <1>1 DEF Inv, StringsInv, ImageInv, NamesKnown
<1> QED
  BY <1>4, <1>5 DEF Inv

LEMMA ConcatFacts ==
  ASSUME NEW a \in Seq(Int), NEW b \in Seq(Int)
  PROVE  /\ Len(a) \in Nat /\ Len(b) \in Nat /\ a \o b \in Seq(Int) /\ Len(a \o b) = Len(a) + Len(b)
         /\ \A j \in 1 .. Len(a) : (a \o b)[j] = a[j]
         /\ \A j \in 1 .. Len(b) : (a \o b)[Len(a) + j] = b[j]
<1>1. Len(a) \in Nat /\ Len(b) \in Nat /\ Len(a \o b) = Len(a) + Len(b)
  OBVIOUS
<1>2. \A j \in 1 .. Len(a) : (a \o b)[j] = a[j]
  OBVIOUS
<1>3. \A j \in 1 .. Len(b) : (a \o b)[Len(a) + j] = b[j]
  OBVIOUS
<1>4. a \o b \in Seq(Int)
  OBVIOUS
<1> QED
  BY <1>1, <1>2, <1>3, <1>4

LEMMA HoldsTwo ==
  ASSUME NEW w, NEW slots, NEW id \in Int, NEW x, NEW y, id \in 1 .. Len(w), id \notin slots, w[id] = x,
         id + 1 \in 1 .. Len(w), id + 1 \notin slots, w[id + 1] = y
  PROVE  Holds(w, slots, id, <<x, y>>)
<1>1. SUFFICES ASSUME NEW j \in 1 .. 2
               PROVE  /\ id + j - 1 \in 1 .. Len(w) /\ id + j - 1 \notin slots
                      /\ w[id + j - 1] = <<x, y>>[j]
  BY DEF Holds
<1>2. CASE j = 1
  <2>1. id + j - 1 = id
    BY <1>2
  <2> QED
    BY <1>2, <2>1
<1>3. CASE j = 2
  <2>1. id + j - 1 = id + 1
    BY <1>3
  <2> QED
    BY <1>3, <2>1
<1> QED
  BY <1>2, <1>3

LEMMA TableSlots ==
  ASSUME NEW len \in Nat, NEW id, id = len + 1, NEW min \in Int, NEW max \in Int, min <= max,
         NEW S, S = {id} \union (id + 3 .. id + 3 + max - min)
  PROVE  /\ S \subseteq len + 1 .. len + (4 + (max - min))
         /\ id + 1 \notin S /\ id + 2 \notin S
         /\ id + 1 \in len + 1 .. len + (4 + (max - min)) /\ id + 2 \in len + 1 .. len + (4 + (max - min))
OBVIOUS

LEMMA LookupSlots ==
  ASSUME NEW len \in Nat, NEW id, id = len + 1, NEW n \in Nat \ {0},
         NEW S, S = {id} \union {id + 1 + 2 * i : i \in 1 .. n}
  PROVE  /\ S \subseteq len + 1 .. len + (2 + 2 * n)
         /\ id + 1 \notin S /\ id + 1 \in len + 1 .. len + (2 + 2 * n)
         /\ \A i \in 1 .. n :
              /\ id + 2 * i \notin S /\ id + 2 * i \in len + 1 .. len + (2 + 2 * n)
              /\ 2 * i + 1 \in 1 .. 2 + 2 * n /\ len + (2 * i + 1) = id + 2 * i
<1>1. \A i \in 1 .. n : id + 1 + 2 * i \in len + 1 .. len + (2 + 2 * n) /\ id + 1 + 2 * i # id + 1
  OBVIOUS
<1>2. \A i, j \in 1 .. n : id + 1 + 2 * j # id + 2 * i
  OBVIOUS
<1>3. \A i \in 1 .. n :
        /\ id # id + 2 * i /\ id + 2 * i \in len + 1 .. len + (2 + 2 * n)
        /\ 2 * i + 1 \in 1 .. 2 + 2 * n /\ len + (2 * i + 1) = id + 2 * i
  OBVIOUS
<1>4. id \in len + 1 .. len + (2 + 2 * n) /\ id # id + 1 /\ id + 1 \in len + 1 .. len + (2 + 2 * n)
  OBVIOUS
<1> QED
  BY <1>1, <1>2, <1>3, <1>4

LEMMA CellsFacts ==
  ASSUME NEW c \in Seq(Case), Len(c) > 0, \A i, j \in 1 .. Len(c) : i < j => c[i].match <= c[j].match
  PROVE  LET cells == SwitchCells(c)  min == c[1].match  max == c[Len(c)].match IN
         /\ cells \in Seq(Int) /\ min \in Int /\ max \in Int /\ min <= max /\ Len(c) \in Nat \ {0}
         /\ IsTable(c) => Len(cells) = 4 + (max - min) /\ cells[2] = min /\ cells[3] = max
         /\ ~IsTable(c) =>
              Len(cells) = 2 + 2 * Len(c) /\ cells[2] = Len(c) /\ \A i \in 1 .. Len(c) : cells[2 * i + 1] = c[i].match
<1> DEFINE cells == SwitchCells(c)
           n == Len(c)
           min == c[1].match
           max == c[n].match
<1>1. n \in Nat /\ n > 0 /\ \A i \in 1 .. n : i \in Nat /\ c[i] \in Case
  OBVIOUS
<1>2. \A i \in 1 .. n : c[i].match \in Int
  BY <1>1 DEF Case
<1>3. min \in Int /\ max \in Int /\ min <= max
  <2>1. 1 \in 1 .. n /\ n \in 1 .. n
    BY <1>1
  <2>2. CASE n = 1
    BY <1>2, <2>1, <2>2
  <2>3. CASE n # 1
    BY <1>1, <1>2, <2>1, <2>3
  <2> QED
    BY <2>2, <2>3
<1>4. CASE IsTable(c)
  <2> DEFINE head == <<0, min, max>>
             rest == [i \in 1 .. max - min + 1 |-> 0]
  <2>1. cells = head \o rest
    BY <1>4 DEF SwitchCells
  <2>2. head \in Seq(Int) /\ Len(head) = 3 /\ head[2] = min /\ head[3] = max
    BY <1>3
  <2>3. rest \in Seq(Int) /\ Len(rest) = max - min + 1
    <3>1. max - min + 1 \in Nat
      BY <1>3
    <3> HIDE DEF max, min
    <3> QED
      BY <3>1
  <2> HIDE DEF head, rest, min, max, cells
  <2>4. cells \in Seq(Int) /\ Len(cells) = 3 + (max - min + 1) /\ \A j \in 1 .. 3 : cells[j] = head[j]
    <3>1. /\ head \o rest \in Seq(Int) /\ Len(head \o rest) = Len(head) + Len(rest)
          /\ \A j \in 1 .. Len(head) : (head \o rest)[j] = head[j]
      BY <2>2, <2>3, ConcatFacts
    <3> QED
      BY <2>1, <2>2, <2>3, <3>1
  <2>5. Len(cells) = 4 + (max - min) /\ cells[2] = head[2] /\ cells[3] = head[3]
    BY <1>3, <2>4
  <2> QED
    BY <1>1, <1>3, <1>4, <2>2, <2>4, <2>5 DEF cells, min, max
<1>5. CASE ~IsTable(c)
  <2> DEFINE head == <<0, n>>
             word(i) == IF i % 2 = 1 THEN c[(i + 1) \div 2].match ELSE 0
             rest == [i \in 1 .. 2 * n |-> word(i)]
  <2>1. cells = head \o rest
    BY <1>5 DEF SwitchCells
  <2>2. head \in Seq(Int) /\ Len(head) = 2 /\ head[2] = n
    BY <1>1
  <2>3. \A i \in 1 .. 2 * n : word(i) \in Int
    <3>1. \A i \in 1 .. 2 * n : i % 2 = 1 => (i + 1) \div 2 \in 1 .. n
      BY <1>1
    <3> HIDE DEF n
    <3> QED
      BY <1>2, <3>1
  <2>4. \A i \in 1 .. n : 2 * i - 1 \in 1 .. 2 * n /\ (2 * i - 1) % 2 = 1 /\ ((2 * i - 1) + 1) \div 2 = i
    <3> HIDE DEF n
    <3>1. \A i \in Nat : i > 0 => (2 * i - 1) % 2 = 1 /\ ((2 * i - 1) + 1) \div 2 = i
      OBVIOUS
    <3> QED
      BY <1>1, <3>1
  <2>5. \A i \in 1 .. n : word(2 * i - 1) = c[i].match
    BY <2>4
  <2> HIDE DEF word
  <2>6. rest \in Seq(Int) /\ Len(rest) = 2 * n
    <3>1. 2 * n \in Nat
      BY <1>1
    <3> HIDE DEF n
    <3> QED
      BY <2>3, <3>1
  <2>7. \A i \in 1 .. n : 2 * i - 1 \in 1 .. Len(rest) /\ rest[2 * i - 1] = c[i].match
    <3> HIDE DEF n
    <3> QED
      BY <2>4, <2>5, <2>6
  <2> HIDE DEF head, rest, cells, n
  <2>8. /\ cells \in Seq(Int) /\ Len(cells) = 2 + 2 * n /\ \A j \in 1 .. 2 : cells[j] = head[j]
        /\ \A j \in 1 .. Len(rest) : (head \o rest)[2 + j] = rest[j]
    <3>1. /\ head \o rest \in Seq(Int) /\ Len(head \o rest) = Len(head) + Len(rest)
          /\ \A j \in 1 .. Len(head) : (head \o rest)[j] = head[j]
          /\ \A j \in 1 .. Len(rest) : (head \o rest)[Len(head) + j] = rest[j]
      BY <2>2, <2>6, ConcatFacts
    <3> QED
      BY <2>1, <2>2, <2>6, <3>1
  <2>9. \A i \in 1 .. n : cells[2 * i + 1] = c[i].match
    <3>1. \A j \in 1 .. Len(rest) : (head \o rest)[2 + j] = rest[j]
      BY <2>8
    <3>2. \A i \in 1 .. n : 2 + (2 * i - 1) = 2 * i + 1
      BY <1>1
    <3> QED
      BY <2>1, <2>7, <3>1, <3>2
  <2> QED
    BY <1>1, <1>3, <1>5, <2>2, <2>8, <2>9 DEF cells, min, max, n
<1> QED
  BY <1>4, <1>5

(* The slots of a new switch statement are words just pushed, and its      *)
(* bounds and matches are not among them.                                  *)
LEMMA NewSwitchFacts ==
  ASSUME NEW v \in Seq(Int), NEW slots, slots \subseteq 1 .. Len(v), NEW s, s.cases \in Seq(Case), CasesOK(s),
         s.id = Len(v) + 1
  PROVE  LET cells == SwitchCells(s.cases) IN
         /\ cells \in Seq(Int) /\ Slots(s) \subseteq Len(v) + 1 .. Len(v) + Len(cells)
         /\ Fixed(s, v \o cells, slots \union Slots(s))
<1> DEFINE cells == SwitchCells(s.cases)
           n == Len(s.cases)
           min == Lowest(s)
           max == Highest(s)
           w == v \o cells
           all == slots \union Slots(s)
<1>1. /\ cells \in Seq(Int) /\ min \in Int /\ max \in Int /\ min <= max /\ n \in Nat \ {0}
      /\ IsTable(s.cases) => Len(cells) = 4 + (max - min) /\ cells[2] = min /\ cells[3] = max
      /\ ~IsTable(s.cases) =>
           Len(cells) = 2 + 2 * n /\ cells[2] = n /\ \A i \in 1 .. n : cells[2 * i + 1] = s.cases[i].match
  BY CellsFacts DEF CasesOK, Lowest, Highest
<1>2. /\ Len(v) \in Nat /\ Len(cells) \in Nat /\ w \in Seq(Int) /\ Len(w) = Len(v) + Len(cells)
      /\ \A j \in 1 .. Len(cells) : w[Len(v) + j] = cells[j]
  <2> HIDE DEF cells
  <2> QED
    BY <1>1, ConcatFacts
<1> DEFINE len == Len(v)
           id == s.id
           S == Slots(s)
<1>3. /\ IsTable(s.cases) => S = {id} \union (id + 3 .. id + 3 + max - min)
      /\ ~IsTable(s.cases) => S = {id} \union {id + 1 + 2 * i : i \in 1 .. n}
  BY DEF Slots, Lowest, Highest
<1>4. len \in Nat /\ id = len + 1 /\ slots \subseteq 1 .. len /\ Len(w) = len + Len(cells)
      /\ \A j \in 1 .. Len(cells) : w[len + j] = cells[j]
  BY <1>2
<1> HIDE DEF cells, w, min, max, n, len, id, S
<1>5. \A x : x \in len + 1 .. Len(w) => x \notin slots /\ x \in 1 .. Len(w)
  BY <1>2, <1>4
<1>6. CASE IsTable(s.cases)
  <2>1. Len(cells) = 4 + (max - min) /\ cells[2] = min /\ cells[3] = max /\ 2 \in 1 .. Len(cells) /\ 3 \in 1 .. Len(cells)
    BY <1>1, <1>6
  <2>2. /\ S \subseteq len + 1 .. len + Len(cells) /\ id + 1 \notin S /\ id + 2 \notin S
        /\ id + 1 \in len + 1 .. Len(w) /\ id + 2 \in len + 1 .. Len(w)
    <3> DEFINE e == len + (4 + (max - min))
    <3>1. /\ S \subseteq len + 1 .. e /\ id + 1 \notin S /\ id + 2 \notin S
          /\ id + 1 \in len + 1 .. e /\ id + 2 \in len + 1 .. e
      <4>1. len \in Nat /\ id = len + 1 /\ min \in Int /\ max \in Int /\ min <= max
            /\ S = {id} \union (id + 3 .. id + 3 + max - min)
        BY <1>1, <1>3, <1>4, <1>6
      <4> QED
        BY <4>1, TableSlots
    <3>2. e = len + Len(cells) /\ e = Len(w)
      BY <1>4, <2>1
    <3> HIDE DEF e
    <3> QED
      BY <3>1, <3>2
  <2>3. w[id + 1] = min /\ w[id + 2] = max
    <3>1. id + 1 = len + 2 /\ id + 2 = len + 3
      BY <1>4
    <3> QED
      BY <1>4, <2>1, <3>1
  <2>4. id + 1 \in 1 .. Len(w) /\ id + 2 \in 1 .. Len(w) /\ id + 1 \notin slots \union S /\ id + 2 \notin slots \union S
    BY <1>5, <2>2
  <2>5. Holds(w, slots \union S, id + 1, <<min, max>>)
    <3>1. id + 1 + 1 = id + 2 /\ id + 1 \in Int
      BY <1>4
    <3> QED
      BY <2>3, <2>4, <3>1, HoldsTwo
  <2> QED
    BY <1>1, <1>6, <2>2, <2>5 DEF Fixed, cells, w, min, max, S, id, len
<1>7. CASE ~IsTable(s.cases)
  <2>1. Len(cells) = 2 + 2 * n /\ cells[2] = n /\ 2 \in 1 .. Len(cells)
        /\ \A i \in 1 .. n : cells[2 * i + 1] = s.cases[i].match
    BY <1>1, <1>7
  <2>2. /\ S \subseteq len + 1 .. len + Len(cells) /\ id + 1 \notin S /\ id + 1 \in len + 1 .. Len(w)
        /\ \A i \in 1 .. n :
             /\ id + 2 * i \notin S /\ id + 2 * i \in len + 1 .. Len(w)
             /\ 2 * i + 1 \in 1 .. Len(cells) /\ len + (2 * i + 1) = id + 2 * i
    <3> DEFINE e == len + (2 + 2 * n)
    <3>1. /\ S \subseteq len + 1 .. e /\ id + 1 \notin S /\ id + 1 \in len + 1 .. e
          /\ \A i \in 1 .. n :
               /\ id + 2 * i \notin S /\ id + 2 * i \in len + 1 .. e
               /\ 2 * i + 1 \in 1 .. 2 + 2 * n /\ len + (2 * i + 1) = id + 2 * i
      <4>1. len \in Nat /\ id = len + 1 /\ n \in Nat \ {0} /\ S = {id} \union {id + 1 + 2 * i : i \in 1 .. n}
        BY <1>1, <1>3, <1>4, <1>7
      <4> QED
        BY <4>1, LookupSlots
    <3>2. e = len + Len(cells) /\ e = Len(w) /\ 2 + 2 * n = Len(cells)
      BY <1>1, <1>4, <2>1
    <3> HIDE DEF e
    <3> QED
      BY <3>1, <3>2
  <2>3. Holds(w, slots \union S, id + 1, <<n>>)
    <3>1. \A j \in 1 .. Len(<<n>>) : j = 1
      OBVIOUS
    <3>2. id + 1 + 1 - 1 = id + 1 /\ id + 1 = len + 2
      BY <1>4
    <3>3. w[id + 1] = n
      BY <1>4, <2>1, <3>2
    <3>4. id + 1 \in 1 .. Len(w) /\ id + 1 \notin slots \union S
      BY <1>5, <2>2
    <3> QED
      BY <3>1, <3>2, <3>3, <3>4 DEF Holds
  <2>4. ASSUME NEW i \in 1 .. n PROVE Holds(w, slots \union S, id + 2 * i, <<s.cases[i].match>>)
    <3> DEFINE x == id + 2 * i
               word == s.cases[i].match
    <3>1. x \notin S /\ x \in len + 1 .. Len(w) /\ 2 * i + 1 \in 1 .. Len(cells) /\ len + (2 * i + 1) = x
      BY <2>2
    <3>2. w[x] = word
      BY <1>4, <2>1, <3>1
    <3>3. x \in Int
      BY <1>1, <1>4
    <3> HIDE DEF x, word
    <3>4. x \in 1 .. Len(w) /\ x \notin slots \union S
      BY <1>5, <3>1
    <3>5. \A j \in 1 .. Len(<<word>>) : j = 1
      OBVIOUS
    <3>6. x + 1 - 1 = x
      BY <3>3
    <3>7. Holds(w, slots \union S, x, <<word>>)
      BY <3>2, <3>4, <3>5, <3>6 DEF Holds
    <3> QED
      BY <3>7 DEF x, word
  <2> QED
    BY <1>1, <1>7, <2>2, <2>3, <2>4 DEF Fixed, cells, w, n, S, id, len
<1> QED
  BY <1>6, <1>7

LEMMA NumberedFacts ==
  ASSUME NEW values \in Seq(Int), values # <<>>
  PROVE  LET c == Sorted(Numbered(values)) IN
         /\ c \in Seq(Case) /\ Len(c) = Len(values) /\ Len(c) > 0 /\ Same(c, Numbered(values))
         /\ \A i, j \in 1 .. Len(c) : i < j => c[i].match <= c[j].match
<1> DEFINE d == Numbered(values)
<1>1. Len(values) \in Nat /\ Len(values) > 0 /\ \A i \in 1 .. Len(values) : i \in Nat /\ values[i] \in Int
  OBVIOUS
<1>2. d \in Seq(Case) /\ Len(d) = Len(values)
  <2>1. \A i \in 1 .. Len(values) : [match |-> values[i], jump |-> i] \in Case
    BY <1>1 DEF Case
  <2> QED
    BY <1>1, <2>1 DEF Numbered
<1> HIDE DEF d
<1>3. /\ Sorted(d) \in Seq(Case) /\ Len(Sorted(d)) = Len(d) /\ Same(Sorted(d), d)
      /\ \A i, j \in 1 .. Len(d) : i < j => Sorted(d)[i].match <= Sorted(d)[j].match
  BY <1>2, CasesAreSorted
<1> QED
  BY <1>1, <1>2, <1>3 DEF d

LEMMA SlotsNextIs ==
  ASSUME switches \in Seq(SwitchRecords), NEW s, switches' = Append(switches, s)
  PROVE  \A p : SlotsNext(p) = SlotsOf(p) \union (IF p = s.package THEN Slots(s) ELSE {})
<1> DEFINE n == Len(switches)
<1>1. /\ n \in Nat /\ Len(switches') = n + 1 /\ switches'[n + 1] = s
      /\ \A i \in 1 .. n : switches'[i] = switches[i] /\ i \in 1 .. n + 1
      /\ \A i \in 1 .. n + 1 : i \in 1 .. n \/ i = n + 1
      /\ n + 1 \in 1 .. n + 1
  OBVIOUS
<1> HIDE DEF n
<1>2. SUFFICES ASSUME NEW p PROVE SlotsNext(p) = SlotsOf(p) \union (IF p = s.package THEN Slots(s) ELSE {})
  OBVIOUS
<1>3. \A x : x \in SlotsNext(p) <=> \E i \in 1 .. n + 1 : switches'[i].package = p /\ x \in Slots(switches'[i])
  BY <1>1 DEF SlotsNext
<1>4. \A x : x \in SlotsOf(p) <=> \E i \in 1 .. n : switches[i].package = p /\ x \in Slots(switches[i])
  BY DEF SlotsOf, n
<1>5. ASSUME NEW x, x \in SlotsNext(p) PROVE x \in SlotsOf(p) \/ (p = s.package /\ x \in Slots(s))
  BY <1>1, <1>3, <1>4, <1>5
<1>6. ASSUME NEW x, x \in SlotsOf(p) PROVE x \in SlotsNext(p)
  BY <1>1, <1>3, <1>4, <1>6
<1>7. ASSUME NEW x, p = s.package, x \in Slots(s) PROVE x \in SlotsNext(p)
  BY <1>1, <1>3, <1>7
<1> QED
  BY <1>5, <1>6, <1>7

LEMMA SwitchStep ==
  ASSUME Inv, NEW s \in menu.switches, Switch(s)
  PROVE  Inv'
<1> DEFINE a == KnownOf(package)
           v == a.pool.values
           cases == Sorted(Numbered(s.cases))
           cells == SwitchCells(cases)
           pool == PushAll(a.pool, cells)
           known == [a EXCEPT !.pool = pool]
           new == [package |-> package, id |-> Len(v) + 1, source |-> s.cases, cases |-> cases,
                   built |-> FALSE, default |-> IF s.default THEN Len(s.cases) + 1 ELSE 0]
           n == Len(switches)
<1>1. /\ TypeInv /\ KnownInv /\ ListsInv /\ UsesInv /\ SwitchesInv /\ TextsOK(strings) /\ package \in 1 .. Packages
      /\ KnownOK(a, SlotsOf(package), menu) /\ menu \in Menus /\ switches \in Seq(SwitchRecords)
  BY KnownNow DEF Inv, StringsInv, TypeInv
<1>2. s.cases \in Seq(Int) /\ s.cases # <<>> /\ Len(s.cases) \in Nat
  BY <1>1, ProgramAssumption
<1>3. /\ cases \in Seq(Case) /\ Len(cases) = Len(s.cases) /\ Len(cases) > 0 /\ Same(cases, Numbered(s.cases))
      /\ \A i, j \in 1 .. Len(cases) : i < j => cases[i].match <= cases[j].match
  BY <1>2, NumberedFacts
<1>4. a = [pool |-> pools[package], tables |-> tables[package], lists |-> lists[package]]
  BY DEF KnownOf
<1>5. /\ phase = "check" /\ pools' = [pools EXCEPT ![package] = pool] /\ switches' = Append(switches, new)
      /\ UNCHANGED <<phase, package, menu, tables, lists, listIds, strings, poolIds, uses, image>>
  BY <1>4 DEF Switch, Room, NextId
<1>6. /\ v \in Seq(Int) /\ Len(v) \in Nat /\ PoolOK(a.pool) /\ SlotsOf(package) \subseteq 1 .. Len(v) /\ IsKnown(a)
  BY <1>1 DEF KnownOK, PoolOK
<1> HIDE DEF cases, a
<1>7. /\ new.package = package /\ new.id = Len(v) + 1 /\ new.cases = cases /\ new.built = FALSE
      /\ new.source = s.cases
  OBVIOUS
<1>8. new \in SwitchRecords
  <2>1. new.default \in Nat
    BY <1>2
  <2>2. Len(v) + 1 \in Nat \ {0}
    BY <1>6
  <2> QED
    BY <1>1, <1>2, <1>3, <2>1, <2>2 DEF SwitchRecords
<1> HIDE DEF new
<1>9. CasesOK(new)
  BY <1>3, <1>7 DEF CasesOK
<1>10. /\ cells \in Seq(Int) /\ Slots(new) \subseteq Len(v) + 1 .. Len(v) + Len(cells)
       /\ Fixed(new, v \o cells, SlotsOf(package) \union Slots(new))
  <2>1. new.cases \in Seq(Case)
    BY <1>3, <1>7
  <2> HIDE DEF v
  <2>2. /\ SwitchCells(new.cases) \in Seq(Int)
        /\ Slots(new) \subseteq Len(v) + 1 .. Len(v) + Len(SwitchCells(new.cases))
        /\ Fixed(new, v \o SwitchCells(new.cases), SlotsOf(package) \union Slots(new))
    BY <1>6, <1>7, <1>9, <2>1, NewSwitchFacts
  <2> QED
    BY <1>7, <2>2
<1> HIDE DEF cells
<1>11. KnownOK(known, SlotsOf(package) \union Slots(new), menu) /\ KnownMore(a, known)
  BY <1>1, <1>10, PoolGrows
<1>12. pool.values = v \o cells
  BY <1>6, <1>10, PushAllFacts
<1> HIDE DEF pool
<1>13. /\ known = [pool |-> pool, tables |-> tables[package], lists |-> lists[package]] /\ known.pool = pool
  BY <1>4
<1> HIDE DEF known
<1>14. /\ pools' = [p \in 1 .. Packages |-> pools'[p]] /\ pools'[package] = pool
       /\ \A q \in 1 .. Packages : q # package => pools'[q] = pools[q]
  <2>1. pools = [p \in 1 .. Packages |-> pools[p]]
    BY <1>1 DEF TypeInv
  <2> QED
    BY <1>1, <1>5, <2>1
<1>15. KnownNext(package) = known /\ \A q \in 1 .. Packages : q # package => KnownNext(q) = KnownOf(q)
  BY <1>5, <1>13, <1>14 DEF KnownNext, KnownOf
<1>16. /\ SlotsNext(package) = SlotsOf(package) \union Slots(new)
       /\ \A q \in 1 .. Packages : q # package => SlotsNext(q) = SlotsOf(q)
  BY <1>1, <1>5, <1>7, SlotsNextIs
<1>17. KeepsAll
  <2>1. \A q \in 1 .. Packages : Steady(q)
    <3>1. \A x \in 1 .. Len(pools[package].values) : x \notin Slots(new)
      BY <1>4, <1>6, <1>10
    <3>2. KnownMore(KnownOf(package), known)
      BY <1>11 DEF a
    <3> QED
      BY <1>1, <1>11, <1>15, <1>16, <3>1, <3>2, OneGrows
  <2>2. Extends(strings.buffer, strings'.buffer)
    BY <1>5, StringsNow
  <2> QED
    BY <1>5, <2>1, <2>2 DEF KeepsAll
<1>18. KnownInv'
  BY <1>17 DEF KnownInv, KeepsAll, Steady, KnownOf, SlotsOf, KnownNext, SlotsNext
<1>19. TypeInv'
  <2>1. switches' \in Seq(SwitchRecords)
    BY <1>1, <1>5, <1>8
  <2> QED
    BY <1>1, <1>5, <1>14, <2>1 DEF TypeInv
<1>20. TextsOK(strings') /\ StringsInv'
  BY <1>1, <1>5 DEF Inv, StringsInv, NamesKnown
<1>21. UsesInv'
  BY <1>1, <1>5, <1>17, <1>20, UsesStay
<1>22. ListsInv'
  <2>1. \A p \in 1 .. Packages : Finished(p)' => Finished(p) /\ lists'[p] = lists[p] /\ listIds'[p] = listIds[p]
    BY <1>5 DEF Finished
  <2> QED
    BY <1>1, <1>17, <2>1, OldLists
<1>23. /\ n \in Nat /\ Len(switches') = n + 1 /\ switches'[n + 1] = new
       /\ \A i \in 1 .. n : switches'[i] = switches[i] /\ switches[i] \in SwitchRecords
       /\ \A i \in 1 .. n + 1 : i \in 1 .. n \/ i = n + 1
  <2>1. n \in Nat /\ \A i \in 1 .. n + 1 : i \in 1 .. n \/ i = n + 1
    BY <1>1
  <2> QED
    BY <1>1, <1>5, <2>1
<1>24. SwitchesInv'
  <2>1. SwitchNext(new)
    <3>1. Fixed(new, pools'[package].values, SlotsNext(package))
      BY <1>10, <1>12, <1>14, <1>16
    <3> QED
      BY <1>7, <1>9, <3>1 DEF SwitchNext
  <2>2. ASSUME NEW i \in 1 .. n PROVE SwitchNext(switches[i])
    <3> DEFINE q == switches[i].package
    <3>1. q \in 1 .. Packages
      BY <1>23 DEF SwitchRecords
    <3> HIDE DEF q
    <3>2. Extends(pools[q].values, pools'[q].values)
      <4>1. CASE q = package
        BY <1>4, <1>11, <1>13, <1>14, <4>1 DEF KnownMore
      <4>2. CASE q # package
        <5>1. KnownOK(KnownOf(q), SlotsOf(q), menu) /\ pools'[q] = pools[q]
          BY <1>1, <1>14, <3>1, <4>2 DEF KnownInv
        <5>2. Len(KnownOf(q).pool.values) \in Nat /\ KnownOf(q).pool = pools[q]
          BY <5>1, KnownLengths DEF KnownOf
        <5> QED
          BY <5>1, <5>2 DEF Extends
      <4> QED
        BY <4>1, <4>2
    <3> QED
      BY <1>1, <1>17, <3>2, SwitchStays DEF q
  <2>3. \A i \in 1 .. n + 1 : SwitchNext(switches'[i])
    BY <1>23, <2>1, <2>2
  <2>4. \A i \in 1 .. n : switches[i].package = package => Slots(switches[i]) \cap Slots(new) = {}
    <3>1. SUFFICES ASSUME NEW i \in 1 .. n, switches[i].package = package
                   PROVE  Slots(switches[i]) \cap Slots(new) = {}
      OBVIOUS
    <3>2. Slots(switches[i]) \subseteq SlotsOf(package)
      BY <3>1 DEF SlotsOf
    <3> QED
      BY <1>6, <1>10, <3>2
  <2>5. \A i, j \in 1 .. n :
          i # j /\ switches[i].package = switches[j].package => Slots(switches[i]) \cap Slots(switches[j]) = {}
    BY <1>1 DEF SwitchesInv
  <2>6. \A i, j \in 1 .. n + 1 :
          i # j /\ switches'[i].package = switches'[j].package => Slots(switches'[i]) \cap Slots(switches'[j]) = {}
    <3> HIDE DEF n
    <3>1. SUFFICES ASSUME NEW i \in 1 .. n + 1, NEW j \in 1 .. n + 1, i # j,
                          switches'[i].package = switches'[j].package
                   PROVE  Slots(switches'[i]) \cap Slots(switches'[j]) = {}
      OBVIOUS
    <3>2. CASE i \in 1 .. n /\ j \in 1 .. n
      BY <1>23, <2>5, <3>1, <3>2
    <3>3. CASE i = n + 1
      <4>1. j \in 1 .. n /\ switches'[i] = new /\ switches'[j] = switches[j] /\ switches[j].package = package
        BY <1>7, <1>23, <3>1, <3>3
      <4> QED
        BY <2>4, <4>1
    <3>4. CASE j = n + 1
      <4>1. i \in 1 .. n /\ switches'[j] = new /\ switches'[i] = switches[i] /\ switches[i].package = package
        BY <1>7, <1>23, <3>1, <3>4
      <4> QED
        BY <2>4, <4>1
    <3> QED
      BY <1>23, <3>2, <3>3, <3>4
  <2> QED
    BY <1>23, <2>3, <2>6 DEF SwitchesInv, SwitchOK, SwitchNext, SlotsOf, SlotsNext
<1>25. ImageInv'
  BY <1>5 DEF ImageInv
<1> QED
  BY <1>18, <1>19, <1>20, <1>21, <1>22, <1>24, <1>25 DEF Inv

LEMMA GrownHolds ==
  ASSUME NEW a, NEW slots, NEW m, KnownOK(a, slots, m), NEW cells \in Seq(Int)
  PROVE  LET r == WithPool(a, PushAll(a.pool, cells)) IN
         /\ KnownOK(r, slots, m) /\ KnownMore(a, r) /\ r.pool = PushAll(a.pool, cells)
         /\ r.tables = a.tables /\ r.lists = a.lists
         /\ Holds(r.pool.values, slots, Len(a.pool.values) + 1, cells)
<1> DEFINE pool == PushAll(a.pool, cells)
           r == WithPool(a, pool)
<1>1. PoolOK(a.pool) /\ slots \subseteq 1 .. Len(a.pool.values) /\ a.pool.values \in Seq(Int) /\ IsKnown(a)
  BY DEF KnownOK, PoolOK
<1>2. KnownOK(r, slots, m) /\ KnownMore(a, r)
  <2>1. {} \subseteq Len(a.pool.values) + 1 .. Len(a.pool.values) + Len(cells) /\ slots \union {} = slots
    OBVIOUS
  <2>2. KnownOK([a EXCEPT !.pool = PushAll(a.pool, cells)], slots, m)
        /\ KnownMore(a, [a EXCEPT !.pool = PushAll(a.pool, cells)])
    BY <2>1, PoolGrows
  <2> QED
    BY <2>2 DEF WithPool
<1>3. pool.values = a.pool.values \o cells
  BY <1>1, PushAllFacts
<1> HIDE DEF pool
<1>4. r.pool = pool /\ r.tables = a.tables /\ r.lists = a.lists
  BY <1>1, KnownWith
<1>5. Holds(a.pool.values \o cells, slots, Len(a.pool.values) + 1, cells)
  BY <1>1, PushedHolds
<1> QED
  BY <1>2, <1>3, <1>4, <1>5 DEF pool

LEMMA HoldsMore ==
  ASSUME NEW a, NEW b, NEW slots, NEW m, KnownOK(a, slots, m), KnownOK(b, slots, m), KnownMore(a, b),
         NEW id, NEW cells, Holds(a.pool.values, slots, id, cells)
  PROVE  Holds(b.pool.values, slots, id, cells)
BY KnownLengths, HoldsExtends DEF KnownMore

(* The lists of a package, each behind its length.                         *)
LEMMA FinishStep ==
  ASSUME Inv, FinishPackage
  PROVE  Inv'
<1> DEFINE slots == SlotsOf(package)
           a == KnownOf(package)
           l == lists[package]
           cells(k) == Counted(l[k])
           b == WithPool(a, PushAll(a.pool, cells("var")))
           c == WithPool(b, PushAll(b.pool, cells("field")))
           d == WithPool(c, PushAll(c.pool, cells("sub")))
           known == WithPool(d, PushAll(d.pool, cells("basic")))
           id(x) == Len(x.pool.values) + 1
           OK(x) == KnownOK(x, slots, menu)
<1>1. /\ TypeInv /\ KnownInv /\ ListsInv /\ UsesInv /\ SwitchesInv /\ TextsOK(strings) /\ package \in 1 .. Packages
      /\ KnownOK(a, slots, menu)
  BY KnownNow DEF Inv, StringsInv, TypeInv
<1>2. a.pool = pools[package] /\ a.lists = l /\ a.tables = tables[package]
      /\ a = [pool |-> pools[package], tables |-> tables[package], lists |-> lists[package]]
  BY DEF KnownOf
<1> HIDE DEF a
<1>3. \A k \in ListKinds : cells(k) \in Seq(Int)
  <2>1. \A k \in ListKinds : l[k] \in Seq(Nat)
    BY <1>1, <1>2 DEF KnownOK
  <2>2. ASSUME NEW s \in Seq(Nat) PROVE Counted(s) \in Seq(Int)
    <3>1. <<Len(s)>> \in Seq(Int) /\ s \in Seq(Int)
      OBVIOUS
    <3> QED
      BY <3>1, ConcatFacts DEF Counted
  <2> QED
    BY <2>1, <2>2
<1>4. cells("var") \in Seq(Int) /\ cells("field") \in Seq(Int) /\ cells("sub") \in Seq(Int) /\ cells("basic") \in Seq(Int)
  BY <1>3 DEF ListKinds
<1> HIDE DEF cells
<1>5. /\ OK(b) /\ KnownMore(a, b) /\ b.pool = PushAll(a.pool, cells("var"))
      /\ b.tables = a.tables /\ b.lists = a.lists /\ Holds(b.pool.values, slots, id(a), cells("var"))
  BY <1>1, <1>4, GrownHolds
<1> HIDE DEF b
<1>6. /\ OK(c) /\ KnownMore(b, c) /\ c.pool = PushAll(b.pool, cells("field"))
      /\ c.tables = b.tables /\ c.lists = b.lists /\ Holds(c.pool.values, slots, id(b), cells("field"))
  BY <1>4, <1>5, GrownHolds
<1> HIDE DEF c
<1>7. /\ OK(d) /\ KnownMore(c, d) /\ d.pool = PushAll(c.pool, cells("sub"))
      /\ d.tables = c.tables /\ d.lists = c.lists /\ Holds(d.pool.values, slots, id(c), cells("sub"))
  BY <1>4, <1>6, GrownHolds
<1> HIDE DEF d
<1>8. /\ OK(known) /\ KnownMore(d, known) /\ known.pool = PushAll(d.pool, cells("basic"))
      /\ known.tables = d.tables /\ known.lists = d.lists /\ Holds(known.pool.values, slots, id(d), cells("basic"))
  BY <1>4, <1>7, GrownHolds
<1> HIDE DEF known, slots
<1>9. /\ Holds(known.pool.values, slots, id(a), cells("var"))
      /\ Holds(known.pool.values, slots, id(b), cells("field"))
      /\ Holds(known.pool.values, slots, id(c), cells("sub"))
      /\ KnownMore(a, known)
  <2>1. KnownMore(c, known)
    BY <1>6, <1>7, <1>8, KnownMoreTransitive
  <2>2. KnownMore(b, known)
    BY <1>5, <1>6, <1>8, <2>1, KnownMoreTransitive
  <2>3. KnownMore(a, known)
    BY <1>1, <1>5, <1>8, <2>2, KnownMoreTransitive DEF slots
  <2> HIDE DEF id
  <2> QED
    BY <1>5, <1>6, <1>7, <1>8, <2>1, <2>2, <2>3, HoldsMore
<1> DEFINE ids == [var |-> id(a), field |-> id(b), sub |-> id(c), basic |-> id(d)]
<1>10. /\ phase = "check" /\ pools' = [pools EXCEPT ![package] = known.pool]
       /\ listIds' = [listIds EXCEPT ![package] = ids]
       /\ UNCHANGED <<menu, tables, lists, strings, poolIds, uses, switches, image>>
       /\ \/ package < Packages /\ package' = package + 1 /\ phase' = phase
          \/ ~(package < Packages) /\ phase' = "build" /\ package' = package
  <2>1. \A k : cells(k) = <<Len(l[k])>> \o l[k]
    BY DEF cells, Counted
  <2> QED
    BY <1>2, <1>5, <1>6, <1>7, <1>8, <2>1 DEF FinishPackage, NextId
<1>11. /\ id(a) \in Nat /\ id(b) \in Nat /\ id(c) \in Nat /\ id(d) \in Nat
  BY <1>1, <1>5, <1>6, <1>7, KnownLengths DEF slots
<1> HIDE DEF id
<1>12. /\ pools' = [p \in 1 .. Packages |-> pools'[p]] /\ pools'[package] = known.pool
       /\ \A q \in 1 .. Packages : q # package => pools'[q] = pools[q]
  <2>1. pools = [p \in 1 .. Packages |-> pools[p]]
    BY <1>1 DEF TypeInv
  <2> QED
    BY <1>1, <1>10, <2>1
<1>13. KnownNext(package) = known /\ \A q \in 1 .. Packages : q # package => KnownNext(q) = KnownOf(q)
  <2>1. IsKnown(known) /\ known.tables = tables[package] /\ known.lists = lists[package]
    BY <1>2, <1>5, <1>6, <1>7, <1>8 DEF KnownOK
  <2>2. known = [pool |-> known.pool, tables |-> tables[package], lists |-> lists[package]]
    BY <2>1 DEF IsKnown
  <2> QED
    BY <1>10, <1>12, <2>2 DEF KnownNext, KnownOf
<1>14. \A q \in 1 .. Packages : SlotsNext(q) = SlotsOf(q)
  BY <1>10, SlotsStay
<1>15. KeepsAll
  <2>1. \A q \in 1 .. Packages : Steady(q)
    <3>1. /\ SlotsNext(package) = SlotsOf(package) \union {} /\ KnownOK(known, SlotsOf(package) \union {}, menu)
          /\ KnownMore(KnownOf(package), known)
          /\ \A q \in 1 .. Packages : q # package => KnownNext(q) = KnownOf(q) /\ SlotsNext(q) = SlotsOf(q)
          /\ \A k \in 1 .. Len(pools[package].values) : k \notin {}
      <4>1. SlotsOf(package) \union {} = SlotsOf(package)
        OBVIOUS
      <4> QED
        BY <1>1, <1>8, <1>9, <1>13, <1>14, <4>1 DEF a, slots
    <3> QED
      BY <1>1, <1>13, <3>1, OneGrows
  <2> QED
    BY <1>10, <2>1, StringsNow DEF KeepsAll
<1>16. KnownInv'
  BY <1>15 DEF KnownInv, KeepsAll, Steady, KnownOf, SlotsOf, KnownNext, SlotsNext
<1>17. TypeInv'
  <2>1. phase' \in {"names", "check", "build", "run"} /\ package' \in 1 .. Packages
    <3>1. Packages \in Nat /\ package \in 1 .. Packages
      BY <1>1, CapacityAssumption
    <3> QED
      BY <1>10, <3>1
  <2>2. ids \in [ListKinds -> Nat]
    <3>1. ListKinds = {"var", "field", "sub", "basic"}
      BY DEF ListKinds
    <3> QED
      BY <1>11, <3>1
  <2> HIDE DEF ids
  <2>3. listIds' \in [1 .. Packages -> [ListKinds -> Nat]]
    <3>1. listIds \in [1 .. Packages -> [ListKinds -> Nat]]
      BY <1>1 DEF TypeInv
    <3> QED
      BY <1>10, <2>2, <3>1
  <2>4. /\ menu' = menu /\ tables' = tables /\ lists' = lists /\ uses' = uses /\ switches' = switches
    BY <1>10
  <2> QED
    BY <1>1, <1>12, <2>1, <2>3, <2>4 DEF TypeInv
<1>18. StringsInv' /\ TextsOK(strings')
  <2>1. phase' # "names" /\ NamesKnown(strings) /\ strings' = strings
    BY <1>10 DEF Inv, StringsInv
  <2> QED
    BY <1>1, <2>1 DEF StringsInv
<1>19. UsesInv'
  BY <1>1, <1>10, <1>15, <1>18, UsesStay
<1>20. ListsInv'
  <2>1. SUFFICES ASSUME NEW p \in 1 .. Packages, Finished(p)', NEW k \in ListKinds
                 PROVE  Holds(pools'[p].values, SlotsNext(p), listIds'[p][k], Counted(lists'[p][k]))
    BY DEF ListsInv, SlotsOf, SlotsNext
  <2>2. CASE p = package
    <3>1. listIds'[p] = ids /\ lists'[p] = l /\ SlotsNext(p) = slots /\ pools'[p] = known.pool
      <4>1. listIds \in [1 .. Packages -> [ListKinds -> Nat]]
        BY <1>1 DEF TypeInv
      <4> QED
        BY <1>10, <1>12, <1>14, <2>2, <4>1 DEF slots
    <3>2. Holds(known.pool.values, slots, ids[k], cells(k))
      BY <1>8, <1>9 DEF ListKinds
    <3> HIDE DEF ids
    <3> QED
      BY <3>1, <3>2 DEF cells
  <2>3. CASE p # package
    <3>1. Finished(p) /\ lists'[p] = lists[p] /\ listIds'[p] = listIds[p]
      <4>1. p < package
        <5>1. Packages \in Nat /\ package \in 1 .. Packages /\ phase' \in {"check", "build"}
          BY <1>1, <1>10, CapacityAssumption
        <5> QED
          BY <1>10, <2>1, <2>3, <5>1 DEF Finished
      <4>2. listIds'[p] = listIds[p]
        <5>1. listIds \in [1 .. Packages -> [ListKinds -> Nat]]
          BY <1>1 DEF TypeInv
        <5> QED
          BY <1>10, <2>3, <5>1
      <4> QED
        BY <1>10, <4>1, <4>2 DEF Finished
    <3>2. Holds(pools[p].values, SlotsOf(p), listIds[p][k], Counted(lists[p][k]))
      BY <1>1, <3>1 DEF ListsInv
    <3> QED
      BY <1>15, <3>1, <3>2, OldWords
  <2> QED
    BY <2>2, <2>3
<1>21. SwitchesInv'
  <2>1. \A p \in 1 .. Packages : Extends(pools[p].values, pools'[p].values)
    <3>1. SUFFICES ASSUME NEW p \in 1 .. Packages PROVE Extends(pools[p].values, pools'[p].values)
      OBVIOUS
    <3>2. CASE p = package
      BY <1>2, <1>9, <1>12, <3>2 DEF KnownMore
    <3>3. CASE p # package
      <4>1. KnownOK(KnownOf(p), SlotsOf(p), menu) /\ pools'[p] = pools[p]
        BY <1>1, <1>12, <3>3 DEF KnownInv
      <4>2. Len(KnownOf(p).pool.values) \in Nat /\ KnownOf(p).pool = pools[p]
        BY <4>1, KnownLengths DEF KnownOf
      <4> QED
        BY <4>1, <4>2 DEF Extends
    <3> QED
      BY <3>2, <3>3
  <2> QED
    BY <1>1, <1>10, <1>15, <2>1, SwitchesStay
<1>22. ImageInv'
  BY <1>10 DEF ImageInv
<1> QED
  BY <1>16, <1>17, <1>18, <1>19, <1>20, <1>21, <1>22 DEF Inv

-----------------------------------------------------------------------------
(* The builder.                                                            *)

LEMMA BranchFacts ==
  ASSUME NEW s \in SwitchRecords, NEW v
  PROVE  /\ Branch(s, v) \in Int
         /\ (\A k \in 1 .. Len(s.cases) : s.cases[k].match # v) => Branch(s, v) = s.default
         /\ (\E k \in 1 .. Len(s.cases) : s.cases[k].match = v) =>
              \E k \in 1 .. Len(s.cases) : s.cases[k].match = v /\ Branch(s, v) = s.cases[k].jump
<1> DEFINE M == {k \in DOMAIN s.cases : s.cases[k].match = v}
<1>1. s.cases \in Seq(Case) /\ s.default \in Nat
  BY DEF SwitchRecords
<1>2. DOMAIN s.cases = 1 .. Len(s.cases) /\ \A k \in 1 .. Len(s.cases) : k \in Nat /\ s.cases[k] \in Case
  BY <1>1
<1>3. \A k \in 1 .. Len(s.cases) : s.cases[k].jump \in Int
  BY <1>2 DEF Case
<1>4. Branch(s, v) = IF M = {} THEN s.default ELSE s.cases[Min(M)].jump
  BY DEF Branch
<1>5. M = {} <=> \A k \in 1 .. Len(s.cases) : s.cases[k].match # v
  BY <1>2
<1>6. M # {} => Min(M) \in M
  <2>1. M \subseteq Nat
    BY <1>2
  <2> HIDE DEF M
  <2>2. ASSUME M # {} PROVE Min(M) \in M
    <3>1. \E m \in M : \A k \in M : m <= k
      BY <2>1, <2>2, Least
    <3> QED
      BY <3>1 DEF Min
  <2> QED
    BY <2>2
<1>7. M # {} => \E k \in 1 .. Len(s.cases) : s.cases[k].match = v /\ Branch(s, v) = s.cases[k].jump
  <2>1. ASSUME M # {} PROVE Min(M) \in 1 .. Len(s.cases) /\ s.cases[Min(M)].match = v /\ Branch(s, v) = s.cases[Min(M)].jump
    BY <1>2, <1>4, <1>6, <2>1
  <2> HIDE DEF M
  <2> QED
    BY <2>1
<1>8. Branch(s, v) \in Int
  <2>1. CASE M = {}
    BY <1>1, <1>4, <2>1
  <2>2. CASE M # {}
    BY <1>3, <1>7, <2>2
  <2> QED
    BY <2>1, <2>2
<1> QED
  BY <1>4, <1>5, <1>7, <1>8

LEMMA TableIndex ==
  ASSUME NEW id \in Nat, NEW min \in Int, NEW max \in Int, NEW v \in min .. max
  PROVE  /\ id + 3 + (v - min) # id /\ id + 3 + (v - min) \in id + 3 .. id + 3 + max - min
         /\ min + (id + 3 + (v - min)) - id - 3 = v
OBVIOUS

LEMMA LookupIndex ==
  ASSUME NEW id \in Nat, NEW i \in Nat, i > 0
  PROVE  id + 1 + 2 * i # id /\ (id + 1 + 2 * i - id - 1) \div 2 = i
<1>1. id + 1 + 2 * i # id /\ id + 1 + 2 * i - id - 1 = 2 * i
  OBVIOUS
<1>2. (2 * i) \div 2 = i
  OBVIOUS
<1> QED
  BY <1>1, <1>2

(* The words of a switch statement are written, and no others.             *)
LEMMA PatchedFacts ==
  ASSUME NEW values \in Seq(Int), NEW s \in SwitchRecords, CasesOK(s), NEW slots, Fixed(s, values, slots),
         Slots(s) \subseteq 1 .. Len(values)
  PROVE  LET w == Patched(values, s) IN
         /\ w \in Seq(Int) /\ Len(w) = Len(values)
         /\ \A n \in 1 .. Len(values) : n \notin Slots(s) => w[n] = values[n]
         /\ Written(s, w)
<1> DEFINE w == Patched(values, s)
           id == s.id
           min == Lowest(s)
           max == Highest(s)
           count == Len(s.cases)
<1>1. /\ id \in Nat \ {0} /\ s.cases \in Seq(Case) /\ s.default \in Nat /\ count \in Nat \ {0}
      /\ DOMAIN s.cases = 1 .. count /\ DOMAIN values = 1 .. Len(values) /\ Len(values) \in Nat
  BY DEF SwitchRecords, CasesOK
<1>2. \A i \in 1 .. count : s.cases[i].jump \in Int /\ s.cases[i].match \in Int
  <2>1. \A i \in 1 .. count : s.cases[i] \in Case
    BY <1>1
  <2> QED
    BY <2>1 DEF Case
<1>3. min \in Int /\ max \in Int
  BY <1>1, <1>2 DEF Lowest, Highest
<1>4. CASE IsTable(s.cases)
  <2> DEFINE word(n) == IF n = id THEN s.default
                        ELSE IF n \in id + 3 .. id + 3 + max - min THEN Branch(s, min + n - id - 3)
                        ELSE values[n]
             f == [n \in 1 .. Len(values) |-> word(n)]
  <2>1. values[id + 1] = min /\ values[id + 2] = max
    <3>1. Holds(values, slots, id + 1, <<min, max>>)
      BY <1>4 DEF Fixed
    <3>2. 1 \in 1 .. Len(<<min, max>>) /\ 2 \in 1 .. Len(<<min, max>>)
          /\ id + 1 + 1 - 1 = id + 1 /\ id + 1 + 2 - 1 = id + 2
      BY <1>1
    <3> HIDE DEF id, min, max
    <3> QED
      BY <3>1, <3>2 DEF Holds
  <2>2. w = f
    BY <1>1, <1>4, <2>1 DEF Patched
  <2>3. Slots(s) = {id} \union (id + 3 .. id + 3 + max - min)
    BY <1>4 DEF Slots, Lowest, Highest
  <2>4. \A n \in 1 .. Len(values) : word(n) \in Int
    BY <1>1, BranchFacts
  <2>5. \A v \in min .. max :
          LET n == id + 3 + (v - min) IN
          n \in Slots(s) /\ n # id /\ n \in id + 3 .. id + 3 + max - min /\ min + n - id - 3 = v
    <3>1. \A v \in min .. max :
            LET n == id + 3 + (v - min) IN
            n # id /\ n \in id + 3 .. id + 3 + max - min /\ min + n - id - 3 = v
      <4> HIDE DEF id, min, max
      <4> QED
        BY <1>1, <1>3, TableIndex
    <3> QED
      BY <2>3, <3>1
  <2>6. \A v \in min .. max : word(id + 3 + (v - min)) = Branch(s, v)
    BY <2>5
  <2>7. word(id) = s.default /\ id \in Slots(s)
    BY <2>3
  <2>8. \A n \in 1 .. Len(values) : n \notin Slots(s) => word(n) = values[n]
    BY <2>3
  <2> HIDE DEF word
  <2>9. w \in Seq(Int) /\ Len(w) = Len(values) /\ \A n \in 1 .. Len(values) : w[n] = word(n)
    <3>1. f \in Seq(Int) /\ Len(f) = Len(values) /\ \A n \in 1 .. Len(values) : f[n] = word(n)
      BY <1>1, <2>4
    <3> HIDE DEF f, w
    <3> QED
      BY <2>2, <3>1
  <2> HIDE DEF w
  <2>10. Written(s, w)
    <3>1. w[id] = s.default
      BY <2>7, <2>9
    <3>2. \A v \in min .. max : w[id + 3 + (v - min)] = Branch(s, v)
      BY <2>5, <2>6, <2>9
    <3> QED
      BY <1>4, <3>1, <3>2 DEF Written
  <2> QED
    BY <2>8, <2>9, <2>10 DEF w
<1>5. CASE ~IsTable(s.cases)
  <2> DEFINE T == {id + 1 + 2 * i : i \in 1 .. count}
             word(n) == IF n = id THEN s.default
                        ELSE IF n \in T THEN s.cases[(n - id - 1) \div 2].jump
                        ELSE values[n]
             f == [n \in 1 .. Len(values) |-> word(n)]
  <2>1. w = f
    BY <1>1, <1>5 DEF Patched
  <2>2. Slots(s) = {id} \union T
    BY <1>5 DEF Slots
  <2>3. \A j \in 1 .. count : id + 1 + 2 * j \in T
    OBVIOUS
  <2>4. \A i \in 1 .. count : word(id + 1 + 2 * i) = s.cases[i].jump
    <3>1. SUFFICES ASSUME NEW i \in 1 .. count PROVE word(id + 1 + 2 * i) = s.cases[i].jump
      OBVIOUS
    <3> DEFINE n == id + 1 + 2 * i
    <3>2. n # id /\ (n - id - 1) \div 2 = i
      <4>1. id \in Nat /\ i \in Nat /\ i > 0
        BY <1>1
      <4> HIDE DEF id
      <4> QED
        BY <4>1, LookupIndex
    <3>3. n \in T
      BY <2>3
    <3> HIDE DEF T, id, count, n
    <3>4. word(n) = s.cases[i].jump
      BY <3>2, <3>3
    <3> QED
      BY <3>4 DEF n
  <2>5. \A n \in 1 .. Len(values) : word(n) \in Int
    <3>1. SUFFICES ASSUME NEW n \in 1 .. Len(values) PROVE word(n) \in Int
      OBVIOUS
    <3>2. CASE n = id
      BY <1>1, <3>2
    <3>3. CASE n # id /\ n \in T
      <4>1. PICK i \in 1 .. count : n = id + 1 + 2 * i
        BY <3>3
      <4> HIDE DEF word
      <4> QED
        BY <1>2, <2>4, <4>1
    <3>4. CASE n # id /\ n \notin T
      BY <3>4
    <3> QED
      BY <3>2, <3>3, <3>4
  <2>6. word(id) = s.default /\ id \in Slots(s)
    BY <2>2
  <2>7. \A n \in 1 .. Len(values) : n \notin Slots(s) => word(n) = values[n]
    BY <2>2
  <2> HIDE DEF word, T
  <2>8. w \in Seq(Int) /\ Len(w) = Len(values) /\ \A n \in 1 .. Len(values) : w[n] = word(n)
    <3>1. f \in Seq(Int) /\ Len(f) = Len(values) /\ \A n \in 1 .. Len(values) : f[n] = word(n)
      BY <1>1, <2>5
    <3> HIDE DEF f, w
    <3> QED
      BY <2>1, <3>1
  <2> HIDE DEF w
  <2>9. Written(s, w)
    <3>1. w[id] = s.default
      BY <2>6, <2>8
    <3>2. \A i \in 1 .. count : w[id + 1 + 2 * i] = s.cases[i].jump
      BY <2>2, <2>3, <2>4, <2>8
    <3> QED
      BY <1>5, <3>1, <3>2 DEF Written
  <2> QED
    BY <2>7, <2>8, <2>9 DEF w
<1> QED
  BY <1>4, <1>5

(* Only the parts of a switch statement that do not change count.          *)
Alike(s, t) ==
  /\ t.package = s.package /\ t.id = s.id /\ t.source = s.source /\ t.cases = s.cases /\ t.default = s.default

LEMMA AlikeFacts ==
  ASSUME NEW s, NEW t, Alike(s, t)
  PROVE  /\ Slots(t) = Slots(s)
         /\ CasesOK(s) => CasesOK(t)
         /\ \A values, slots : Fixed(s, values, slots) => Fixed(t, values, slots)
         /\ \A values : Written(s, values) => Written(t, values)
<1>1. Slots(t) = Slots(s)
  BY DEF Alike, Slots
<1>2. CasesOK(s) => CasesOK(t)
  BY DEF Alike, CasesOK
<1>3. \A values, slots : Fixed(s, values, slots) => Fixed(t, values, slots)
  BY DEF Alike, Fixed, Lowest, Highest
<1>4. ASSUME NEW values, Written(s, values) PROVE Written(t, values)
  <2>1. \A v : Branch(t, v) = Branch(s, v)
    BY DEF Alike, Branch
  <2>2. Lowest(t) = Lowest(s) /\ Highest(t) = Highest(s)
    BY DEF Alike, Lowest, Highest
  <2> QED
    BY <1>4, <2>1, <2>2 DEF Alike, Written
<1> QED
  BY <1>1, <1>2, <1>3, <1>4

LEMMA BuiltRecord ==
  ASSUME NEW s, NEW b, NEW c, NEW d, NEW e, NEW f, NEW g, NEW h,
         s = [package |-> b, id |-> c, source |-> d, cases |-> e, built |-> f, default |-> g]
  PROVE  [s EXCEPT !.built = h]
           = [package |-> b, id |-> c, source |-> d, cases |-> e, built |-> h, default |-> g]
OBVIOUS

LEMMA BuildSwitchStep ==
  ASSUME Inv, BuildSwitch
  PROVE  Inv'
<1>1. /\ TypeInv /\ KnownInv /\ ListsInv /\ UsesInv /\ SwitchesInv /\ TextsOK(strings)
      /\ switches \in Seq(SwitchRecords)
  BY DEF Inv, StringsInv, TypeInv
<1>2. PICK k \in DOMAIN switches :
        /\ switches' = [switches EXCEPT ![k].built = TRUE]
        /\ pools' = [pools EXCEPT ![switches[k].package].values = Patched(@, switches[k])]
  BY DEF BuildSwitch
<1> DEFINE n == Len(switches)
           s == switches[k]
           t == [s EXCEPT !.built = TRUE]
           p == s.package
           slots == SlotsOf(p)
           values == pools[p].values
           w == Patched(values, s)
           a == KnownOf(p)
           r == KnownNext(p)
<1>3. /\ phase = "build"
      /\ UNCHANGED <<phase, package, menu, tables, lists, listIds, strings, poolIds, uses, image>>
  BY DEF BuildSwitch
<1>4. k \in 1 .. n /\ s \in SwitchRecords /\ n \in Nat
  BY <1>1
<1>5. p \in 1 .. Packages /\ t \in SwitchRecords /\ Alike(s, t)
  <2>1. PICK b \in 1 .. Packages, c \in Nat \ {0}, d \in Seq(Int), e \in Seq(Case), f \in BOOLEAN, g \in Nat :
          s = [package |-> b, id |-> c, source |-> d, cases |-> e, built |-> f, default |-> g]
    BY <1>4 DEF SwitchRecords
  <2> HIDE DEF s
  <2>2. t = [package |-> b, id |-> c, source |-> d, cases |-> e, built |-> TRUE, default |-> g]
    <3> DEFINE h == TRUE
    <3>1. t = [s EXCEPT !.built = h]
      OBVIOUS
    <3> HIDE DEF h, t
    <3>2. t = [package |-> b, id |-> c, source |-> d, cases |-> e, built |-> h, default |-> g]
      BY <2>1, <3>1, BuiltRecord
    <3> QED
      BY <3>2 DEF h
  <2>3. p = b
    BY <2>1
  <2> QED
    BY <2>1, <2>2, <2>3 DEF SwitchRecords, Alike
<1>6. /\ switches' \in Seq(SwitchRecords) /\ Len(switches') = n /\ switches'[k] = t
      /\ \A i \in 1 .. n : i # k => switches'[i] = switches[i]
  <2> HIDE DEF t
  <2>1. switches' = [switches EXCEPT ![k] = t]
    BY <1>2 DEF t
  <2> QED
    BY <1>1, <1>4, <1>5, <2>1, ExceptSeq
<1> HIDE DEF t
<1>7. SwitchOK(s)
  BY <1>1, <1>4 DEF SwitchesInv
<1>8. CasesOK(s) /\ Fixed(s, values, slots)
  BY <1>7 DEF SwitchOK
<1>9. KnownOK(a, slots, menu) /\ a.pool = pools[p]
  BY <1>1, <1>5 DEF KnownInv, KnownOf
<1>10. values \in Seq(Int) /\ slots \subseteq 1 .. Len(values) /\ PoolOK(pools[p]) /\ Len(values) \in Nat
  BY <1>9 DEF KnownOK, PoolOK
<1>11. Slots(s) \subseteq slots
  BY <1>4 DEF SlotsOf
<1> HIDE DEF s, slots, values, p
<1>12. /\ w \in Seq(Int) /\ Len(w) = Len(values) /\ Written(s, w)
       /\ \A i \in 1 .. Len(values) : i \notin Slots(s) => w[i] = values[i]
  <2>1. Slots(s) \subseteq 1 .. Len(values)
    BY <1>10, <1>11
  <2> QED
    BY <1>4, <1>8, <1>10, <2>1, PatchedFacts
<1> HIDE DEF w
<1>13. /\ pools'[p] = [values |-> w, capacity |-> pools[p].capacity]
       /\ \A q \in 1 .. Packages : q # p => pools'[q] = pools[q]
       /\ pools' = [q \in 1 .. Packages |-> pools'[q]]
  <2>1. pools = [q \in 1 .. Packages |-> pools[q]]
    BY <1>1 DEF TypeInv
  <2> DEFINE x == [pools[p] EXCEPT !.values = w]
  <2>2. pools' = [pools EXCEPT ![p] = x]
    BY <1>2 DEF s, p, w, values
  <2>3. x = [values |-> w, capacity |-> pools[p].capacity]
    <3>1. pools[p] = [values |-> pools[p].values, capacity |-> pools[p].capacity]
      BY <1>10 DEF PoolOK
    <3> QED
      BY <3>1
  <2> HIDE DEF x
  <2> QED
    BY <1>5, <2>1, <2>2, <2>3
<1>14. \A i \in 1 .. n : Alike(switches[i], switches'[i])
  <2>1. \A i \in 1 .. n : i # k => Alike(switches[i], switches'[i])
    BY <1>6 DEF Alike
  <2> QED
    BY <1>5, <1>6, <2>1 DEF s
<1>15. \A q : SlotsNext(q) = SlotsOf(q)
  <2>1. \A i \in 1 .. n : Slots(switches'[i]) = Slots(switches[i]) /\ switches'[i].package = switches[i].package
    <3>1. \A x, y : Alike(x, y) => Slots(y) = Slots(x) /\ y.package = x.package
      BY AlikeFacts DEF Alike
    <3> QED
      BY <1>14, <3>1
  <2>2. SUFFICES ASSUME NEW q PROVE SlotsNext(q) = SlotsOf(q)
    OBVIOUS
  <2>3. \A x : x \in SlotsNext(q) <=> \E i \in 1 .. n : switches'[i].package = q /\ x \in Slots(switches'[i])
    BY <1>6 DEF SlotsNext
  <2>4. \A x : x \in SlotsOf(q) <=> \E i \in 1 .. n : switches[i].package = q /\ x \in Slots(switches[i])
    BY DEF SlotsOf
  <2> HIDE DEF n
  <2>5. \A x : x \in SlotsNext(q) <=> x \in SlotsOf(q)
    BY <2>1, <2>3, <2>4
  <2> QED
    BY <2>5
<1>16. /\ r.pool = pools'[p] /\ r.tables = a.tables /\ r.lists = a.lists /\ IsKnown(r)
       /\ \A q \in 1 .. Packages : q # p => KnownNext(q) = KnownOf(q)
  BY <1>3, <1>13 DEF KnownNext, KnownOf, IsKnown
<1> HIDE DEF a, r
<1>17. r.pool.values = w /\ PoolOK(r.pool) /\ a.pool.values = values
  <2>1. /\ r.pool = [values |-> w, capacity |-> pools[p].capacity]
        /\ pools[p].capacity \in Nat /\ Len(values) + 1 <= pools[p].capacity
    BY <1>10, <1>13, <1>16 DEF PoolOK, values
  <2>2. Len(w) + 1 <= pools[p].capacity
    BY <1>12, <2>1
  <2> QED
    BY <1>9, <1>12, <2>1, <2>2 DEF PoolOK, values
<1>18. \A i \in 1 .. Len(values) : i \notin slots => i \in 1 .. Len(w) /\ w[i] = values[i]
  BY <1>11, <1>12
<1>19. \A id, cells : Holds(values, slots, id, cells) => Holds(w, slots, id, cells)
  BY <1>18 DEF Holds
<1>20. KnownOK(r, slots, menu) /\ Kept(a, slots, r, slots)
  <2>1. InternedOK(r, slots, menu)
    BY <1>9, <1>16, <1>17, <1>19 DEF KnownOK, InternedOK
  <2>2. slots \subseteq 1 .. Len(w)
    BY <1>10, <1>12
  <2>3. KnownOK(r, slots, menu)
    BY <1>9, <1>16, <1>17, <2>1, <2>2 DEF KnownOK
  <2>4. \A l \in ListKinds : Extends(a.lists[l], r.lists[l])
    BY <1>9, <1>16, KnownLengths DEF Extends
  <2>5. Kept(a, slots, r, slots)
    BY <1>16, <1>17, <1>18, <2>4 DEF Kept
  <2> QED
    BY <2>3, <2>5
<1>21. KeepsAll
  <2>1. \A q \in 1 .. Packages : Steady(q)
    <3>1. SUFFICES ASSUME NEW q \in 1 .. Packages PROVE Steady(q)
      OBVIOUS
    <3>2. CASE q = p
      BY <1>15, <1>20, <3>2 DEF Steady, a, r, slots
    <3>3. CASE q # p
      BY <1>1, <1>15, <1>16, <3>3, SelfSteady
    <3> QED
      BY <3>2, <3>3
  <2> QED
    BY <1>3, <2>1, StringsNow DEF KeepsAll
<1>22. KnownInv'
  BY <1>21 DEF KnownInv, KeepsAll, Steady, KnownOf, SlotsOf, KnownNext, SlotsNext
<1>23. TypeInv'
  <2>1. /\ phase' = phase /\ package' = package /\ menu' = menu /\ tables' = tables /\ lists' = lists
        /\ listIds' = listIds /\ uses' = uses
    BY <1>3
  <2> QED
    BY <1>1, <1>6, <1>13, <2>1 DEF TypeInv
<1>24. StringsInv' /\ TextsOK(strings')
  BY <1>1, <1>3 DEF Inv, StringsInv, NamesKnown
<1>25. UsesInv'
  BY <1>1, <1>3, <1>21, <1>24, UsesStay
<1>26. ListsInv'
  <2>1. \A q \in 1 .. Packages : Finished(q)' => Finished(q) /\ lists'[q] = lists[q] /\ listIds'[q] = listIds[q]
    BY <1>3 DEF Finished
  <2> QED
    BY <1>1, <1>21, <2>1, OldLists
<1>27. SwitchesInv'
  <2>1. ASSUME NEW i \in 1 .. n PROVE SwitchNext(switches'[i])
    <3> DEFINE u == switches[i]
               v == switches'[i]
               q == u.package
    <3>1. u \in SwitchRecords /\ SwitchOK(u) /\ Alike(u, v) /\ v.package = q
      BY <1>1, <1>14 DEF SwitchesInv, Alike
    <3>2. q \in 1 .. Packages
      BY <3>1 DEF SwitchRecords
    <3>3. i # k => v = u
      BY <1>6
    <3>4. i = k => u = s
      BY DEF s
    <3>5. i # k /\ q = p => Slots(u) \cap Slots(s) = {}
      BY <1>1, <1>4 DEF SwitchesInv, s, p
    <3>6. Slots(u) \subseteq SlotsOf(q)
      BY DEF SlotsOf
    <3> HIDE DEF u, v, q, n
    <3>7. CasesOK(v) /\ Fixed(v, pools'[q].values, SlotsNext(q))
      <4>1. CasesOK(u) /\ Fixed(u, pools[q].values, SlotsOf(q))
        BY <3>1 DEF SwitchOK, q
      <4>2. Fixed(u, pools'[q].values, SlotsNext(q))
        BY <1>21, <3>2, <4>1, OldWords DEF Fixed
      <4>3. CasesOK(u) => CasesOK(v)
        BY <3>1, AlikeFacts
      <4>4. \A x, y : Fixed(u, x, y) => Fixed(v, x, y)
        BY <3>1, AlikeFacts
      <4> QED
        BY <4>1, <4>2, <4>3, <4>4
    <3>8. v.built => Written(v, pools'[q].values)
      <4>1. CASE i = k
        <5>1. q = p /\ u = s
          BY <3>4, <4>1 DEF p, q
        <5> QED
          BY <1>12, <1>13, <3>1, <5>1, AlikeFacts
      <4>2. CASE i # k /\ q = p
        <5>1. \A x \in Slots(u) : w[x] = values[x]
          BY <1>10, <1>12, <3>5, <3>6, <4>2 DEF slots
        <5>2. u.built => Written(u, values)
          BY <3>1, <4>2 DEF SwitchOK, values, q
        <5>3. u.built => Written(u, w)
          <6>1. SUFFICES ASSUME Written(u, values) PROVE Written(u, w)
            BY <5>2
          <6>2. /\ u.id \in Slots(u)
                /\ IsTable(u.cases) => \A x \in Lowest(u) .. Highest(u) : u.id + 3 + (x - Lowest(u)) \in Slots(u)
                /\ ~IsTable(u.cases) => \A j \in 1 .. Len(u.cases) : u.id + 1 + 2 * j \in Slots(u)
            BY <3>1, WrittenSlots DEF SwitchOK
          <6> QED
            BY <5>1, <6>1, <6>2 DEF Written
        <5> QED
          BY <1>13, <3>3, <4>2, <5>3
      <4>3. CASE q # p
        <5>1. pools'[q] = pools[q] /\ i # k
          BY <1>13, <3>2, <3>4, <4>3 DEF p, q
        <5> QED
          BY <3>1, <3>3, <5>1 DEF SwitchOK, q
      <4> QED
        BY <4>1, <4>2, <4>3
    <3>9. SwitchNext(v)
      BY <3>1, <3>7, <3>8 DEF SwitchNext
    <3> QED
      BY <3>9 DEF v
  <2>2. \A i \in 1 .. n : Slots(switches'[i]) = Slots(switches[i]) /\ switches'[i].package = switches[i].package
    <3>1. \A x, y : Alike(x, y) => Slots(y) = Slots(x) /\ y.package = x.package
      BY AlikeFacts DEF Alike
    <3> QED
      BY <1>14, <3>1
  <2>3. \A i, j \in 1 .. n :
          i # j /\ switches[i].package = switches[j].package => Slots(switches[i]) \cap Slots(switches[j]) = {}
    BY <1>1 DEF SwitchesInv
  <2> HIDE DEF n
  <2>4. \A i, j \in 1 .. n :
          i # j /\ switches'[i].package = switches'[j].package => Slots(switches'[i]) \cap Slots(switches'[j]) = {}
    BY <2>2, <2>3
  <2> QED
    BY <1>6, <2>1, <2>4 DEF SwitchesInv, SwitchOK, SwitchNext, SlotsOf, SlotsNext
<1>28. ImageInv'
  BY <1>3 DEF ImageInv
<1> QED
  BY <1>22, <1>23, <1>24, <1>25, <1>26, <1>27, <1>28 DEF Inv

-----------------------------------------------------------------------------
(* The portable image.                                                     *)

LEMMA BasesFacts ==
  ASSUME \A p \in 1 .. Packages : pools[p].values \in Seq(Int)
  PROVE  /\ Bases[1] = 0 /\ \A p \in 1 .. Packages : Bases[p] \in Nat
         /\ \A p \in 2 .. Packages : Bases[p] = Bases[p - 1] + Len(pools[p - 1].values) + 1
<1> DEFINE P == Packages
           len == [p \in 1 .. P |-> Len(pools[p].values)]
           n == P - 1
           step == [q \in Nat \X (1 .. n) |-> q[1] + len[q[2]] + 1]
           IsBases(b) == b = [p \in 1 .. P |-> IF p = 1 THEN 0 ELSE b[p - 1] + Len(pools[p - 1].values) + 1]
<1>1. P \in Nat \ {0} /\ n \in Nat
  BY CapacityAssumption
<1>2. \A p \in 1 .. P : len[p] \in Nat /\ len[p] = Len(pools[p].values)
  OBVIOUS
<1> HIDE DEF len, P
<1>3. \A i \in 1 .. n : i \in 1 .. P
  BY <1>1
<1>4. step \in [Nat \X (1 .. n) -> Nat] /\ \A x \in Nat : \A i \in 1 .. n : step[<<x, i>>] = x + len[i] + 1
  BY <1>2, <1>3
<1>5. PICK g : IsRun(g, n, Nat, 0, step)
  <2> HIDE DEF step, n
  <2>1. 0 \in Nat
    OBVIOUS
  <2> QED
    BY <1>1, <1>4, <2>1, RunExists
<1>6. /\ g \in [0 .. n -> Nat] /\ g[0] = 0
      /\ \A i \in 1 .. n : g[i] = g[i - 1] + len[i] + 1
  <2>1. g \in [0 .. n -> Nat] /\ g[0] = 0 /\ \A i \in 1 .. n : g[i] = step[<<g[i - 1], i>>]
    BY <1>5 DEF IsRun
  <2>2. \A i \in 1 .. n : g[i - 1] \in Nat
    BY <1>1, <2>1
  <2> HIDE DEF step, n
  <2> QED
    BY <1>4, <2>1, <2>2
<1> HIDE DEF step
<1> DEFINE f == [p \in 1 .. P |-> g[p - 1]]
<1>7. IsBases(f)
  <2>1. \A p \in 1 .. P : f[p] = IF p = 1 THEN 0 ELSE f[p - 1] + Len(pools[p - 1].values) + 1
    <3>1. SUFFICES ASSUME NEW p \in 1 .. P
                   PROVE  f[p] = IF p = 1 THEN 0 ELSE f[p - 1] + Len(pools[p - 1].values) + 1
      OBVIOUS
    <3>2. CASE p = 1
      BY <1>1, <1>6, <3>2
    <3>3. CASE p # 1
      <4>1. p - 1 \in 1 .. n /\ p - 1 \in 1 .. P
        BY <1>1, <3>3
      <4>2. f[p] = g[p - 1] /\ f[p - 1] = g[(p - 1) - 1]
        BY <1>1, <4>1
      <4>3. g[p - 1] = g[(p - 1) - 1] + len[p - 1] + 1
        BY <1>6, <4>1
      <4> QED
        BY <1>2, <3>3, <4>1, <4>2, <4>3
    <3> QED
      BY <3>2, <3>3
  <2>2. f = [p \in 1 .. P |-> f[p]]
    OBVIOUS
  <2> HIDE DEF f
  <2> QED
    BY <2>1, <2>2
<1> DEFINE b == Bases
<1>8. IsBases(b)
  BY <1>7 DEF Bases, P
<1>9. \A p \in 1 .. P : b[p] = IF p = 1 THEN 0 ELSE b[p - 1] + Len(pools[p - 1].values) + 1
  <2> HIDE DEF b
  <2> QED
    BY <1>8
<1> HIDE DEF b
<1>10. b[1] = 0 /\ \A p \in 2 .. P : b[p] = b[p - 1] + len[p - 1] + 1
  <2>1. 1 \in 1 .. P /\ \A p \in 2 .. P : p \in 1 .. P /\ p # 1 /\ p - 1 \in 1 .. P
    BY <1>1
  <2> QED
    BY <1>2, <1>9, <2>1
<1>11. \A p \in 1 .. P : b[p] \in Nat
  <2> DEFINE Bad == {p \in 1 .. P : b[p] \notin Nat}
  <2>1. ASSUME Bad # {} PROVE FALSE
    <3>1. Bad \subseteq Nat
      OBVIOUS
    <3>2. PICK m \in Bad : \A k \in Bad : m <= k
      <4> HIDE DEF Bad
      <4> QED
        BY <2>1, <3>1, Least
    <3>3. m \in 1 .. P /\ b[m] \notin Nat
      BY <3>2
    <3>4. CASE m = 1
      BY <1>10, <3>3, <3>4
    <3>5. CASE m # 1
      <4>1. m \in 2 .. P /\ m - 1 \in 1 .. P /\ m - 1 \notin Bad
        BY <1>1, <3>2, <3>5
      <4>2. b[m - 1] \in Nat /\ len[m - 1] \in Nat /\ b[m] = b[m - 1] + len[m - 1] + 1
        BY <1>2, <1>10, <4>1
      <4> QED
        BY <3>3, <4>2
    <3> QED
      BY <3>4, <3>5
  <2> QED
    BY <2>1
<1>12. \A p \in 2 .. P : b[p] = b[p - 1] + Len(pools[p - 1].values) + 1
  <2>1. \A p \in 2 .. P : p - 1 \in 1 .. P
    BY <1>1
  <2> QED
    BY <1>2, <1>10, <2>1
<1> QED
  BY <1>10, <1>11, <1>12 DEF b, P

LEMMA JoinStep ==
  ASSUME NEW j \in Seq(Int), NEW v \in Seq(Int)
  PROVE  LET r == j \o <<Unused>> \o v IN
         /\ r \in Seq(Int) /\ Len(r) = Len(j) + 1 + Len(v) /\ Extends(j, r)
         /\ \A n \in 1 .. Len(v) : Len(j) + n + 1 \in 1 .. Len(r) /\ r[Len(j) + n + 1] = v[n]
<1> DEFINE u == <<Unused>>
           k == j \o u
           r == k \o v
<1>1. u \in Seq(Int) /\ Len(u) = 1
  BY DEF Unused
<1> HIDE DEF u
<1>2. k \in Seq(Int) /\ Len(k) = Len(j) + 1 /\ (\A i \in 1 .. Len(j) : k[i] = j[i]) /\ Len(j) \in Nat
  <2>1. /\ Len(j) \in Nat /\ j \o u \in Seq(Int) /\ Len(j \o u) = Len(j) + Len(u)
        /\ \A i \in 1 .. Len(j) : (j \o u)[i] = j[i]
    BY <1>1, ConcatFacts
  <2> QED
    BY <1>1, <2>1
<1> HIDE DEF k
<1>3. /\ r \in Seq(Int) /\ Len(r) = Len(k) + Len(v) /\ Len(v) \in Nat
      /\ \A i \in 1 .. Len(k) : r[i] = k[i]
      /\ \A i \in 1 .. Len(v) : r[Len(k) + i] = v[i]
  BY <1>2, ConcatFacts
<1> HIDE DEF r
<1>4. Len(r) = Len(j) + 1 + Len(v) /\ Extends(j, r)
  <2>1. Len(j) <= Len(r) /\ \A i \in 1 .. Len(j) : i \in 1 .. Len(k)
    BY <1>2, <1>3
  <2> QED
    BY <1>2, <1>3, <2>1 DEF Extends
<1>5. ASSUME NEW n \in 1 .. Len(v) PROVE Len(j) + n + 1 \in 1 .. Len(r) /\ r[Len(j) + n + 1] = v[n]
  <2>1. /\ Len(k) = Len(j) + 1 /\ Len(j) \in Nat /\ Len(v) \in Nat /\ Len(r) = Len(k) + Len(v)
        /\ r[Len(k) + n] = v[n]
    BY <1>2, <1>3
  <2>2. Len(j) + n + 1 = Len(k) + n /\ Len(j) + n + 1 \in 1 .. Len(r)
    BY <2>1
  <2> QED
    BY <2>1, <2>2
<1> QED
  BY <1>3, <1>4, <1>5 DEF r, k, u

LEMMA JoinedFunction ==
  ASSUME \A p \in 1 .. Packages : pools[p].values \in Seq(Int)
  PROVE  /\ Joined[0] = <<>> /\ \A p \in 0 .. Packages : Joined[p] \in Seq(Int)
         /\ \A p \in 1 .. Packages : Joined[p] = Joined[p - 1] \o <<Unused>> \o pools[p].values
<1> DEFINE n == Packages
           T == Seq(Int)
           step == [q \in T \X (1 .. n) |-> q[1] \o <<Unused>> \o pools[q[2]].values]
           IsJoined(g) == g = [p \in 0 .. n |-> IF p = 0 THEN <<>> ELSE g[p - 1] \o <<Unused>> \o pools[p].values]
<1>0. n \in Nat /\ <<>> \in T
  BY CapacityAssumption
<1>1. \A x \in T : \A i \in 1 .. n : x \o <<Unused>> \o pools[i].values \in T
  BY JoinStep
<1>2. \A x \in T : \A i \in 1 .. n : step[<<x, i>>] = x \o <<Unused>> \o pools[i].values
  <2> HIDE DEF T
  <2> QED
    OBVIOUS
<1>3. step \in [T \X (1 .. n) -> T]
  <2>1. \A q \in T \X (1 .. n) : q[1] \o <<Unused>> \o pools[q[2]].values \in T
    <3> HIDE DEF T, step
    <3> QED
      BY <1>1
  <2> HIDE DEF T
  <2> QED
    BY <2>1
<1>4. PICK g : IsRun(g, n, T, <<>>, step)
  <2> HIDE DEF T, step, n
  <2> QED
    BY <1>0, <1>3, RunExists
<1>5. /\ g \in [0 .. n -> T] /\ g[0] = <<>>
      /\ \A i \in 1 .. n : i \in 0 .. n /\ i # 0 /\ i - 1 \in 0 .. n /\ g[i] = g[i - 1] \o <<Unused>> \o pools[i].values
  <2>1. g \in [0 .. n -> T] /\ g[0] = <<>> /\ \A i \in 1 .. n : g[i] = step[<<g[i - 1], i>>]
    BY <1>4 DEF IsRun
  <2>2. \A i \in 1 .. n : i \in 0 .. n /\ i # 0 /\ i - 1 \in 0 .. n
    BY <1>0
  <2> HIDE DEF T, step
  <2> QED
    BY <1>2, <2>1, <2>2
<1> HIDE DEF T, step
<1>6. IsJoined(g)
  <2>1. \A i \in 0 .. n : i = 0 \/ i \in 1 .. n
    BY <1>0
  <2>2. \A i \in 0 .. n : g[i] = IF i = 0 THEN <<>> ELSE g[i - 1] \o <<Unused>> \o pools[i].values
    BY <1>5, <2>1
  <2>3. g = [i \in 0 .. n |-> g[i]]
    BY <1>5
  <2> QED
    BY <2>2, <2>3
<1> DEFINE w == Joined
<1>7. IsJoined(w)
  BY <1>6 DEF Joined
<1>8. \A i \in 0 .. n : w[i] = IF i = 0 THEN <<>> ELSE w[i - 1] \o <<Unused>> \o pools[i].values
  <2> HIDE DEF w
  <2> QED
    BY <1>7
<1> HIDE DEF w
<1>9. w[0] = <<>> /\ \A i \in 1 .. n : w[i] = w[i - 1] \o <<Unused>> \o pools[i].values
  <2>1. 0 \in 0 .. n
    BY <1>0
  <2> QED
    BY <1>5, <1>8, <2>1
<1>10. \A i \in 0 .. n : w[i] \in T
  <2> DEFINE Bad == {i \in 0 .. n : w[i] \notin T}
  <2>1. ASSUME Bad # {} PROVE FALSE
    <3>1. Bad \subseteq Nat
      OBVIOUS
    <3>2. PICK m \in Bad : \A k \in Bad : m <= k
      <4> HIDE DEF Bad
      <4> QED
        BY <2>1, <3>1, Least
    <3>3. CASE m = 0
      BY <1>0, <1>9, <3>2, <3>3
    <3>4. CASE m # 0
      <4>1. m \in 1 .. n /\ m - 1 \in 0 .. n /\ m - 1 \notin Bad /\ w[m] \notin T
        BY <1>0, <3>2, <3>4
      <4> QED
        BY <1>1, <1>9, <4>1
    <3> QED
      BY <3>3, <3>4
  <2> QED
    BY <2>1
<1> QED
  BY <1>9, <1>10 DEF w, T

(* Each pool is in the image behind its base.                              *)
LEMMA JoinedFacts ==
  ASSUME \A p \in 1 .. Packages : pools[p].values \in Seq(Int)
  PROVE  \A p \in 1 .. Packages : \A n \in 1 .. Len(pools[p].values) :
           Joined[Packages][Bases[p] + n + 1] = pools[p].values[n]
<1> DEFINE v(p) == pools[p].values
           j(p) == Joined[p]
           b(p) == Bases[p]
           Has(m, p) == \A n \in 1 .. Len(v(p)) : b(p) + n + 1 \in 1 .. Len(j(m)) /\ j(m)[b(p) + n + 1] = v(p)[n]
           Good(m) == (m > 0 => Len(j(m - 1)) = b(m)) /\ \A p \in 1 .. m : Has(m, p)
           Bad == {m \in 0 .. Packages : ~Good(m)}
<1>1. /\ j(0) = <<>> /\ \A p \in 0 .. Packages : j(p) \in Seq(Int) /\ Len(j(p)) \in Nat
      /\ \A p \in 1 .. Packages : j(p) = j(p - 1) \o <<Unused>> \o v(p)
  <2>1. /\ Joined[0] = <<>> /\ \A p \in 0 .. Packages : Joined[p] \in Seq(Int)
        /\ \A p \in 1 .. Packages : Joined[p] = Joined[p - 1] \o <<Unused>> \o pools[p].values
    BY JoinedFunction
  <2>2. \A s \in Seq(Int) : Len(s) \in Nat
    OBVIOUS
  <2> QED
    BY <2>1, <2>2
<1>2. /\ b(1) = 0 /\ \A p \in 1 .. Packages : b(p) \in Nat /\ v(p) \in Seq(Int) /\ Len(v(p)) \in Nat
      /\ \A p \in 2 .. Packages : b(p) = b(p - 1) + Len(v(p - 1)) + 1
  BY BasesFacts
<1> HIDE DEF v, j, b
<1>3. Packages \in Nat
  BY CapacityAssumption
<1>4. \A p \in 1 .. Packages :
        /\ Len(j(p)) = Len(j(p - 1)) + 1 + Len(v(p)) /\ Extends(j(p - 1), j(p))
        /\ \A n \in 1 .. Len(v(p)) : Len(j(p - 1)) + n + 1 \in 1 .. Len(j(p)) /\ j(p)[Len(j(p - 1)) + n + 1] = v(p)[n]
  <2>1. SUFFICES ASSUME NEW p \in 1 .. Packages
                 PROVE  /\ Len(j(p)) = Len(j(p - 1)) + 1 + Len(v(p)) /\ Extends(j(p - 1), j(p))
                        /\ \A n \in 1 .. Len(v(p)) :
                             Len(j(p - 1)) + n + 1 \in 1 .. Len(j(p)) /\ j(p)[Len(j(p - 1)) + n + 1] = v(p)[n]
    OBVIOUS
  <2>2. j(p - 1) \in Seq(Int) /\ v(p) \in Seq(Int)
    <3>1. p - 1 \in 0 .. Packages
      BY <1>3
    <3> QED
      BY <1>1, <1>2, <3>1
  <2> DEFINE r == j(p - 1) \o <<Unused>> \o v(p)
  <2>3. /\ Len(r) = Len(j(p - 1)) + 1 + Len(v(p)) /\ Extends(j(p - 1), r)
        /\ \A n \in 1 .. Len(v(p)) : Len(j(p - 1)) + n + 1 \in 1 .. Len(r) /\ r[Len(j(p - 1)) + n + 1] = v(p)[n]
    BY <2>2, JoinStep
  <2>4. j(p) = r
    BY <1>1
  <2> HIDE DEF r
  <2> QED
    BY <2>3, <2>4
<1>5. ASSUME Bad # {} PROVE FALSE
  <2>1. Bad \subseteq Nat
    OBVIOUS
  <2>2. PICK m \in Bad : \A k \in Bad : m <= k
    <3> HIDE DEF Bad
    <3> QED
      BY <1>5, <2>1, Least
  <2>3. m \in 0 .. Packages /\ m \in Nat /\ ~Good(m)
    BY <2>2
  <2>4. m # 0
    BY <2>3
  <2>5. m \in 1 .. Packages /\ m - 1 \in 0 .. Packages /\ Good(m - 1)
    <3>1. m \in 1 .. Packages /\ m - 1 \in 0 .. Packages /\ ~(m <= m - 1)
      BY <1>3, <2>3, <2>4
    <3>2. m - 1 \notin Bad
      <4> HIDE DEF Bad
      <4> QED
        BY <2>2, <3>1
    <3> QED
      BY <3>1, <3>2
  <2>6. Len(j(m - 1)) = b(m)
    <3>1. CASE m = 1
      <4>1. m - 1 = 0 /\ Len(<<>>) = 0
        BY <3>1
      <4> QED
        BY <1>1, <1>2, <3>1, <4>1
    <3>2. CASE m # 1
      <4>1. m - 1 \in 1 .. Packages /\ m \in 2 .. Packages /\ m - 1 > 0 /\ (m - 1) - 1 \in 0 .. Packages
        BY <1>3, <2>5, <3>2
      <4>2. Len(j((m - 1) - 1)) = b(m - 1)
        BY <2>5, <4>1
      <4>3. Len(j(m - 1)) = Len(j((m - 1) - 1)) + 1 + Len(v(m - 1))
        BY <1>4, <4>1
      <4>4. b(m) = b(m - 1) + Len(v(m - 1)) + 1 /\ b(m - 1) \in Nat /\ Len(v(m - 1)) \in Nat
        BY <1>2, <4>1
      <4> QED
        BY <4>2, <4>3, <4>4
    <3> QED
      BY <3>1, <3>2
  <2>7. Has(m, m)
    BY <1>4, <2>5, <2>6
  <2>8. ASSUME NEW p \in 1 .. m - 1 PROVE Has(m, p)
    <3>1. Has(m - 1, p)
      BY <2>5
    <3>2. Extends(j(m - 1), j(m)) /\ Len(j(m - 1)) \in Nat /\ Len(j(m)) \in Nat
      BY <1>1, <1>4, <2>5
    <3>3. \A i \in 1 .. Len(j(m - 1)) : i \in 1 .. Len(j(m)) /\ j(m)[i] = j(m - 1)[i]
      BY <3>2 DEF Extends
    <3> QED
      BY <3>1, <3>3
  <2>9. \A p \in 1 .. m : p = m \/ p \in 1 .. m - 1
    BY <2>3
  <2>10. Good(m)
    <3> HIDE DEF Has
    <3> QED
      BY <2>6, <2>7, <2>8, <2>9
  <2> QED
    BY <2>3, <2>10
<1>6. Good(Packages)
  BY <1>3, <1>5
<1> QED
  BY <1>6 DEF j, b, v

LEMMA BuildPortableStep ==
  ASSUME Inv, BuildPortable
  PROVE  Inv'
<1>1. /\ phase = "build" /\ phase' = "run" /\ strings' = strings
      /\ image' = [values |-> Joined[Packages], bases |-> Bases, texts |-> strings.buffer]
      /\ \A i \in DOMAIN switches : switches[i].built
      /\ UNCHANGED <<package, menu, pools, tables, lists, listIds, poolIds, uses, switches>>
  BY DEF BuildPortable
<1>2. TextsOK(strings') /\ Extends(strings.buffer, strings'.buffer)
  BY <1>1, StringsNow
<1>3. TypeInv' /\ KnownInv' /\ UsesInv' /\ ListsInv' /\ SwitchesInv'
  BY <1>1, <1>2, CalmStep DEF Finished
<1>4. StringsInv'
  <2>1. NamesKnown(strings')
    BY <1>1 DEF Inv, StringsInv
  <2> QED
    BY <1>2, <2>1 DEF StringsInv
<1>5. ImageInv'
  <2>1. \A p \in 1 .. Packages : pools[p].values \in Seq(Int)
    <3>1. SUFFICES ASSUME NEW p \in 1 .. Packages PROVE pools[p].values \in Seq(Int)
      OBVIOUS
    <3>2. PoolOK(KnownOf(p).pool)
      BY DEF Inv, KnownInv, KnownOK
    <3> QED
      BY <3>2 DEF KnownOf, PoolOK
  <2>2. \A p \in 1 .. Packages : \A n \in 1 .. Len(pools[p].values) :
           Joined[Packages][Bases[p] + n + 1] = pools[p].values[n]
    BY <2>1, JoinedFacts
  <2> DEFINE x == Joined[Packages]
             y == Bases
             texts == strings.buffer
  <2>3. image' = [values |-> x, bases |-> y, texts |-> texts]
    BY <1>1
  <2>4. \A p \in 1 .. Packages : \A n \in 1 .. Len(pools[p].values) : x[y[p] + n + 1] = pools[p].values[n]
    BY <2>2
  <2> HIDE DEF x, y
  <2>5. image'.values = x /\ image'.bases = y /\ image'.texts = strings'.buffer
    BY <1>1, <2>3
  <2>6. \A i \in 1 .. Len(switches') : switches'[i].built
    <3>1. DOMAIN switches = 1 .. Len(switches)
      BY DEF Inv, TypeInv
    <3> QED
      BY <1>1, <3>1
  <2>7. \A p \in 1 .. Packages : \A n \in 1 .. Len(pools'[p].values) :
          image'.values[image'.bases[p] + n + 1] = pools'[p].values[n]
    BY <1>1, <2>4, <2>5
  <2> QED
    BY <2>5, <2>6, <2>7 DEF ImageInv
<1> QED
  BY <1>3, <1>4, <1>5 DEF Inv

-----------------------------------------------------------------------------
(* The invariant holds.                                                    *)

LEMMA InitInv ==
  ASSUME Hashing, Init
  PROVE  Inv
<1> DEFINE h == NewHash(1)
<1>1. /\ phase = "names" /\ package = 1 /\ menu \in Menus
      /\ pools = [p \in 1 .. Packages |-> [values |-> <<>>, capacity |-> PoolCapacity]]
      /\ lists = [p \in 1 .. Packages |-> [k \in ListKinds |-> <<>>]]
      /\ listIds = [p \in 1 .. Packages |-> [k \in ListKinds |-> 0]]
      /\ strings = [buffer |-> <<>>, capacity |-> BufferCapacity, symtable |-> h]
      /\ uses = <<>> /\ switches = <<>>
  BY DEF Init
<1>2. tables = [p \in 1 .. Packages |-> [t \in TableNames |-> h]]
  BY DEF Init, TableNames, InternNames
<1>3. HashOK(h) /\ h \in Hash /\ \A k \in Key : Fetch(h, k) = Missing
  <2>1. 1 \in Nat \ {0}
    OBVIOUS
  <2> QED
    BY <2>1, NewHashFacts DEF HashOK
<1> HIDE DEF h
<1>4. Packages \in Nat \ {0} /\ PoolCapacity \in Nat \ {0, 1, 2} /\ BufferCapacity \in Nat \ {0}
  BY CapacityAssumption
<1>5. TypeInv
  <2>1. package \in 1 .. Packages
    BY <1>1, <1>4
  <2>2. listIds \in [1 .. Packages -> [ListKinds -> Nat]]
    BY <1>1
  <2>3. uses \in Seq(Uses) /\ switches \in Seq(SwitchRecords)
    BY <1>1
  <2>4. tables = [p \in 1 .. Packages |-> tables[p]]
    BY <1>2
  <2>5. pools = [p \in 1 .. Packages |-> pools[p]] /\ lists = [p \in 1 .. Packages |-> lists[p]]
    BY <1>1
  <2> QED
    BY <1>1, <2>1, <2>2, <2>3, <2>4, <2>5 DEF TypeInv
<1>6. StringsInv
  <2>1. /\ strings \in [buffer : Seq(Nat), capacity : Nat, symtable : Hash] /\ strings.symtable = h
        /\ strings.buffer = <<>> /\ strings.capacity = BufferCapacity
    BY <1>1, <1>3, <1>4
  <2>2. Len(strings.buffer) + 1 <= strings.capacity /\ BufferCapacity <= strings.capacity
    BY <1>4, <2>1
  <2>3. TextsOK(strings)
    BY <1>3, <2>1, <2>2 DEF TextsOK
  <2> QED
    BY <1>1, <2>3 DEF StringsInv
<1>7. KnownInv
  <2>1. SUFFICES ASSUME NEW p \in 1 .. Packages PROVE KnownOK(KnownOf(p), SlotsOf(p), menu)
    BY DEF KnownInv
  <2> DEFINE a == KnownOf(p)
  <2>2. /\ a.pool = [values |-> <<>>, capacity |-> PoolCapacity] /\ a.tables = [t \in TableNames |-> h]
        /\ a.lists = [k \in ListKinds |-> <<>>] /\ IsKnown(a)
    BY <1>1, <1>2 DEF KnownOf, IsKnown
  <2>3. SlotsOf(p) = {}
    BY <1>1 DEF SlotsOf
  <2> HIDE DEF a
  <2>4. PoolOK(a.pool)
    <3>1. a.pool.values = <<>> /\ a.pool.capacity = PoolCapacity /\ <<>> \in Seq(Int) /\ Len(<<>>) = 0
      BY <2>2
    <3> QED
      BY <1>4, <2>2, <3>1 DEF PoolOK
  <2>5. /\ a.tables = [t \in TableNames |-> a.tables[t]] /\ \A t \in TableNames : a.tables[t] = h
    BY <2>2
  <2>6. InternedOK(a, {}, menu)
    BY <1>3, <2>5 DEF InternedOK, TableNames
  <2>7. \A k \in ListKinds : ListOK(a.lists[k], a.tables[k])
    <3>1. SUFFICES ASSUME NEW k \in ListKinds PROVE ListOK(a.lists[k], a.tables[k])
      OBVIOUS
    <3>2. a.lists[k] = <<>> /\ a.tables[k] = h
      BY <2>2, <2>5 DEF TableNames
    <3>3. \A id \in Nat : <<id>> \in Key
      BY DEF Key
    <3> QED
      BY <1>3, <3>2, <3>3 DEF ListOK, Distinct, InList
  <2>8. a.lists \in [ListKinds -> Seq(Nat)]
    BY <2>2
  <2>9. KnownOK(a, {}, menu)
    BY <1>3, <2>2, <2>4, <2>5, <2>6, <2>7, <2>8 DEF KnownOK
  <2> QED
    BY <2>3, <2>9 DEF a
<1>8. UsesInv
  BY <1>1 DEF UsesInv
<1>9. ListsInv
  <2>1. \A p \in 1 .. Packages : ~Finished(p)
    BY <1>1, <1>4 DEF Finished
  <2> QED
    BY <2>1 DEF ListsInv
<1>10. SwitchesInv
  BY <1>1 DEF SwitchesInv
<1>11. ImageInv
  BY <1>1 DEF ImageInv
<1> QED
  BY <1>5, <1>6, <1>7, <1>8, <1>9, <1>10, <1>11 DEF Inv

LEMMA NextInv ==
  ASSUME Hashing, Supported, Inv, [Next]_vars
  PROVE  Inv'
<1>0. AtHome
  BY DEF Supported
<1>1. ASSUME NEW n \in Names, Name(n) PROVE Inv'
  BY <1>1, NameStep
<1>2. CASE NamesDone
  BY <1>2, NamesDoneStep
<1>3. ASSUME NEW c \in menu.constants, UseType(c) PROVE Inv'
  BY <1>0, <1>3, UseTypeStep
<1>4. ASSUME NEW c \in menu.constants, UseId(c) PROVE Inv'
  BY <1>0, <1>4, UseIdStep
<1>5. ASSUME NEW c \in menu.constants, ArrayInit(c) PROVE Inv'
  BY <1>5, ArrayInitStep
<1>6. ASSUME NEW c \in menu.constants, NEW node, WideConstant(c, node) PROVE Inv'
  BY <1>0, <1>6, WideConstantStep
<1>7. ASSUME NEW c \in menu.constants, NEW node, StringConstant(c, node) PROVE Inv'
  BY <1>0, <1>7, StringConstantStep
<1>8. ASSUME NEW s \in menu.switches, Switch(s) PROVE Inv'
  BY <1>8, SwitchStep
<1>9. CASE FinishPackage
  BY <1>9, FinishStep
<1>10. CASE BuildSwitch
  BY <1>10, BuildSwitchStep
<1>11. CASE BuildPortable
  BY <1>11, BuildPortableStep
<1>12. CASE UNCHANGED vars
  BY <1>12, StutterStep
<1> QED
  BY <1>1, <1>2, <1>3, <1>4, <1>5, <1>6, <1>7, <1>8, <1>9, <1>10, <1>11, <1>12 DEF Next

(***************************************************************************)
(* What packages know of what they refer to stays true however much is     *)
(* compiled afterwards.  Assumed is that no program is compiled for which  *)
(* it is known to fail: see Supported.                                     *)
(***************************************************************************)
THEOREM Invariance ==
  ASSUME Hashing, Supported
  PROVE  Spec => []Inv
<1>1. Init => Inv
  BY InitInv
<1>2. Inv /\ [Next]_vars => Inv'
  BY NextInv
<1> QED
  BY <1>1, <1>2, PTL DEF Spec

-----------------------------------------------------------------------------
(* What is read.                                                           *)

LEMMA PoolsNow ==
  ASSUME Inv, NEW p \in 1 .. Packages
  PROVE  /\ pools[p].values \in Seq(Int) /\ Len(pools[p].values) \in Nat
         /\ Len(pools[p].values) + 1 <= pools[p].capacity
         /\ DOMAIN pools[p].values = 1 .. Len(pools[p].values)
<1>1. PoolOK(KnownOf(p).pool)
  BY DEF Inv, KnownInv, KnownOK
<1>2. pools[p].values \in Seq(Int) /\ Len(pools[p].values) + 1 <= pools[p].capacity
  BY <1>1 DEF KnownOf, PoolOK
<1> QED
  BY <1>2

LEMMA CellRun ==
  ASSUME Inv, NEW p \in 1 .. Packages, NEW id \in 1 .. Len(pools[p].values)
  PROVE  Cell(p, id) = pools[p].values[id]
<1>1. DOMAIN pools[p].values = 1 .. Len(pools[p].values)
  BY PoolsNow
<1>2. CASE phase = "run"
  <2>1. image.values[image.bases[p] + id + 1] = pools[p].values[id]
    BY <1>2 DEF Inv, ImageInv
  <2> QED
    BY <1>2, <2>1 DEF Cell
<1>3. CASE phase # "run"
  BY <1>1, <1>3 DEF Cell
<1> QED
  BY <1>2, <1>3

(* Words are read where they are.                                          *)
Reads(p, id, cells) ==
  \A j \in 1 .. Len(cells) : id + j - 1 \in 1 .. Len(pools[p].values) /\ Cell(p, id + j - 1) = cells[j]

LEMMA CellHolds ==
  ASSUME Inv, NEW p \in 1 .. Packages, NEW slots, NEW id, NEW cells, Holds(pools[p].values, slots, id, cells)
  PROVE  Reads(p, id, cells)
<1>1. SUFFICES ASSUME NEW j \in 1 .. Len(cells)
               PROVE  id + j - 1 \in 1 .. Len(pools[p].values) /\ Cell(p, id + j - 1) = cells[j]
  BY DEF Reads
<1>2. id + j - 1 \in 1 .. Len(pools[p].values) /\ pools[p].values[id + j - 1] = cells[j]
  BY DEF Holds
<1> QED
  BY <1>2, CellRun

LEMMA UseNow ==
  ASSUME Inv, NEW i \in DOMAIN uses
  PROVE  /\ uses[i].package \in 1 .. Packages /\ ConstantOK(uses[i].constant, menu)
         /\ Found(uses[i].constant, KnownOf(uses[i].package), SlotsOf(uses[i].package), strings.buffer,
                  poolIds[uses[i].node])
<1>1. uses \in Seq(Uses)
  BY DEF Inv, TypeInv
<1>2. i \in 1 .. Len(uses) /\ uses[i] \in Uses
  BY <1>1
<1>3. UseOK(uses[i], i)
  BY <1>2 DEF Inv, UsesInv
<1> QED
  BY <1>2, <1>3 DEF Uses, UseOK

(* The index of an opcode is that of the words it refers to.               *)
LEMMA WordsNow ==
  ASSUME Hashing, Inv, NEW i \in DOMAIN uses, uses[i].constant.kind # "string"
  PROVE  LET c == uses[i].constant  p == uses[i].package  id == poolIds[uses[i].node] IN
         /\ id \in Nat /\ Holds(pools[p].values, SlotsOf(p), id, CellsOf(c))
         /\ CellsOf(c) \in Seq(Int)
         /\ id = Fetch(tables[p][TableOf(c.kind)], KeyOf(c))
<1> DEFINE c == uses[i].constant
           p == uses[i].package
           id == poolIds[uses[i].node]
           a == KnownOf(p)
           t == TableOf(c.kind)
           k == KeyOf(c)
<1>1. p \in 1 .. Packages /\ ConstantOK(c, menu) /\ Found(c, a, SlotsOf(p), strings.buffer, id)
  BY UseNow
<1>2. KnownOK(a, SlotsOf(p), menu)
  BY <1>1 DEF Inv, KnownInv
<1>3. c.kind # "string"
  OBVIOUS
<1>4. a.pool.values = pools[p].values /\ a.tables = tables[p]
  BY DEF KnownOf
<1> HIDE DEF c, id, a
<1>5. t \in InternNames /\ k \in Key /\ CellsOf(c) \in Seq(Int) /\ CellsOf(c) = Meaning(menu, t, k)
  BY <1>1, <1>3, KeyFacts
<1>6. id = Fetch(a.tables[t], k) /\ id # Missing
  BY <1>1, <1>3 DEF Found
<1> HIDE DEF t, k
<1>7. HashOK(a.tables[t])
  BY <1>2, <1>5 DEF KnownOK, TableNames
<1>8. id \in Nat
  BY <1>5, <1>6, <1>7, FetchFacts
<1>9. InternedOK(a, SlotsOf(p), menu)
  BY <1>2 DEF KnownOK
<1>10. Holds(a.pool.values, SlotsOf(p), id, Meaning(menu, t, k))
  BY <1>5, <1>6, <1>9 DEF InternedOK
<1> QED
  BY <1>4, <1>5, <1>6, <1>8, <1>10 DEF c, id, a, t, k

LEMMA CellsLength ==
  ASSUME NEW c, NEW m, ConstantOK(c, m), c.kind # "string"
  PROVE  Len(CellsOf(c)) = IF c.kind \in {"type", "long", "double"} THEN 2 ELSE 1
<1>1. c.kind \in {"type", "long", "double", "sub", "var", "field"} /\ c.of \in Seq(Nat)
  BY DEF ConstantOK, Referable, Singles
<1>2. CASE c.kind = "type"
  <2>1. Len(c.of) = 2
    BY <1>2 DEF ConstantOK
  <2> QED
    BY <1>2, <2>1 DEF CellsOf, RuntimeType
<1>3. CASE c.kind # "type"
  BY <1>1, <1>3 DEF CellsOf, ConstantOK, Singles
<1> QED
  BY <1>2, <1>3

LEMMA SubSeqHolds ==
  ASSUME NEW b \in Seq(Nat), NEW start \in Nat \ {0}, NEW text \in Seq(Nat), Holds(b, {}, start, text)
  PROVE  SubSeq(b, start, start + Len(text) - 1) = text
<1> DEFINE n == Len(text)
           s == SubSeq(b, start, start + n - 1)
<1>0. n \in Nat /\ Len(b) \in Nat
  OBVIOUS
<1>1. \A j \in 1 .. n : start + j - 1 \in 1 .. Len(b) /\ b[start + j - 1] = text[j]
  BY DEF Holds
<1>2. \A j \in start .. start + n - 1 : j \in 1 .. Len(b)
  <2>1. SUFFICES ASSUME NEW j \in start .. start + n - 1 PROVE j \in 1 .. Len(b)
    OBVIOUS
  <2>2. j - start + 1 \in 1 .. n /\ start + (j - start + 1) - 1 = j
    BY <1>0
  <2> QED
    BY <1>1, <2>2
<1>3. start \in Int /\ start + n - 1 \in Int /\ (start + n - 1) - start + 1 = n
  BY <1>0
<1>4. \A j \in start .. start + n - 1 : b[j] \in Nat
  BY <1>2
<1>5. /\ s \in Seq(Nat) /\ Len(s) = IF start <= start + n - 1 THEN (start + n - 1) - start + 1 ELSE 0
      /\ \A j \in 1 .. (start + n - 1) - start + 1 : s[j] = b[start + j - 1]
  BY <1>3, <1>4, SubSeqProperties
<1> HIDE DEF s, n
<1>6. s \in Seq(Nat) /\ Len(s) = n /\ \A j \in 1 .. n : s[j] = b[start + j - 1]
  <2>1. IF start <= start + n - 1 THEN (start + n - 1) - start + 1 = n ELSE n = 0
    BY <1>0
  <2>2. Len(s) = n
    BY <1>5, <2>1
  <2> QED
    BY <1>3, <1>5, <2>2
<1>7. s = text
  <2>1. Len(text) = n /\ \A j \in 1 .. Len(s) : s[j] = text[j]
    BY <1>1, <1>6 DEF n
  <2> QED
    BY <1>6, <2>1, SeqEqual
<1> QED
  BY <1>7 DEF s, n

LEMMA ReadString ==
  ASSUME Inv, NEW i \in DOMAIN uses, uses[i].constant.kind = "string"
  PROVE  Read(uses[i]) = CellsOf(uses[i].constant) /\ poolIds[uses[i].node] \in 1 .. Len(pools[uses[i].package].values)
<1> DEFINE c == uses[i].constant
           p == uses[i].package
           id == poolIds[uses[i].node]
           buffer == IF phase = "run" THEN image.texts ELSE strings.buffer
           slots == SlotsOf(p)
<1>1. p \in 1 .. Packages /\ ConstantOK(c, menu) /\ Found(c, KnownOf(p), slots, strings.buffer, id) /\ c.kind = "string"
  BY UseNow
<1>2. buffer = strings.buffer
  BY DEF Inv, ImageInv
<1>3. strings.buffer \in Seq(Nat)
  BY StringsNow DEF TextsOK
<1>4. c.of \in Seq(Nat)
  BY <1>1 DEF ConstantOK, Referable
<1>5. KnownOf(p).pool.values = pools[p].values
  BY DEF KnownOf
<1>6. Read(uses[i]) = SubSeq(buffer, Cell(p, id + 1), Cell(p, id + 1) + Cell(p, id) - 1)
  BY DEF Read
<1>7. CellsOf(c) = c.of
  BY <1>1 DEF CellsOf
<1> HIDE DEF c, id, buffer, slots
<1>8. PICK start \in Nat \ {0} :
        Holds(pools[p].values, slots, id, <<Len(c.of), start>>) /\ Holds(strings.buffer, {}, start, c.of)
  BY <1>1, <1>5 DEF Found
<1>9. /\ id + 1 - 1 \in 1 .. Len(pools[p].values) /\ Cell(p, id + 1 - 1) = Len(c.of)
      /\ Cell(p, id + 2 - 1) = start
  <2> DEFINE cells == <<Len(c.of), start>>
  <2>1. 1 \in 1 .. Len(cells) /\ 2 \in 1 .. Len(cells) /\ cells[1] = Len(c.of) /\ cells[2] = start
    OBVIOUS
  <2>2. Holds(pools[p].values, slots, id, cells)
    BY <1>8
  <2> HIDE DEF cells, p
  <2>3. Reads(p, id, cells)
    BY <1>1, <2>2, CellHolds
  <2> QED
    BY <2>1, <2>3 DEF Reads
<1>10. id \in Nat /\ id + 1 - 1 = id /\ id + 2 - 1 = id + 1
  <2>1. id \in Nat
    BY <1>1 DEF Found
  <2> QED
    BY <2>1
<1>11. SubSeq(strings.buffer, start, start + Len(c.of) - 1) = c.of
  BY <1>3, <1>4, <1>8, SubSeqHolds
<1>12. Read(uses[i]) = SubSeq(strings.buffer, Cell(p, id + 1), Cell(p, id + 1) + Cell(p, id) - 1)
  BY <1>2, <1>6 DEF c, id
<1> QED
  BY <1>7, <1>9, <1>10, <1>11, <1>12 DEF c, id, p

LEMMA ReadWords ==
  ASSUME Hashing, Inv, NEW i \in DOMAIN uses, uses[i].constant.kind # "string"
  PROVE  Read(uses[i]) = CellsOf(uses[i].constant) /\ poolIds[uses[i].node] \in 1 .. Len(pools[uses[i].package].values)
<1> DEFINE c == uses[i].constant
           p == uses[i].package
           id == poolIds[uses[i].node]
           cells == CellsOf(c)
           slots == SlotsOf(p)
<1>1. p \in 1 .. Packages /\ ConstantOK(c, menu) /\ c.kind # "string"
  BY UseNow
<1>2. id \in Nat /\ Holds(pools[p].values, slots, id, cells) /\ cells \in Seq(Int)
  BY WordsNow
<1>3. c.kind \in {"type", "long", "double", "sub", "var", "field"}
  BY <1>1 DEF ConstantOK, Referable, Singles
<1>4. Read(uses[i]) = IF c.kind \in {"type", "long", "double"} THEN <<Cell(p, id), Cell(p, id + 1)>> ELSE <<Cell(p, id)>>
  BY <1>1, <1>3 DEF Read
<1>5. Len(cells) = IF c.kind \in {"type", "long", "double"} THEN 2 ELSE 1
  <2> HIDE DEF c
  <2> QED
    BY <1>1, CellsLength
<1> HIDE DEF c, p, id, cells, slots
<1>6. \A j \in 1 .. Len(cells) : id + j - 1 \in 1 .. Len(pools[p].values) /\ Cell(p, id + j - 1) = cells[j]
  <2>1. Reads(p, id, cells)
    BY <1>1, <1>2, CellHolds
  <2> QED
    BY <2>1 DEF Reads
<1>7. id + 1 - 1 = id /\ id + 2 - 1 = id + 1
  BY <1>2
<1>8. CASE c.kind \in {"type", "long", "double"}
  <2>1. Cell(p, id) = cells[1] /\ Cell(p, id + 1) = cells[2] /\ id \in 1 .. Len(pools[p].values) /\ Len(cells) = 2
    BY <1>5, <1>6, <1>7, <1>8
  <2>2. cells = <<cells[1], cells[2]>>
    BY <1>2, <2>1
  <2>3. Read(uses[i]) = <<Cell(p, id), Cell(p, id + 1)>>
    BY <1>4, <1>8
  <2> QED
    BY <2>1, <2>2, <2>3 DEF c, p, id, cells
<1>9. CASE c.kind \notin {"type", "long", "double"}
  <2>1. Cell(p, id) = cells[1] /\ id \in 1 .. Len(pools[p].values) /\ Len(cells) = 1
    BY <1>5, <1>6, <1>7, <1>9
  <2>2. cells = <<cells[1]>>
    BY <1>2, <2>1
  <2>3. Read(uses[i]) = <<Cell(p, id)>>
    BY <1>4, <1>9
  <2> QED
    BY <2>1, <2>2, <2>3 DEF c, p, id, cells
<1> QED
  BY <1>8, <1>9

(* What an opcode refers to is what it reads, at any time.                 *)
ReadsNow == \A i \in DOMAIN uses : Read(uses[i]) = CellsOf(uses[i].constant)
LEMMA InvReads ==
  ASSUME Hashing, Inv
  PROVE  ReadsNow /\ \A i \in DOMAIN uses : poolIds[uses[i].node] \in 1 .. Len(pools[uses[i].package].values)
<1>1. ASSUME NEW i \in DOMAIN uses
      PROVE  Read(uses[i]) = CellsOf(uses[i].constant) /\ poolIds[uses[i].node] \in 1 .. Len(pools[uses[i].package].values)
  BY ReadString, ReadWords
<1> QED
  BY <1>1 DEF ReadsNow
-----------------------------------------------------------------------------
(* The properties.                                                         *)

LEMMA InvWritesFit ==
  ASSUME Hashing, Inv
  PROVE  WritesFit
<1>1. ASSUME NEW p \in 1 .. Packages, NEW t \in DOMAIN tables[p] PROVE HashFits(tables[p][t])
  <2>1. KnownOK(KnownOf(p), SlotsOf(p), menu)
    BY DEF Inv, KnownInv
  <2>2. /\ tables[p] = [x \in TableNames |-> tables[p][x]]
        /\ \A x \in TableNames : HashOK(tables[p][x])
    BY <2>1 DEF KnownOK, KnownOf
  <2>3. t \in TableNames
    BY <2>2
  <2> QED
    BY <2>2, <2>3 DEF HashOK, Fits, HashFits
<1>2. HashFits(strings.symtable) /\ Len(strings.buffer) + 1 <= strings.capacity
  BY DEF Inv, StringsInv, TextsOK, HashOK, Fits, HashFits
<1> QED
  BY <1>1, <1>2, PoolsNow DEF WritesFit

(* Nothing is written past the memory of a pool, of the texts or of a      *)
(* symbol table: each grows before it is full, texts by doubling once.     *)
THEOREM PoolsFit ==
  ASSUME Hashing, Supported
  PROVE  Spec => []WritesFit
<1>1. Inv => WritesFit
  BY InvWritesFit
<1> QED
  BY <1>1, Invariance, PTL

LEMMA InvInternedOnce ==
  ASSUME Hashing, Inv
  PROVE  InternedOnce
<1>1. \A i \in DOMAIN uses : poolIds[uses[i].node] \in 1 .. Len(pools[uses[i].package].values)
  BY InvReads
<1>2. ASSUME NEW i \in DOMAIN uses, NEW j \in DOMAIN uses, uses[i].package = uses[j].package,
             uses[i].constant.kind # "string", uses[j].constant.kind # "string",
             TableOf(uses[i].constant.kind) = TableOf(uses[j].constant.kind),
             KeyOf(uses[i].constant) = KeyOf(uses[j].constant)
      PROVE  poolIds[uses[i].node] = poolIds[uses[j].node]
  <2>1. poolIds[uses[i].node] = Fetch(tables[uses[i].package][TableOf(uses[i].constant.kind)], KeyOf(uses[i].constant))
    BY <1>2, WordsNow
  <2>2. poolIds[uses[j].node] = Fetch(tables[uses[j].package][TableOf(uses[j].constant.kind)], KeyOf(uses[j].constant))
    BY <1>2, WordsNow
  <2> QED
    BY <1>2, <2>1, <2>2
<1> QED
  BY <1>1, <1>2 DEF InternedOnce

(* What a package refers to several times has one index, of its pool,      *)
(* because symbol tables lose no key.                                      *)
THEOREM OneEntryEach ==
  ASSUME Hashing, Supported
  PROVE  Spec => []InternedOnce
<1>1. Inv => InternedOnce
  BY InvInternedOnce
<1> QED
  BY <1>1, Invariance, PTL

(* When a program runs, every opcode reads the constant it refers to,      *)
(* from the image of all packages.                                         *)
THEOREM ConstantsAreRead ==
  ASSUME Hashing, Supported
  PROVE  Spec => []ConstantsRead
<1>1. Inv => ConstantsRead
  BY InvReads DEF ReadsNow, ConstantsRead
<1> QED
  BY <1>1, Invariance, PTL

LEMMA InvListsDeclare ==
  ASSUME Hashing, Inv
  PROVE  ListsDeclare
<1>1. SUFFICES ASSUME phase = "run", NEW p \in 1 .. Packages
               PROVE  /\ \A k \in ListKinds : Distinct(ListRead(p, k))
                      /\ \A i \in DOMAIN uses :
                           LET c == uses[i].constant IN
                           uses[i].package = p =>
                             /\ c.kind \in ListKinds => \E n \in DOMAIN ListRead(p, c.kind) : ListRead(p, c.kind)[n] = c.of[1]
                             /\ c.kind = "type" => \E n \in DOMAIN ListRead(p, "basic") :
                                                     ListRead(p, "basic")[n] = RuntimeType(c.of)[1]
  BY DEF ListsDeclare
<1>2. KnownOK(KnownOf(p), SlotsOf(p), menu)
  BY DEF Inv, KnownInv
<1>3. \A k \in ListKinds : lists[p][k] \in Seq(Nat) /\ ListOK(lists[p][k], tables[p][k])
  BY <1>2 DEF KnownOK, KnownOf
<1>4. ASSUME NEW k \in ListKinds PROVE ListRead(p, k) = lists[p][k]
  <2> DEFINE id == listIds[p][k]
             l == lists[p][k]
             cells == Counted(l)
             n == Len(l)
  <2>1. Holds(pools[p].values, SlotsOf(p), id, cells)
    BY <1>1 DEF Inv, ListsInv, Finished
  <2>2. l \in Seq(Nat) /\ id \in Nat
    BY <1>3 DEF Inv, TypeInv
  <2>3. n \in Nat /\ l \in Seq(Int) /\ <<n>> \in Seq(Int) /\ Len(<<n>>) = 1 /\ <<n>>[1] = n
    BY <2>2
  <2>4. Len(cells) = 1 + n /\ cells[1] = n /\ \A j \in 1 .. n : cells[1 + j] = l[j]
    BY <2>3, ConcatFacts DEF Counted
  <2>5. ListRead(p, k) = [j \in 1 .. Cell(p, id) |-> Cell(p, id + j)]
    BY DEF ListRead
  <2> HIDE DEF id, cells
  <2>6. Reads(p, id, cells)
    BY <2>1, CellHolds
  <2> HIDE DEF l, n
  <2>7. Cell(p, id) = n
    <3>1. 1 \in 1 .. Len(cells) /\ id + 1 - 1 = id
      BY <2>2, <2>3, <2>4
    <3> QED
      BY <2>4, <2>6, <3>1 DEF Reads
  <2>8. \A j \in 1 .. n : Cell(p, id + j) = l[j]
    <3>1. SUFFICES ASSUME NEW j \in 1 .. n PROVE Cell(p, id + j) = l[j]
      OBVIOUS
    <3>2. 1 + j \in 1 .. Len(cells) /\ id + (1 + j) - 1 = id + j
      BY <2>2, <2>3, <2>4
    <3>3. Cell(p, id + (1 + j) - 1) = cells[1 + j]
      BY <2>6, <3>2 DEF Reads
    <3> QED
      BY <2>4, <3>2, <3>3
  <2>9. l = [j \in 1 .. n |-> l[j]]
    BY <2>2 DEF n
  <2> QED
    BY <2>5, <2>7, <2>8, <2>9 DEF l
<1>5. \A k \in ListKinds : Distinct(ListRead(p, k))
  BY <1>3, <1>4 DEF ListOK
<1>6. ASSUME NEW k \in ListKinds, NEW x, InList(lists[p][k], x)
      PROVE  \E n \in DOMAIN ListRead(p, k) : ListRead(p, k)[n] = x
  <2>1. DOMAIN lists[p][k] = 1 .. Len(lists[p][k])
    BY <1>3
  <2> QED
    BY <1>4, <1>6, <2>1 DEF InList
<1>7. ASSUME NEW i \in DOMAIN uses, uses[i].package = p
      PROVE  LET c == uses[i].constant IN
             /\ c.kind \in ListKinds => \E n \in DOMAIN ListRead(p, c.kind) : ListRead(p, c.kind)[n] = c.of[1]
             /\ c.kind = "type" => \E n \in DOMAIN ListRead(p, "basic") : ListRead(p, "basic")[n] = RuntimeType(c.of)[1]
  <2> DEFINE c == uses[i].constant
  <2>1. Found(c, KnownOf(p), SlotsOf(p), strings.buffer, poolIds[uses[i].node])
    BY <1>7, UseNow
  <2> HIDE DEF c
  <2>2. KnownOf(p).lists = lists[p]
    BY DEF KnownOf
  <2>3. "basic" \in ListKinds /\ "string" \notin ListKinds
    BY DEF ListKinds
  <2>4. c.kind \in ListKinds => InList(lists[p][c.kind], c.of[1])
    BY <2>1, <2>2, <2>3 DEF Found
  <2>5. c.kind = "type" => InList(lists[p]["basic"], RuntimeType(c.of)[1])
    BY <2>1, <2>2 DEF Found
  <2> QED
    BY <1>6, <2>3, <2>4, <2>5 DEF c
<1> QED
  BY <1>5, <1>7

(* The precompiler declares every id a package uses, once.                 *)
THEOREM ListsAreRead ==
  ASSUME Hashing, Supported
  PROVE  Spec => []ListsDeclare
<1>1. Inv => ListsDeclare
  BY InvListsDeclare
<1> QED
  BY <1>1, Invariance, PTL

LEMMA NameText ==
  ASSUME NEW b \in Seq(Nat), NEW id \in Nat, NEW n \in Seq(Nat \ {0}), Holds(b, {}, id, Append(n, Nul)), image.texts = b
  PROVE  TextAt(id) = n
<1> DEFINE key == Append(n, Nul)
           len == Len(n)
           ends == {i \in id .. Len(b) : b[i] = Nul}
           S == ends \union {Len(b) + 1}
<1>1. n \in Seq(Nat) /\ len \in Nat /\ Len(b) \in Nat /\ \A j \in 1 .. len : n[j] \in Nat /\ n[j] # 0
  OBVIOUS
<1>2. Len(key) = len + 1 /\ key[len + 1] = 0 /\ \A j \in 1 .. len : key[j] = n[j]
  BY DEF Nul
<1>3. Holds(b, {}, id, key)
  OBVIOUS
<1>4. TextAt(id) = SubSeq(b, id, Min(S) - 1)
  BY DEF TextAt
<1> HIDE DEF key, len, S
<1>5. /\ \A j \in 1 .. len : id + j - 1 \in 1 .. Len(b) /\ b[id + j - 1] = n[j]
      /\ id + (len + 1) - 1 \in 1 .. Len(b) /\ b[id + (len + 1) - 1] = 0
  <2>1. \A j \in 1 .. len + 1 : id + j - 1 \in 1 .. Len(b) /\ b[id + j - 1] = key[j]
    BY <1>2, <1>3 DEF Holds
  <2>2. len + 1 \in 1 .. len + 1 /\ \A j \in 1 .. len : j \in 1 .. len + 1
    BY <1>1
  <2>3. ASSUME NEW j \in 1 .. len PROVE id + j - 1 \in 1 .. Len(b) /\ b[id + j - 1] = n[j]
    BY <1>2, <2>1, <2>2
  <2>4. id + (len + 1) - 1 \in 1 .. Len(b) /\ b[id + (len + 1) - 1] = 0
    BY <1>2, <2>1, <2>2
  <2> QED
    BY <2>3, <2>4
<1>6. id + (len + 1) - 1 = id + len /\ id # 0
  <2>1. id # 0
    <3>1. CASE len = 0
      BY <1>5, <3>1
    <3>2. CASE len # 0
      <4>1. 1 \in 1 .. len /\ id + 1 - 1 = id
        BY <1>1, <3>2
      <4> QED
        BY <1>5, <4>1
    <3> QED
      BY <3>1, <3>2
  <2> QED
    BY <1>1, <2>1
<1>7. id + len \in ends
  <2>1. id + len \in id .. Len(b)
    BY <1>1, <1>5, <1>6
  <2> QED
    BY <1>5, <1>6, <2>1 DEF Nul
<1>8. \A i \in ends : id + len <= i
  <2>1. SUFFICES ASSUME NEW i \in ends, i < id + len PROVE FALSE
    BY <1>1
  <2>2. i \in id .. Len(b) /\ b[i] = 0
    BY DEF Nul
  <2>3. i - id + 1 \in 1 .. len /\ id + (i - id + 1) - 1 = i
    BY <1>1, <2>1, <2>2
  <2> QED
    BY <1>1, <1>5, <2>2, <2>3
<1>9. Min(S) = id + len
  <2>1. id + len \in S /\ \A i \in S : id + len <= i
    <3>1. id + len <= Len(b) + 1
      BY <1>1, <1>5, <1>6
    <3> HIDE DEF ends
    <3> QED
      BY <1>7, <1>8, <3>1 DEF S
  <2>2. \A i \in S : i \in Int
    BY <1>1 DEF S
  <2>3. \A x \in S : (\A y \in S : x <= y) => x = id + len
    <3> HIDE DEF ends
    <3> QED
      BY <1>1, <2>1, <2>2
  <2> HIDE DEF ends
  <2> QED
    BY <2>1, <2>3 DEF Min
<1>10. Holds(b, {}, id, n)
  BY <1>5 DEF Holds, len
<1>11. SubSeq(b, id, id + Len(n) - 1) = n
  <2>1. id \in Nat \ {0}
    BY <1>6
  <2> QED
    BY <1>1, <1>10, <2>1, SubSeqHolds
<1> QED
  BY <1>4, <1>9, <1>11 DEF len

LEMMA InvNamesRead ==
  ASSUME Hashing, Inv
  PROVE  NamesRead
<1>1. SUFFICES ASSUME phase = "run", NEW n \in Names PROVE TextAt(Fetch(strings.symtable, Append(n, Nul))) = n
  BY DEF NamesRead
<1> DEFINE key == Append(n, Nul)
           b == strings.buffer
           id == Fetch(strings.symtable, key)
<1>2. n \in Seq(Nat \ {0}) /\ key \in Key
  <2>1. n \in Seq(Nat \ {0})
    BY ProgramAssumption
  <2>2. n \in Seq(Nat)
    BY <2>1
  <2>3. Append(n, Nul) \in Seq(Nat)
    BY <2>2 DEF Nul
  <2> QED
    BY <2>1, <2>3 DEF Key
<1>3. TextsOK(strings) /\ NamesKnown(strings)
  BY <1>1 DEF Inv, StringsInv
<1>4. id # Missing
  BY <1>3 DEF NamesKnown
<1>5. b \in Seq(Nat) /\ HashOK(strings.symtable)
  BY <1>3 DEF TextsOK
<1>6. id \in Nat
  BY <1>2, <1>5, FetchFacts
<1>7. Holds(b, {}, id, key)
  BY <1>2, <1>3, <1>4 DEF TextsOK
<1>8. image.texts = b
  BY <1>1 DEF Inv, ImageInv
<1> HIDE DEF b, id
<1>9. TextAt(id) = n
  BY <1>2, <1>5, <1>6, <1>7, <1>8, NameText
<1> QED
  BY <1>9 DEF id

(* Every name the runtime looks things up by is found in the image, ends   *)
(* where it ended in the source, and nothing else is found in its place.   *)
THEOREM NamesAreRead ==
  ASSUME Hashing, Supported
  PROVE  Spec => []NamesRead
<1>1. Inv => NamesRead
  BY InvNamesRead
<1> QED
  BY <1>1, Invariance, PTL

(* The opcodes with what they mean and what they read, as the promise of   *)
(* the compiler has them, and as they are when it is kept.                 *)
Reading(means, words) == [means |-> means, reads |-> words]
Mapped == [i \in DOMAIN uses |-> [means |-> CellsOf(uses[i].constant), reads |-> Read(uses[i])]]
Meant(u) == [i \in DOMAIN u |-> Reading(CellsOf(u[i].constant), CellsOf(u[i].constant))]
AsMeant == Mapped = Meant(uses)

LEMMA InvAsMeant ==
  ASSUME Hashing, Inv
  PROVE  AsMeant
<1>1. ReadsNow
  BY InvReads
<1> QED
  BY <1>1 DEF ReadsNow, AsMeant, Mapped, Meant, Reading

LEMMA UsesGrow ==
  ASSUME Next
  PROVE  uses' = uses \/ \E u : uses' = Append(uses, u)
<1>1. ASSUME NEW c, UseType(c) PROVE \E u : uses' = Append(uses, u)
  BY <1>1 DEF UseType, Refer
<1>2. ASSUME NEW c, UseId(c) PROVE \E u : uses' = Append(uses, u)
  BY <1>2 DEF UseId, Refer
<1>3. ASSUME NEW c, ArrayInit(c) PROVE \E u : uses' = Append(uses, u)
  BY <1>3 DEF ArrayInit, Refer
<1>4. ASSUME NEW c, NEW node, WideConstant(c, node) PROVE \E u : uses' = Append(uses, u)
  BY <1>4 DEF WideConstant, Refer
<1>5. ASSUME NEW c, NEW node, StringConstant(c, node) PROVE \E u : uses' = Append(uses, u)
  BY <1>5 DEF StringConstant, Refer
<1>6. (\E n \in Names : Name(n)) \/ NamesDone \/ (\E s \in menu.switches : Switch(s)) \/ FinishPackage
        \/ BuildSwitch \/ BuildPortable => uses' = uses
  BY DEF Name, NamesDone, Switch, FinishPackage, BuildSwitch, BuildPortable
<1> QED
  BY <1>1, <1>2, <1>3, <1>4, <1>5, <1>6 DEF Next

LEMMA MeantGrows ==
  ASSUME NEW s, NEW S, s \in Seq(S), NEW u
  PROVE  LET a == Meant(s)  r == Meant(Append(s, u)) IN
         /\ Len(a) \in Nat /\ Len(r) = Len(a) + 1 /\ \A i \in DOMAIN a : r[i] = a[i]
         /\ r[Len(a) + 1].reads = r[Len(a) + 1].means
<1> DEFINE n == Len(s)
           t == Append(s, u)
           F(x) == Reading(CellsOf(x.constant), CellsOf(x.constant))
<1>1. n \in Nat /\ DOMAIN s = 1 .. n
  OBVIOUS
<1>2. DOMAIN t = 1 .. n + 1 /\ t[n + 1] = u /\ \A i \in 1 .. n : t[i] = s[i]
  OBVIOUS
<1> DEFINE a == Meant(s)
           r == Meant(t)
<1>3. a = [i \in 1 .. n |-> F(s[i])] /\ r = [i \in 1 .. n + 1 |-> F(t[i])]
  BY <1>1, <1>2 DEF Meant
<1> HIDE DEF n, t, a, r
<1>4. /\ Len(a) = n /\ Len(r) = n + 1 /\ DOMAIN a = 1 .. n
  BY <1>1, <1>3
<1>5. \A i \in 1 .. n : r[i] = a[i]
  <2>1. \A i \in 1 .. n : i \in 1 .. n + 1
    BY <1>1
  <2> HIDE DEF F
  <2> QED
    BY <1>2, <1>3, <2>1
<1>6. r[n + 1].reads = r[n + 1].means
  <2>1. n + 1 \in 1 .. n + 1
    BY <1>1
  <2>2. r[n + 1] = F(t[n + 1])
    BY <1>3, <2>1
  <2>3. \A x : F(x).reads = F(x).means
    BY DEF Reading
  <2> QED
    BY <2>2, <2>3
<1> QED
  BY <1>1, <1>4, <1>5, <1>6 DEF a, r, t

(* What an opcode refers to is what it reads from the moment it is         *)
(* compiled on, whatever is compiled after it and in other packages, while *)
(* the switch statements are written, and in the image: the compiler keeps *)
(* its promise.                                                            *)
THEOREM CompiledConstantsAreRead ==
  ASSUME Hashing, Supported
  PROVE  Spec => ReadsAsCompiled
<1>1. Inv => AsMeant /\ TypeInv
  BY InvAsMeant DEF Inv
<1>2. Init => Promise!Init
  BY DEF Init, Promise!Init
<1>3. ASSUME AsMeant, AsMeant', TypeInv, [Next]_vars
      PROVE  [Promise!Refer]_Mapped
  <2>1. Mapped = Meant(uses) /\ Mapped' = Meant(uses')
    BY <1>3 DEF AsMeant
  <2>2. CASE uses' = uses
    BY <2>1, <2>2
  <2>3. CASE \E u : uses' = Append(uses, u)
    <3>1. PICK u : uses' = Append(uses, u)
      BY <2>3
    <3>2. uses \in Seq(Uses)
      BY <1>3 DEF TypeInv
    <3>3. LET a == Meant(uses)  r == Meant(uses') IN
          /\ Len(a) \in Nat /\ Len(r) = Len(a) + 1 /\ \A i \in DOMAIN a : r[i] = a[i]
          /\ r[Len(a) + 1].reads = r[Len(a) + 1].means
      BY <3>1, <3>2, MeantGrows
    <3>4. /\ Len(Mapped') = Len(Mapped) + 1 /\ \A i \in DOMAIN Mapped : Mapped'[i] = Mapped[i]
          /\ Mapped'[Len(Mapped) + 1].reads = Mapped'[Len(Mapped) + 1].means
      BY <2>1, <3>3
    <3>5. Promise!Refer
      BY <3>4 DEF Promise!Refer, Mapped
    <3> QED
      BY <3>5
  <2>4. uses' = uses \/ \E u : uses' = Append(uses, u)
    BY <1>3, UsesGrow DEF vars
  <2> QED
    BY <2>2, <2>3, <2>4
<1>4. Spec => []AsMeant /\ []TypeInv
  BY <1>1, Invariance, PTL
<1>5. Spec => []([Promise!Refer]_Mapped)
  BY <1>3, <1>4, PTL DEF Spec
<1> QED
  BY <1>2, <1>5, PTL DEF Spec, ReadsAsCompiled, Promise!Spec, Mapped
-----------------------------------------------------------------------------
(* Finding the branch of a switch statement.                               *)

Ranges(n) == (0 .. n) \X (-1 .. n - 1)
Size(r) == r[2] - r[1] + 1
Half(r) == r[1] + (r[2] - r[1]) \div 2
StepAt(g, s, v, r) ==
  LET low == r[1]  high == r[2]  half == low + (high - low) \div 2
  IN IF high < low THEN Cell(s.package, s.id)
     ELSE IF v > CaseAt(s, half) THEN g[<<half + 1, high>>]
     ELSE IF v < CaseAt(s, half) THEN g[<<low, half - 1>>]
     ELSE JumpAt(s, half)

LEMMA HalfFacts ==
  ASSUME NEW n \in Nat, NEW r \in Ranges(n), ~(r[2] < r[1])
  PROVE  /\ Half(r) \in r[1] .. r[2] /\ Half(r) \in 0 .. n - 1
         /\ <<Half(r) + 1, r[2]>> \in Ranges(n) /\ Size(<<Half(r) + 1, r[2]>>) < Size(r)
         /\ <<r[1], Half(r) - 1>> \in Ranges(n) /\ Size(<<r[1], Half(r) - 1>>) < Size(r)
<1>1. PICK low \in 0 .. n, high \in -1 .. n - 1 : r = <<low, high>>
  BY DEF Ranges
<1>2. low <= high
  BY <1>1
<1>3. (high - low) \div 2 \in 0 .. high - low
  BY <1>2
<1> DEFINE half == low + (high - low) \div 2
<1>4. half \in low .. high
  <2> DEFINE d == (high - low) \div 2
  <2>1. d \in 0 .. high - low
    BY <1>3
  <2> HIDE DEF d
  <2> QED
    BY <1>2, <2>1
<1>5. Half(r) = half
  BY <1>1 DEF Half
<1> HIDE DEF half
<1>6. half + 1 \in 0 .. n /\ half - 1 \in -1 .. n - 1 /\ half \in 0 .. n - 1
  BY <1>2, <1>4
<1>7. <<half + 1, high>> \in Ranges(n) /\ <<low, half - 1>> \in Ranges(n)
  BY <1>6 DEF Ranges
<1>8. Size(<<half + 1, high>>) < Size(r) /\ Size(<<low, half - 1>>) < Size(r)
  BY <1>1, <1>4 DEF Size
<1> QED
  BY <1>1, <1>4, <1>5, <1>6, <1>7, <1>8

LEMMA StepLocal ==
  ASSUME NEW n \in Nat, NEW s, NEW v, NEW r \in Ranges(n), NEW g, NEW h,
         \A q \in Ranges(n) : Size(q) < Size(r) => g[q] = h[q]
  PROVE  StepAt(g, s, v, r) = StepAt(h, s, v, r)
<1>1. CASE r[2] < r[1]
  BY <1>1 DEF StepAt
<1>2. CASE ~(r[2] < r[1])
  <2>1. g[<<Half(r) + 1, r[2]>>] = h[<<Half(r) + 1, r[2]>>] /\ g[<<r[1], Half(r) - 1>>] = h[<<r[1], Half(r) - 1>>]
    BY <1>2, HalfFacts
  <2> QED
    BY <2>1 DEF StepAt, Half
<1> QED
  BY <1>1, <1>2

LEMMA SizeFacts ==
  ASSUME NEW n \in Nat, NEW r \in Ranges(n)
  PROVE  Size(r) \in Int /\ Size(r) <= n /\ (Size(r) <= 0 <=> r[2] < r[1]) /\ r[1] \in 0 .. n /\ r[2] \in -1 .. n - 1
<1>1. PICK low \in 0 .. n, high \in -1 .. n - 1 : r = <<low, high>>
  BY DEF Ranges
<1>2. r[1] = low /\ r[2] = high /\ Size(r) = high - low + 1
  BY <1>1 DEF Size
<1> QED
  BY <1>2

Searches(g, n, s, v, m) ==
  g = [r \in Ranges(n) |-> g[r]] /\ \A r \in Ranges(n) : Size(r) <= m => g[r] = StepAt(g, s, v, r)

IsSearch(g, n, s, v) == g = [r \in Ranges(n) |-> StepAt(g, s, v, r)]
LEMMA SearchExists ==
  ASSUME NEW n \in Nat, NEW s, NEW v
  PROVE  \E g : IsSearch(g, n, s, v)
<1> DEFINE Bad == {m \in 0 .. n : ~ \E g : Searches(g, n, s, v, m)}
<1>1. ASSUME Bad # {} PROVE FALSE
  <2>1. Bad \subseteq Nat
    OBVIOUS
  <2>2. PICK m \in Bad : \A k \in Bad : m <= k
    <3> HIDE DEF Bad
    <3> QED
      BY <1>1, <2>1, Least
  <2>3. m \in 0 .. n /\ ~ \E g : Searches(g, n, s, v, m)
    OBVIOUS
  <2>4. CASE m = 0
    <3> DEFINE g == [r \in Ranges(n) |-> Cell(s.package, s.id)]
    <3>1. \A r \in Ranges(n) : Size(r) <= 0 => g[r] = StepAt(g, s, v, r)
      BY SizeFacts DEF StepAt
    <3>2. g = [r \in Ranges(n) |-> g[r]]
      OBVIOUS
    <3> HIDE DEF g
    <3> QED
      BY <2>3, <2>4, <3>1, <3>2 DEF Searches
  <2>5. CASE m # 0
    <3>1. m - 1 \in 0 .. n /\ m \in Nat
      BY <2>3, <2>5
    <3>2. PICK g : Searches(g, n, s, v, m - 1)
      <4>1. m - 1 \notin Bad
        <5> HIDE DEF Bad
        <5> QED
          BY <2>2, <3>1
      <4> QED
        BY <3>1, <4>1
    <3> DEFINE h == [r \in Ranges(n) |-> IF Size(r) <= m - 1 THEN g[r] ELSE StepAt(g, s, v, r)]
    <3>3. h = [r \in Ranges(n) |-> h[r]]
      OBVIOUS
    <3>4. \A r \in Ranges(n) : h[r] = IF Size(r) <= m - 1 THEN g[r] ELSE StepAt(g, s, v, r)
      OBVIOUS
    <3> HIDE DEF h, Bad
    <3>5. \A r \in Ranges(n) : h[r] = StepAt(g, s, v, r)
      BY <3>2, <3>4 DEF Searches
    <3>6. ASSUME NEW r \in Ranges(n), Size(r) <= m PROVE h[r] = StepAt(h, s, v, r)
      <4>1. \A q \in Ranges(n) : Size(q) < Size(r) => g[q] = h[q]
        <5>1. SUFFICES ASSUME NEW q \in Ranges(n), Size(q) < Size(r) PROVE g[q] = h[q]
          OBVIOUS
        <5>2. Size(q) \in Int /\ Size(r) \in Int
          BY SizeFacts
        <5>3. Size(q) <= m - 1
          BY <3>1, <3>6, <5>1, <5>2
        <5> QED
          BY <3>4, <5>3
      <4>2. StepAt(g, s, v, r) = StepAt(h, s, v, r)
        BY <4>1, StepLocal
      <4> QED
        BY <3>5, <4>2
    <3>7. Searches(h, n, s, v, m)
      BY <3>3, <3>6 DEF Searches
    <3> QED
      BY <2>3, <3>7
  <2> QED
    BY <2>4, <2>5
<1>2. PICK g : Searches(g, n, s, v, n)
  BY <1>1
<1>3. \A r \in Ranges(n) : g[r] = StepAt(g, s, v, r)
  BY <1>2, SizeFacts DEF Searches
<1>4. g = [r \in Ranges(n) |-> g[r]]
  BY <1>2 DEF Searches
<1>5. g = [r \in Ranges(n) |-> StepAt(g, s, v, r)]
  <2>1. [r \in Ranges(n) |-> g[r]] = [r \in Ranges(n) |-> StepAt(g, s, v, r)]
    BY <1>3
  <2> QED
    BY <1>4, <2>1
<1> QED
  BY <1>5 DEF IsSearch

LEMMA SearchIs ==
  ASSUME NEW s, NEW v, NEW n \in Nat, Cell(s.package, s.id + 1) = n
  PROVE  \A r \in Ranges(n) : Search(s, v)[r] = StepAt(Search(s, v), s, v, r)
<1> DEFINE w == Search(s, v)
           IsW(g) ==
             g = [r \in (0 .. n) \X (-1 .. n - 1) |->
                   LET low == r[1]  high == r[2]  half == low + (high - low) \div 2
                   IN IF high < low THEN Cell(s.package, s.id)
                      ELSE IF v > CaseAt(s, half) THEN g[<<half + 1, high>>]
                      ELSE IF v < CaseAt(s, half) THEN g[<<low, half - 1>>]
                      ELSE JumpAt(s, half)]
<1>1. \A g : IsW(g) <=> IsSearch(g, n, s, v)
  BY DEF Ranges, StepAt, IsSearch
<1>2. PICK g : IsW(g)
  <2> HIDE DEF IsW
  <2> QED
    BY <1>1, SearchExists
<1>3. IsW(w)
  BY <1>2 DEF Search
<1>4. w = [r \in Ranges(n) |-> StepAt(w, s, v, r)]
  <2> HIDE DEF IsW, w
  <2> QED
    BY <1>1, <1>3 DEF IsSearch
<1> HIDE DEF w
<1>5. \A r \in Ranges(n) : w[r] = StepAt(w, s, v, r)
  BY <1>4
<1> QED
  BY <1>5 DEF w

(* What is found among the cases from low to high.                         *)
Finds(s, v, r, x) ==
  \/ \E k \in r[1] .. r[2] : CaseAt(s, k) = v /\ x = JumpAt(s, k)
  \/ (\A k \in r[1] .. r[2] : CaseAt(s, k) # v) /\ x = Cell(s.package, s.id)

LEMMA SearchFinds ==
  ASSUME NEW s, NEW v \in Int, NEW n \in Nat, Cell(s.package, s.id + 1) = n,
         \A k \in 0 .. n - 1 : CaseAt(s, k) \in Int,
         \A j, k \in 0 .. n - 1 : j < k => CaseAt(s, j) <= CaseAt(s, k)
  PROVE  \A r \in Ranges(n) : Finds(s, v, r, Search(s, v)[r])
<1> DEFINE w == Search(s, v)
           Good(m) == \A r \in Ranges(n) : Size(r) <= m => Finds(s, v, r, w[r])
           Bad == {m \in 0 .. n : ~Good(m)}
<1>0. \A r \in Ranges(n) : w[r] = StepAt(w, s, v, r)
  BY SearchIs
<1> HIDE DEF w
<1>1. ASSUME NEW r \in Ranges(n), r[2] < r[1] PROVE Finds(s, v, r, w[r])
  <2>1. w[r] = Cell(s.package, s.id)
    BY <1>0, <1>1 DEF StepAt
  <2>2. \A k \in r[1] .. r[2] : CaseAt(s, k) # v
    BY <1>1, SizeFacts
  <2> QED
    BY <2>1, <2>2 DEF Finds
<1>2. ASSUME NEW r \in Ranges(n), ~(r[2] < r[1]),
             \A q \in Ranges(n) : Size(q) < Size(r) => Finds(s, v, q, w[q])
      PROVE  Finds(s, v, r, w[r])
  <2> DEFINE low == r[1]
             high == r[2]
             half == Half(r)
             up == <<half + 1, high>>
             down == <<low, half - 1>>
  <2>1. /\ half \in low .. high /\ half \in 0 .. n - 1
        /\ up \in Ranges(n) /\ Size(up) < Size(r) /\ down \in Ranges(n) /\ Size(down) < Size(r)
    BY <1>2, HalfFacts
  <2>2. low \in 0 .. n /\ high \in -1 .. n - 1
    BY SizeFacts
  <2>3. Finds(s, v, up, w[up]) /\ Finds(s, v, down, w[down])
    BY <1>2, <2>1
  <2>4. w[r] = IF v > CaseAt(s, half) THEN w[up] ELSE IF v < CaseAt(s, half) THEN w[down] ELSE JumpAt(s, half)
    BY <1>0, <1>2 DEF StepAt, Half
  <2>5. up[1] = half + 1 /\ up[2] = high /\ down[1] = low /\ down[2] = half - 1
    OBVIOUS
  <2> HIDE DEF low, high, half, up, down
  <2>6. \A k \in low .. high : k \in 0 .. n - 1 /\ CaseAt(s, k) \in Int
    BY <2>2
  <2>7. CASE v > CaseAt(s, half)
    <3>1. \A k \in low .. half : CaseAt(s, k) # v
      <4>1. SUFFICES ASSUME NEW k \in low .. half PROVE CaseAt(s, k) <= CaseAt(s, half) /\ CaseAt(s, k) \in Int
        BY <2>1, <2>7
      <4>2. k \in 0 .. n - 1 /\ (k = half \/ k < half) /\ half \in 0 .. n - 1
        BY <2>1, <2>2
      <4> QED
        BY <4>2
    <3>2. \A k \in low .. high : k \in low .. half \/ k \in half + 1 .. high
      BY <2>1, <2>2
    <3>3. \A k \in half + 1 .. high : k \in low .. high
      BY <2>1, <2>2
    <3>4. w[r] = w[up]
      BY <2>4, <2>7
    <3> QED
      BY <2>3, <2>5, <3>1, <3>2, <3>3, <3>4 DEF Finds, low, high
  <2>8. CASE v < CaseAt(s, half)
    <3>1. \A k \in half .. high : CaseAt(s, k) # v
      <4>1. SUFFICES ASSUME NEW k \in half .. high PROVE CaseAt(s, half) <= CaseAt(s, k) /\ CaseAt(s, k) \in Int
        BY <2>1, <2>8
      <4>2. k \in 0 .. n - 1 /\ (k = half \/ half < k) /\ half \in 0 .. n - 1
        BY <2>1, <2>2
      <4> QED
        BY <4>2
    <3>2. \A k \in low .. high : k \in half .. high \/ k \in low .. half - 1
      BY <2>1, <2>2
    <3>3. \A k \in low .. half - 1 : k \in low .. high
      BY <2>1, <2>2
    <3>4. w[r] = w[down]
      <4>1. ~(v > CaseAt(s, half))
        BY <2>1, <2>8
      <4> QED
        BY <2>4, <2>8, <4>1
    <3> QED
      BY <2>3, <2>5, <3>1, <3>2, <3>3, <3>4 DEF Finds, low, high
  <2>9. CASE v = CaseAt(s, half)
    <3>1. w[r] = JumpAt(s, half)
      <4>1. ~(v > CaseAt(s, half)) /\ ~(v < CaseAt(s, half))
        BY <2>9
      <4> QED
        BY <2>4, <4>1
    <3> QED
      BY <2>1, <2>9, <3>1 DEF Finds, low, high
  <2> QED
    BY <2>1, <2>7, <2>8, <2>9
<1>3. ASSUME Bad # {} PROVE FALSE
  <2>1. Bad \subseteq Nat
    OBVIOUS
  <2>2. PICK m \in Bad : \A k \in Bad : m <= k
    <3> HIDE DEF Bad
    <3> QED
      BY <1>3, <2>1, Least
  <2>3. m \in 0 .. n /\ ~Good(m)
    OBVIOUS
  <2>4. PICK r \in Ranges(n) : Size(r) <= m /\ ~Finds(s, v, r, w[r])
    BY <2>3
  <2>5. ~(r[2] < r[1])
    BY <1>1, <2>4
  <2>6. PICK q \in Ranges(n) : Size(q) < Size(r) /\ ~Finds(s, v, q, w[q])
    BY <1>2, <2>4, <2>5
  <2>7. Size(q) \in Int /\ Size(r) \in Int /\ (Size(r) <= 0 <=> r[2] < r[1])
    BY SizeFacts
  <2>8. m - 1 \in 0 .. n /\ Size(q) <= m - 1 /\ ~(m <= m - 1)
    BY <2>3, <2>4, <2>5, <2>6, <2>7
  <2>9. m - 1 \notin Bad
    <3> HIDE DEF Bad
    <3> QED
      BY <2>2, <2>8
  <2>10. Good(m - 1)
    BY <2>8, <2>9
  <2> QED
    BY <2>6, <2>8, <2>10
<1>4. Good(n)
  BY <1>3
<1>5. \A r \in Ranges(n) : Finds(s, v, r, w[r])
  BY <1>4, SizeFacts
<1> QED
  BY <1>5 DEF w

(* The cases of a switch statement are those it was written with.          *)
Cases(s, v) == {n \in DOMAIN s.source : s.source[n] = v}
Expected(s, v) == IF Cases(s, v) = {} THEN {s.default} ELSE Cases(s, v)

LEMMA CasesFacts ==
  ASSUME NEW s \in SwitchRecords, CasesOK(s)
  PROVE  /\ \A k \in 1 .. Len(s.cases) : s.cases[k].match \in Int /\ s.cases[k].jump \in Cases(s, s.cases[k].match)
         /\ \A v : (\A k \in 1 .. Len(s.cases) : s.cases[k].match # v) => Cases(s, v) = {}
         /\ Len(s.cases) \in Nat \ {0} /\ Lowest(s) \in Int /\ Highest(s) \in Int
         /\ \A k \in 1 .. Len(s.cases) : s.cases[k].match \in Lowest(s) .. Highest(s)
<1> DEFINE c == s.cases
           d == Numbered(s.source)
           n == Len(s.source)
<1>1. c \in Seq(Case) /\ s.source \in Seq(Int)
  BY DEF SwitchRecords
<1>2. Len(c) > 0 /\ Len(c) = n /\ Same(c, d) /\ \A i, j \in 1 .. Len(c) : i < j => c[i].match <= c[j].match
  BY DEF CasesOK
<1>3. n \in Nat /\ DOMAIN s.source = 1 .. n
  BY <1>1
<1>4. Len(d) = n /\ \A i \in 1 .. n : d[i].match = s.source[i] /\ d[i].jump = i
  BY <1>3 DEF Numbered
<1>5. \A v, k : k \in Cases(s, v) <=> k \in 1 .. n /\ s.source[k] = v
  BY <1>3 DEF Cases
<1>6. \A k \in 1 .. Len(c) : c[k] \in Case /\ k \in Nat
  BY <1>1
<1>7. \A k \in 1 .. Len(c) : c[k].match \in Int
  BY <1>6 DEF Case
<1> HIDE DEF c, d, n
<1>8. ASSUME NEW k \in 1 .. Len(c) PROVE c[k].jump \in Cases(s, c[k].match)
  <2>1. PICK b \in 1 .. Len(d) : c[k] = d[b]
    BY <1>2 DEF Same
  <2>2. c[k].match = s.source[b] /\ c[k].jump = b /\ b \in 1 .. n
    BY <1>4, <2>1
  <2> QED
    BY <1>5, <2>2
<1>9. ASSUME NEW v, \A k \in 1 .. Len(c) : c[k].match # v PROVE Cases(s, v) = {}
  <2>1. SUFFICES ASSUME NEW k, k \in Cases(s, v) PROVE FALSE
    OBVIOUS
  <2>2. k \in 1 .. Len(d) /\ d[k].match = v
    BY <1>4, <1>5, <2>1
  <2>3. PICK a \in 1 .. Len(c) : d[k] = c[a]
    BY <1>2, <2>2 DEF Same
  <2> QED
    BY <1>9, <2>2, <2>3
<1>10. Lowest(s) = c[1].match /\ Highest(s) = c[Len(c)].match
  BY DEF Lowest, Highest, c
<1>11. 1 \in 1 .. Len(c) /\ Len(c) \in 1 .. Len(c) /\ Len(c) \in Nat \ {0}
  BY <1>2, <1>3
<1>12. \A k \in 1 .. Len(c) : (k = 1 \/ 1 < k) /\ (k = Len(c) \/ k < Len(c))
  BY <1>11
<1>13. \A k \in 1 .. Len(c) : c[1].match <= c[k].match /\ c[k].match <= c[Len(c)].match
  BY <1>2, <1>7, <1>11, <1>12
<1>14. \A k \in 1 .. Len(c) : c[k].match \in Lowest(s) .. Highest(s)
  BY <1>7, <1>10, <1>11, <1>13
<1> QED
  BY <1>7, <1>8, <1>9, <1>10, <1>11, <1>14 DEF c

(* The words of a switch statement when a program runs.                    *)
LEMMA SwitchNow ==
  ASSUME Inv, phase = "run", NEW i \in DOMAIN switches
  PROVE  LET s == switches[i]  p == s.package IN
         /\ s \in SwitchRecords /\ CasesOK(s) /\ p \in 1 .. Packages
         /\ Cell(p, s.id) = s.default
         /\ IsTable(s.cases) =>
              /\ Cell(p, s.id + 1) = Lowest(s) /\ Cell(p, s.id + 2) = Highest(s)
              /\ \A v \in Lowest(s) .. Highest(s) : Cell(p, s.id + 3 + (v - Lowest(s))) = Branch(s, v)
         /\ ~IsTable(s.cases) =>
              /\ Cell(p, s.id + 1) = Len(s.cases)
              /\ \A k \in 1 .. Len(s.cases) :
                   Cell(p, s.id + 2 * k) = s.cases[k].match /\ Cell(p, s.id + 1 + 2 * k) = s.cases[k].jump
<1> DEFINE s == switches[i]
           p == s.package
           values == pools[p].values
           slots == SlotsOf(p)
<1>1. i \in 1 .. Len(switches) /\ s \in SwitchRecords
  BY DEF Inv, TypeInv
<1>2. SwitchOK(s) /\ s.built
  BY <1>1 DEF Inv, SwitchesInv, ImageInv
<1>3. p \in 1 .. Packages /\ s.id \in Nat \ {0}
  BY <1>1 DEF SwitchRecords
<1>4. CasesOK(s) /\ Fixed(s, values, slots) /\ Written(s, values)
  BY <1>2 DEF SwitchOK
<1>5. Slots(s) \subseteq slots
  BY <1>1 DEF SlotsOf
<1>6. slots \subseteq 1 .. Len(values)
  BY <1>3 DEF Inv, KnownInv, KnownOK, KnownOf
<1>7. s.cases \in Seq(Case)
  BY <1>1 DEF SwitchRecords
<1> HIDE DEF s, p, values, slots
<1>8. \A n \in Slots(s) : Cell(p, n) = values[n]
  BY <1>3, <1>5, <1>6, CellRun DEF values
<1>9. /\ s.id \in Slots(s)
      /\ IsTable(s.cases) => \A x \in Lowest(s) .. Highest(s) : s.id + 3 + (x - Lowest(s)) \in Slots(s)
      /\ ~IsTable(s.cases) => \A j \in 1 .. Len(s.cases) : s.id + 1 + 2 * j \in Slots(s)
  BY <1>1, <1>4, WrittenSlots
<1>10. Cell(p, s.id) = s.default
  BY <1>4, <1>8, <1>9 DEF Written
<1>11. ASSUME NEW id, NEW x, Holds(values, slots, id, <<x>>), id \in Nat PROVE Cell(p, id) = x
  <2> DEFINE cells == <<x>>
  <2>1. 1 \in 1 .. Len(cells) /\ cells[1] = x /\ Holds(pools[p].values, slots, id, cells)
    BY <1>11 DEF values
  <2> HIDE DEF cells
  <2>2. Reads(p, id, cells)
    BY <1>3, <2>1, CellHolds
  <2>3. id + 1 - 1 = id
    BY <1>11
  <2> QED
    BY <2>1, <2>2, <2>3 DEF Reads
<1>12. ASSUME IsTable(s.cases)
       PROVE  /\ Cell(p, s.id + 1) = Lowest(s) /\ Cell(p, s.id + 2) = Highest(s)
              /\ \A v \in Lowest(s) .. Highest(s) : Cell(p, s.id + 3 + (v - Lowest(s))) = Branch(s, v)
  <2> DEFINE cells == <<Lowest(s), Highest(s)>>
             id == s.id + 1
  <2>1. /\ 1 \in 1 .. Len(cells) /\ 2 \in 1 .. Len(cells) /\ cells[1] = Lowest(s) /\ cells[2] = Highest(s)
        /\ Holds(pools[p].values, slots, id, cells)
    BY <1>4, <1>12 DEF Fixed, values
  <2>2. id + 1 - 1 = s.id + 1 /\ id + 2 - 1 = s.id + 2
    BY <1>3
  <2> HIDE DEF cells, id
  <2>3. Reads(p, id, cells)
    BY <1>3, <2>1, CellHolds
  <2>4. Cell(p, s.id + 1) = Lowest(s) /\ Cell(p, s.id + 2) = Highest(s)
    BY <2>1, <2>2, <2>3 DEF Reads
  <2>5. \A v \in Lowest(s) .. Highest(s) : Cell(p, s.id + 3 + (v - Lowest(s))) = Branch(s, v)
    BY <1>4, <1>8, <1>9, <1>12 DEF Written
  <2> QED
    BY <2>4, <2>5
<1>13. ASSUME ~IsTable(s.cases)
       PROVE  /\ Cell(p, s.id + 1) = Len(s.cases)
              /\ \A k \in 1 .. Len(s.cases) :
                   Cell(p, s.id + 2 * k) = s.cases[k].match /\ Cell(p, s.id + 1 + 2 * k) = s.cases[k].jump
  <2>1. Cell(p, s.id + 1) = Len(s.cases)
    <3>1. Holds(values, slots, s.id + 1, <<Len(s.cases)>>) /\ s.id + 1 \in Nat
      BY <1>3, <1>4, <1>13 DEF Fixed
    <3> QED
      BY <1>11, <3>1
  <2>2. ASSUME NEW k \in 1 .. Len(s.cases) PROVE Cell(p, s.id + 2 * k) = s.cases[k].match
    <3>1. Holds(values, slots, s.id + 2 * k, <<s.cases[k].match>>) /\ s.id + 2 * k \in Nat
      BY <1>3, <1>4, <1>7, <1>13 DEF Fixed
    <3> QED
      BY <1>11, <3>1
  <2>3. \A k \in 1 .. Len(s.cases) : Cell(p, s.id + 1 + 2 * k) = s.cases[k].jump
    BY <1>4, <1>8, <1>9, <1>13 DEF Written
  <2> QED
    BY <2>1, <2>2, <2>3
<1> QED
  BY <1>1, <1>3, <1>4, <1>10, <1>12, <1>13 DEF s, p

(* What Branch says is one of the cases written with a value, or default.  *)
LEMMA BranchExpected ==
  ASSUME NEW s \in SwitchRecords, CasesOK(s), NEW v
  PROVE  Branch(s, v) \in Expected(s, v)
<1>1. CASE \A k \in 1 .. Len(s.cases) : s.cases[k].match # v
  <2>1. Cases(s, v) = {} /\ Branch(s, v) = s.default
    BY <1>1, CasesFacts, BranchFacts
  <2> QED
    BY <2>1 DEF Expected
<1>2. CASE \E k \in 1 .. Len(s.cases) : s.cases[k].match = v
  <2>1. PICK k \in 1 .. Len(s.cases) : s.cases[k].match = v /\ Branch(s, v) = s.cases[k].jump
    BY <1>2, BranchFacts
  <2>2. s.cases[k].jump \in Cases(s, v)
    BY <2>1, CasesFacts
  <2> QED
    BY <2>1, <2>2 DEF Expected
<1> QED
  BY <1>1, <1>2

LEMMA TableFinds ==
  ASSUME Inv, phase = "run", NEW i \in DOMAIN switches, IsTable(switches[i].cases), NEW v
  PROVE  VmSwitch(switches[i], v) \in Expected(switches[i], v) /\ PrecompiledSwitch(switches[i], v) \subseteq Expected(switches[i], v)
<1> DEFINE s == switches[i]
           p == s.package
           min == Lowest(s)
           max == Highest(s)
           word == Cell(p, s.id + 3 + v - min)
           found == {Cell(p, s.id + 3 + v - min) : x \in {v} \intersect (min .. max)}
<1>1. /\ s \in SwitchRecords /\ CasesOK(s) /\ Cell(p, s.id) = s.default
      /\ Cell(p, s.id + 1) = min /\ Cell(p, s.id + 2) = max
      /\ \A x \in min .. max : Cell(p, s.id + 3 + (x - min)) = Branch(s, x)
  BY SwitchNow
<1>2. VmSwitch(s, v) = IF v \in min .. max THEN word ELSE s.default
  BY <1>1 DEF VmSwitch, VmTableSwitch
<1>3. PrecompiledSwitch(s, v) = IF found = {} THEN {s.default} ELSE found
  BY <1>1 DEF PrecompiledSwitch
<1>4. Branch(s, v) \in Expected(s, v)
  BY <1>1, BranchExpected
<1>5. s.id \in Nat /\ min \in Int /\ max \in Int
  BY <1>1, CasesFacts DEF SwitchRecords
<1> HIDE DEF s, p, min, max
<1>6. CASE v \in min .. max
  <2>1. s.id + 3 + v - min = s.id + 3 + (v - min)
    BY <1>5, <1>6
  <2>2. word = Branch(s, v)
    BY <1>1, <1>6, <2>1
  <2> HIDE DEF word
  <2>3. found = {word}
    BY <1>6 DEF word
  <2> HIDE DEF found
  <2>4. VmSwitch(s, v) = Branch(s, v) /\ PrecompiledSwitch(s, v) = {Branch(s, v)}
    BY <1>2, <1>3, <1>6, <2>2, <2>3
  <2> QED
    BY <1>4, <2>4 DEF s
<1>7. CASE v \notin min .. max
  <2>1. Cases(s, v) = {}
    BY <1>1, <1>7, CasesFacts DEF min, max
  <2>2. Expected(s, v) = {s.default}
    BY <2>1 DEF Expected
  <2>3. found = {}
    BY <1>7
  <2> HIDE DEF found, word
  <2> QED
    BY <1>2, <1>3, <1>7, <2>2, <2>3 DEF s
<1> QED
  BY <1>6, <1>7

LEMMA LookupFinds ==
  ASSUME Inv, phase = "run", NEW i \in DOMAIN switches, ~IsTable(switches[i].cases), NEW v
  PROVE  VmSwitch(switches[i], v) \in Expected(switches[i], v) /\ PrecompiledSwitch(switches[i], v) \subseteq Expected(switches[i], v)
<1> DEFINE s == switches[i]
           p == s.package
           n == Len(s.cases)
           found == {JumpAt(s, k) : k \in {k \in 0 .. n - 1 : CaseAt(s, k) = v}}
<1>1. /\ s \in SwitchRecords /\ CasesOK(s) /\ Cell(p, s.id) = s.default /\ Cell(p, s.id + 1) = n
      /\ \A k \in 1 .. n : Cell(p, s.id + 2 * k) = s.cases[k].match /\ Cell(p, s.id + 1 + 2 * k) = s.cases[k].jump
  BY SwitchNow
<1>2. /\ n \in Nat \ {0} /\ s.id \in Nat
      /\ \A k \in 1 .. n : s.cases[k].match \in Int /\ s.cases[k].jump \in Cases(s, s.cases[k].match)
      /\ (\A k \in 1 .. n : s.cases[k].match # v) => Cases(s, v) = {}
      /\ \A k \in 1 .. n : s.cases[k].match \in s.cases[1].match .. s.cases[n].match
  BY <1>1, CasesFacts DEF SwitchRecords, Lowest, Highest
<1>3. \A j, k \in 1 .. n : j < k => s.cases[j].match <= s.cases[k].match
  BY <1>1 DEF CasesOK
<1>4. VmSwitch(s, v) = IF v \in CaseAt(s, 0) .. CaseAt(s, n - 1) THEN Search(s, v)[<<0, n - 1>>] ELSE s.default
  BY <1>1 DEF VmSwitch, VmLookupSwitch
<1>5. PrecompiledSwitch(s, v) = IF found = {} THEN {s.default} ELSE found
  BY <1>1 DEF PrecompiledSwitch
<1>6. Cell(s.package, s.id + 1) = n
  BY <1>1
<1> HIDE DEF s, p, n, found
<1>7. ASSUME NEW k \in 0 .. n - 1
      PROVE  k + 1 \in 1 .. n /\ CaseAt(s, k) = s.cases[k + 1].match /\ JumpAt(s, k) = s.cases[k + 1].jump
  <2>1. k + 1 \in 1 .. n /\ s.id + 2 * (k + 1) = s.id + 2 + 2 * k /\ s.id + 1 + 2 * (k + 1) = s.id + 3 + 2 * k
    BY <1>2
  <2> QED
    BY <1>1, <2>1 DEF CaseAt, JumpAt, p
<1>8. /\ \A k \in 0 .. n - 1 : CaseAt(s, k) \in Int
      /\ \A j, k \in 0 .. n - 1 : j < k => CaseAt(s, j) <= CaseAt(s, k)
  <2>1. \A k \in 0 .. n - 1 : CaseAt(s, k) \in Int
    BY <1>2, <1>7
  <2>2. ASSUME NEW j \in 0 .. n - 1, NEW k \in 0 .. n - 1, j < k PROVE CaseAt(s, j) <= CaseAt(s, k)
    <3>1. j + 1 < k + 1
      BY <2>2
    <3>2. s.cases[j + 1].match <= s.cases[k + 1].match
      BY <1>3, <1>7, <3>1
    <3> QED
      BY <1>7, <3>2
  <2> QED
    BY <2>1, <2>2
<1>9. ASSUME NEW k \in 0 .. n - 1, CaseAt(s, k) = v PROVE JumpAt(s, k) \in Cases(s, v)
  BY <1>2, <1>7, <1>9
<1>10. (\A k \in 0 .. n - 1 : CaseAt(s, k) # v) => Cases(s, v) = {}
  <2>1. SUFFICES ASSUME \A k \in 0 .. n - 1 : CaseAt(s, k) # v, NEW k \in 1 .. n PROVE s.cases[k].match # v
    BY <1>2
  <2>2. k - 1 \in 0 .. n - 1 /\ (k - 1) + 1 = k
    BY <1>2
  <2> QED
    BY <1>7, <2>1, <2>2
<1>11. PrecompiledSwitch(s, v) \subseteq Expected(s, v)
  <2>1. CASE \A k \in 0 .. n - 1 : CaseAt(s, k) # v
    <3>1. found = {} /\ Cases(s, v) = {}
      BY <1>10, <2>1 DEF found
    <3> QED
      BY <1>5, <3>1 DEF Expected
  <2>2. CASE \E k \in 0 .. n - 1 : CaseAt(s, k) = v
    <3>1. found # {} /\ \A x \in found : x \in Cases(s, v)
      BY <1>9, <2>2 DEF found
    <3> QED
      BY <1>5, <3>1 DEF Expected
  <2> QED
    BY <2>1, <2>2
<1>12. VmSwitch(s, v) \in Expected(s, v)
  <2>1. CASE v \in CaseAt(s, 0) .. CaseAt(s, n - 1)
    <3>1. 0 \in 0 .. n - 1 /\ n - 1 \in 0 .. n - 1 /\ n \in Nat
      BY <1>2
    <3>2. v \in Int
      BY <1>8, <2>1, <3>1
    <3> DEFINE r == <<0, n - 1>>
    <3>3. r \in Ranges(n) /\ r[1] = 0 /\ r[2] = n - 1
      BY <1>2 DEF Ranges
    <3> HIDE DEF r
    <3>4. Finds(s, v, r, Search(s, v)[r])
      BY <1>6, <1>8, <3>1, <3>2, <3>3, SearchFinds
    <3>5. VmSwitch(s, v) = Search(s, v)[r]
      BY <1>4, <2>1 DEF r
    <3>6. CASE \E k \in 0 .. n - 1 : CaseAt(s, k) = v /\ VmSwitch(s, v) = JumpAt(s, k)
      BY <1>9, <3>6 DEF Expected
    <3>7. CASE (\A k \in 0 .. n - 1 : CaseAt(s, k) # v) /\ VmSwitch(s, v) = Cell(s.package, s.id)
      BY <1>1, <1>10, <3>7 DEF Expected, p
    <3> QED
      BY <3>3, <3>4, <3>5, <3>6, <3>7 DEF Finds
  <2>2. CASE v \notin CaseAt(s, 0) .. CaseAt(s, n - 1)
    <3>1. \A k \in 1 .. n : s.cases[k].match # v
      <4>1. 0 \in 0 .. n - 1 /\ n - 1 \in 0 .. n - 1 /\ 0 + 1 = 1 /\ (n - 1) + 1 = n
        BY <1>2
      <4>2. CaseAt(s, 0) = s.cases[1].match /\ CaseAt(s, n - 1) = s.cases[n].match
        BY <1>7, <4>1
      <4> QED
        BY <1>2, <2>2, <4>2
    <3> QED
      BY <1>2, <1>4, <2>2, <3>1 DEF Expected
  <2> QED
    BY <2>1, <2>2
<1> QED
  BY <1>11, <1>12 DEF s

LEMMA InvSwitchFinds ==
  ASSUME Inv
  PROVE  SwitchFinds
<1>1. SUFFICES ASSUME phase = "run", NEW i \in DOMAIN switches, NEW v \in Values
               PROVE  /\ VmSwitch(switches[i], v) \in Expected(switches[i], v)
                      /\ PrecompiledSwitch(switches[i], v) \subseteq Expected(switches[i], v)
  BY DEF SwitchFinds, Expected, Cases
<1> QED
  BY <1>1, TableFinds, LookupFinds

(* A switch statement goes where it was written to go: to a case with the  *)
(* value it is given or to its default, in the virtual machine, by table   *)
(* or by halving, and precompiled, however many cases there are and in     *)
(* whatever order.                                                         *)
THEOREM SwitchesFind ==
  ASSUME Hashing, Supported
  PROVE  Spec => []SwitchFinds
<1>1. Inv => SwitchFinds
  BY InvSwitchFinds
<1> QED
  BY <1>1, Invariance, PTL
=============================================================================
