--------------------------- MODULE SymbolHash_proofs ---------------------------
(***************************************************************************)
(* Proofs about SymbolHash: a table is a map from keys to values.  An      *)
(* insertion, whether or not the table grows, changes what is fetched for  *)
(* its key and for no other, whatever keys share a chain, and never writes *)
(* past the memory of entries and keys.                                    *)
(*                                                                         *)
(* Chains are walked by recursion.  Entries are appended to the end of     *)
(* their chain, so indexes grow along it: facts about what is left of a    *)
(* chain are proved from its end, by looking at the greatest index for     *)
(* which one fails.                                                        *)
(***************************************************************************)
EXTENDS SymbolHash, WellFoundedInduction, FiniteSetTheorems, TLAPS

Key == Seq(Nat)

(* spvm_hash_func.c complements a negative sum.                            *)
Hashing == \A key \in Key : HashOf(key) \in Nat

-----------------------------------------------------------------------------
(* Smallest and greatest counterexamples.                                  *)

(* A set of natural numbers has a smallest one, ...                        *)
LEMMA Least ==
  ASSUME NEW S, S \subseteq Nat, S # {}
  PROVE  \E m \in S : \A n \in S : m <= n
<1> DEFINE R == {p \in Nat \X Nat : p[1] < p[2]}
<1>1. R = OpToRel(<, Nat)
  BY DEF OpToRel
<1>2. IsWellFoundedOn(R, Nat)
  BY <1>1, NatLessThanWellFounded
<1>3. PICK m \in S : \A n \in S : <<n, m>> \notin R
  <2> HIDE DEF R
  <2> QED
    BY <1>2, WFMin
<1>4. ASSUME NEW n \in S PROVE m <= n
  <2>1. m \in Nat /\ n \in Nat /\ <<n, m>> \notin R
    BY <1>3
  <2>2. ~ (n < m)
    BY <2>1
  <2> QED
    BY <2>1, <2>2
<1> QED
  BY <1>4

(* ... and a greatest, when it is bounded.                                 *)
LEMMA Greatest ==
  ASSUME NEW n \in Nat, NEW S, S \subseteq 0 .. n, S # {}
  PROVE  \E m \in S : \A k \in S : k <= m
<1> DEFINE T == {n - s : s \in S}
<1>1. T \subseteq Nat /\ T # {}
  <2>1. \A s \in S : n - s \in Nat
    OBVIOUS
  <2>2. PICK s \in S : TRUE
    OBVIOUS
  <2>3. n - s \in T
    OBVIOUS
  <2> QED
    BY <2>1, <2>3
<1>2. PICK t \in T : \A k \in T : t <= k
  <2> HIDE DEF T
  <2> QED
    BY <1>1, Least
<1>3. PICK m \in S : t = n - m
  BY <1>2
<1>4. ASSUME NEW k \in S PROVE k <= m
  <2>1. n - k \in T
    OBVIOUS
  <2>2. t <= n - k /\ k \in 0 .. n /\ m \in 0 .. n
    BY <1>2, <2>1
  <2> QED
    BY <1>3, <2>2
<1> QED
  BY <1>4

-----------------------------------------------------------------------------
(* Walks.                                                                  *)

(* Every walk along a chain whose indexes grow ends: the function that     *)
(* gives its end exists.                                                   *)
IsWalk(g, D, S, next) ==
  g \in [D -> S] /\ \A i \in D : g[i] = IF i \in S THEN i ELSE g[next[i]]

LEMMA WalkExists ==
  ASSUME NEW n \in Nat, NEW D, D \subseteq 0 .. n, NEW S, S \subseteq D, NEW next,
         \A i \in D \ S : next[i] \in S \/ (next[i] \in D /\ next[i] > i)
  PROVE  \E g : IsWalk(g, D, S, next)
<1> DEFINE From(m)  == {i \in D : i >= m \/ i \in S}
           Ok(m)    == \E g \in [From(m) -> S] :
                         \A i \in From(m) : g[i] = IF i \in S THEN i ELSE g[next[i]]
           Bad == {m \in 0 .. n + 1 : ~Ok(m)}
<1>0. \A i \in D : i \in Nat /\ i <= n
  OBVIOUS
<1>1. ASSUME Bad # {} PROVE FALSE
  <2>0. Bad \subseteq 0 .. n + 1 /\ n + 1 \in Nat
    OBVIOUS
  <2> HIDE DEF Bad
  <2>1. PICK m \in Bad : \A k \in Bad : k <= m
    BY <1>1, <2>0, Greatest
  <2>2. m \in 0 .. n + 1 /\ ~Ok(m)
    BY <2>1 DEF Bad
  <2>3. CASE m = n + 1
    <3>1. From(m) = S
      <4>1. \A i \in D : ~(i >= m)
        BY <1>0, <2>3
      <4> QED
        BY <4>1
    <3>2. [i \in S |-> i] \in [From(m) -> S]
      BY <3>1
    <3>3. \A i \in From(m) : [j \in S |-> j][i] = IF i \in S THEN i ELSE [j \in S |-> j][next[i]]
      BY <3>1
    <3> QED
      BY <2>2, <3>2, <3>3
  <2>4. CASE m # n + 1
    <3>1. m + 1 \in 0 .. n + 1 /\ m + 1 \notin Bad /\ m \in Nat
      BY <2>1, <2>2, <2>4
    <3>2. PICK g \in [From(m + 1) -> S] :
            \A i \in From(m + 1) : g[i] = IF i \in S THEN i ELSE g[next[i]]
      BY <3>1 DEF Bad
    <3> DEFINE h == [i \in From(m) |-> IF i = m /\ i \notin S THEN g[next[i]] ELSE g[i]]
    <3>9. \A i \in D : (i >= m <=> i >= m + 1 \/ i = m)
      BY <1>0, <3>1
    <3>3. \A i \in From(m) : i \in From(m + 1) \/ (i = m /\ i \notin S /\ i \in D)
      BY <3>9
    <3>4. \A i \in From(m) : i \notin S => next[i] \in From(m + 1)
      <4>1. SUFFICES ASSUME NEW i \in From(m), i \notin S PROVE next[i] \in From(m + 1)
        OBVIOUS
      <4>2. CASE next[i] \in S
        BY <4>2
      <4>3. CASE next[i] \in D /\ next[i] > i
        <5>1. i >= m /\ i \in Nat /\ next[i] \in Nat
          BY <1>0, <4>1, <4>3
        <5>2. next[i] >= m + 1
          BY <3>1, <4>3, <5>1
        <5> QED
          BY <4>3, <5>2
      <4> QED
        BY <4>1, <4>2, <4>3
    <3>5. m \notin S => m \notin From(m + 1)
      <4>1. ~(m >= m + 1)
        BY <3>1
      <4> QED
        BY <4>1
    <3>6. h \in [From(m) -> S]
      BY <3>2, <3>3, <3>4
    <3>7. \A i \in From(m) : h[i] = IF i \in S THEN i ELSE h[next[i]]
      <4>1. SUFFICES ASSUME NEW i \in From(m) PROVE h[i] = IF i \in S THEN i ELSE h[next[i]]
        OBVIOUS
      <4>2. From(m + 1) \subseteq From(m)
        BY <3>9
      <4>3. CASE i \in S
        <5>1. i \in From(m + 1)
          BY <4>3
        <5>2. h[i] = g[i] /\ g[i] = i
          BY <3>2, <4>3, <5>1
        <5> QED
          BY <4>3, <5>2
      <4>4. CASE i \notin S
        <5>1. next[i] \in From(m + 1) /\ next[i] \in From(m)
          BY <3>4, <4>2, <4>4
        <5>2. h[next[i]] = g[next[i]]
          BY <5>1, <3>5
        <5>3. h[i] = g[next[i]]
          BY <3>2, <3>3, <4>4
        <5> QED
          BY <4>4, <5>2, <5>3
      <4> QED
        BY <4>3, <4>4
    <3> HIDE DEF h
    <3> QED
      BY <2>2, <3>6, <3>7
  <2> QED
    BY <2>3, <2>4
<1>2. Ok(0)
  <2>1. 0 \in 0 .. n + 1 /\ Bad = {}
    BY <1>1
  <2> QED
    BY <2>1
<1>3. From(0) = D
  <2>1. \A i \in D : i >= 0
    BY <1>0
  <2> QED
    BY <2>1
<1> QED
  BY <1>2, <1>3 DEF IsWalk

-----------------------------------------------------------------------------
(* What a table keeps.                                                     *)

Entry  == [key : Key, bytes : Nat, value : Nat, next : Nat]
Tables == UNION {[0 .. c - 1 -> Nat] : c \in Nat \ {0}}
Hash   == [table : Tables, entries : Seq(Entry), entriesCapacity : Nat, keysLength : Nat,
           keysCapacity : Nat]

Entries(h) == 1 .. Len(h.entries)
KeyAt(h, i)  == h.entries[i].key
NextAt(h, i) == h.entries[i].next
BucketAt(h, i) == Bucket(h, KeyAt(h, i))

(* A chain has the entries of its bucket, all of them, in the order of     *)
(* their indexes: what follows an entry is the next one of its bucket.     *)
Chained(h) ==
  /\ \A b \in DOMAIN h.table : h.table[b] # NoEntry =>
       h.table[b] \in Entries(h) /\ BucketAt(h, h.table[b]) = b
  /\ \A i \in Entries(h) : h.table[BucketAt(h, i)] # NoEntry /\ h.table[BucketAt(h, i)] <= i
  /\ \A i \in Entries(h) : NextAt(h, i) # NoEntry =>
       NextAt(h, i) \in Entries(h) /\ NextAt(h, i) > i /\ BucketAt(h, NextAt(h, i)) = BucketAt(h, i)
  /\ \A i, j \in Entries(h) : i < j /\ BucketAt(h, i) = BucketAt(h, j) =>
       NextAt(h, i) # NoEntry /\ NextAt(h, i) <= j

OneEach(h) == \A i, j \in Entries(h) : KeyAt(h, i) = KeyAt(h, j) => i = j

Fits(h) ==
  /\ Len(h.entries) <= h.entriesCapacity /\ h.entriesCapacity >= 1
  /\ h.keysLength <= h.keysCapacity

HashOK(h) == h \in Hash /\ Chained(h) /\ OneEach(h) /\ Fits(h)

-----------------------------------------------------------------------------
(* Finding.                                                                *)

LEMMA EntryFacts ==
  ASSUME NEW h \in Hash
  PROVE  /\ Len(h.entries) \in Nat
         /\ \A i \in Entries(h) : /\ h.entries[i] \in Entry /\ KeyAt(h, i) \in Key
                                  /\ NextAt(h, i) \in Nat /\ h.entries[i].value \in Nat
<1>1. h.entries \in Seq(Entry)
  BY DEF Hash
<1>2. Len(h.entries) \in Nat /\ \A i \in Entries(h) : h.entries[i] \in Entry
  BY <1>1 DEF Entries
<1> QED
  BY <1>2 DEF Entry, KeyAt, NextAt

LEMMA BucketFacts ==
  ASSUME Hashing, NEW h \in Hash
  PROVE  /\ Capacity(h) \in Nat \ {0} /\ h.table \in [0 .. Capacity(h) - 1 -> Nat]
         /\ \A key \in Key : Bucket(h, key) \in 0 .. Capacity(h) - 1
<1>1. PICK c \in Nat \ {0} : h.table \in [0 .. c - 1 -> Nat]
  BY DEF Hash, Tables
<1>2. Cardinality(0 .. c - 1) = c
  <2>1. 0 \in Int /\ c - 1 \in Int /\ ~(0 > c - 1)
    OBVIOUS
  <2>2. Cardinality(0 .. c - 1) = c - 1 - 0 + 1
    BY <2>1, FS_Interval
  <2> QED
    BY <2>2
<1>3. Capacity(h) = c
  BY <1>1, <1>2 DEF Capacity
<1>4. ASSUME NEW key \in Key PROVE Bucket(h, key) \in 0 .. Capacity(h) - 1
  <2>1. HashOf(key) \in Nat
    BY DEF Hashing
  <2>2. \A x \in Nat : x % c \in 0 .. c - 1
    OBVIOUS
  <2> QED
    BY <1>3, <2>1, <2>2 DEF Bucket
<1> QED
  BY <1>1, <1>3, <1>4

LEMMA WalkFacts ==
  ASSUME NEW h \in Hash, Chained(h), NEW key
  PROVE  /\ Walk(h, key)[0] = 0
         /\ \A i \in Entries(h) :
              Walk(h, key)[i] = IF KeyAt(h, i) = key THEN i ELSE Walk(h, key)[NextAt(h, i)]
<1> DEFINE n == Len(h.entries)
           D == 0 .. n
           S == {i \in D : i = NoEntry \/ h.entries[i].key = key}
           next == [i \in D |-> h.entries[i].next]
           IsFound(g) == g = [i \in D |-> IF i = NoEntry \/ h.entries[i].key = key THEN i
                                         ELSE g[h.entries[i].next]]
<1>0. n \in Nat /\ NoEntry = 0 /\ 0 \in S
  BY EntryFacts DEF NoEntry
<1>1. \A i \in D \ S : next[i] \in S \/ (next[i] \in D /\ next[i] > i)
  <2>1. SUFFICES ASSUME NEW i \in D \ S PROVE next[i] \in S \/ (next[i] \in D /\ next[i] > i)
    OBVIOUS
  <2>2. i \in Entries(h) /\ next[i] = NextAt(h, i)
    BY <1>0 DEF Entries, NextAt
  <2>3. CASE NextAt(h, i) = NoEntry
    BY <1>0, <2>2, <2>3
  <2>4. CASE NextAt(h, i) # NoEntry
    <3>1. NextAt(h, i) \in Entries(h) /\ NextAt(h, i) > i
      BY <2>2, <2>4 DEF Chained
    <3> QED
      BY <1>0, <2>2, <3>1 DEF Entries
  <2> QED
    BY <2>3, <2>4
<1>2. PICK g : IsWalk(g, D, S, next)
  <2>1. S \subseteq D /\ D \subseteq 0 .. n
    OBVIOUS
  <2> HIDE DEF S, next, D, n
  <2> QED
    BY <1>0, <1>1, <2>1, WalkExists
<1>3. IsFound(g)
  <2>1. \A i \in D : (i \in S <=> (i = NoEntry \/ h.entries[i].key = key)) /\ next[i] = h.entries[i].next
    OBVIOUS
  <2> HIDE DEF S, next, D
  <2>2. g = [i \in D |-> g[i]]
    BY <1>2 DEF IsWalk
  <2> QED
    BY <1>2, <2>1, <2>2 DEF IsWalk
<1>4. IsFound(Walk(h, key))
  BY <1>3 DEF Walk
<1>5. \A i \in D : Walk(h, key)[i] = IF i = NoEntry \/ h.entries[i].key = key THEN i
                                     ELSE Walk(h, key)[h.entries[i].next]
  <2> DEFINE w == Walk(h, key)
  <2>1. IsFound(w)
    BY <1>4
  <2> HIDE DEF w
  <2>2. \A i \in D : w[i] = IF i = NoEntry \/ h.entries[i].key = key THEN i ELSE w[h.entries[i].next]
    BY <2>1
  <2> QED
    BY <2>2 DEF w
<1>6. 0 \in D /\ \A i \in Entries(h) : i \in D /\ i # NoEntry
  BY <1>0 DEF Entries
<1> QED
  BY <1>0, <1>5, <1>6 DEF KeyAt, NextAt

LEMMA EndsFacts ==
  ASSUME NEW h \in Hash, Chained(h)
  PROVE  \A i \in Entries(h) :
           Ends(h)[i] = IF NextAt(h, i) = NoEntry THEN i ELSE Ends(h)[NextAt(h, i)]
<1> DEFINE n == Len(h.entries)
           D == 1 .. n
           S == {i \in D : h.entries[i].next = NoEntry}
           next == [i \in D |-> h.entries[i].next]
           IsEnd(g) == g = [i \in D |-> IF h.entries[i].next = NoEntry THEN i ELSE g[h.entries[i].next]]
<1>0. n \in Nat
  BY EntryFacts
<1>1. \A i \in D \ S : next[i] \in S \/ (next[i] \in D /\ next[i] > i)
  BY DEF Chained, Entries, NextAt
<1>2. PICK g : IsWalk(g, D, S, next)
  <2>1. S \subseteq D /\ D \subseteq 0 .. n
    BY <1>0
  <2> HIDE DEF S, next, D, n
  <2> QED
    BY <1>0, <1>1, <2>1, WalkExists
<1>3. IsEnd(g)
  <2>1. \A i \in D : (i \in S <=> h.entries[i].next = NoEntry) /\ next[i] = h.entries[i].next
    OBVIOUS
  <2> HIDE DEF S, next, D
  <2>2. g = [i \in D |-> g[i]]
    BY <1>2 DEF IsWalk
  <2> QED
    BY <1>2, <2>1, <2>2 DEF IsWalk
<1>4. IsEnd(Ends(h))
  BY <1>3 DEF Ends
<1>5. \A i \in D : Ends(h)[i] = IF h.entries[i].next = NoEntry THEN i ELSE Ends(h)[h.entries[i].next]
  <2> DEFINE w == Ends(h)
  <2>1. IsEnd(w)
    BY <1>4
  <2> HIDE DEF w
  <2>2. \A i \in D : w[i] = IF h.entries[i].next = NoEntry THEN i ELSE w[h.entries[i].next]
    BY <2>1
  <2> QED
    BY <2>2 DEF w
<1> QED
  BY <1>5 DEF Entries, NextAt

(* The walk from an entry of the bucket reaches the entry of the key, when *)
(* that is not before it.                                                  *)
LEMMA WalkReaches ==
  ASSUME Hashing, NEW h \in Hash, Chained(h), OneEach(h), NEW i \in Entries(h)
  PROVE  \A j \in Entries(h) : j <= i /\ BucketAt(h, j) = BucketAt(h, i) => Walk(h, KeyAt(h, i))[j] = i
<1> DEFINE n == Len(h.entries)
           w == Walk(h, KeyAt(h, i))
           Bad == {j \in Entries(h) : j <= i /\ BucketAt(h, j) = BucketAt(h, i) /\ w[j] # i}
<1>0. n \in Nat /\ \A j \in Entries(h) : j \in Nat /\ j <= n
  BY EntryFacts DEF Entries
<1>1. ASSUME Bad # {} PROVE FALSE
  <2>0. \A j \in Bad : j \in Entries(h)
    OBVIOUS
  <2> HIDE DEF Bad, n, w
  <2>1. Bad \subseteq 0 .. n
    BY <1>0, <2>0
  <2>2. PICK j \in Bad : \A k \in Bad : k <= j
    BY <1>0, <1>1, <2>1, Greatest
  <2>3. j \in Entries(h) /\ j <= i /\ BucketAt(h, j) = BucketAt(h, i) /\ w[j] # i
    BY <2>2 DEF Bad
  <2>4. w[j] = IF KeyAt(h, j) = KeyAt(h, i) THEN j ELSE w[NextAt(h, j)]
    BY <2>3, WalkFacts DEF w
  <2>5. j # i /\ KeyAt(h, j) # KeyAt(h, i) /\ j < i
    <3>1. KeyAt(h, j) = KeyAt(h, i) => j = i
      BY <2>3 DEF OneEach
    <3>2. j # i
      BY <2>3, <2>4, <3>1
    <3> QED
      BY <1>0, <2>3, <3>1, <3>2
  <2>6. NextAt(h, j) # NoEntry /\ NextAt(h, j) <= i
    BY <2>3, <2>5 DEF Chained
  <2>7. /\ NextAt(h, j) \in Entries(h) /\ NextAt(h, j) > j
        /\ BucketAt(h, NextAt(h, j)) = BucketAt(h, j)
    BY <2>3, <2>6 DEF Chained
  <2>8. NextAt(h, j) \notin Bad
    BY <1>0, <2>2, <2>3, <2>7
  <2>9. w[NextAt(h, j)] = i
    BY <2>3, <2>6, <2>7, <2>8 DEF Bad
  <2> QED
    BY <2>3, <2>4, <2>5, <2>9
<1> QED
  BY <1>1

LEMMA WalkMisses ==
  ASSUME NEW h \in Hash, Chained(h), NEW key, \A i \in Entries(h) : KeyAt(h, i) # key
  PROVE  \A j \in Entries(h) : Walk(h, key)[j] = NoEntry
<1> DEFINE n == Len(h.entries)
           w == Walk(h, key)
           Bad == {j \in Entries(h) : w[j] # NoEntry}
<1>0. n \in Nat /\ \A j \in Entries(h) : j \in Nat /\ j <= n
  BY EntryFacts DEF Entries
<1>1. ASSUME Bad # {} PROVE FALSE
  <2>1. Bad \subseteq 0 .. n
    BY <1>0
  <2> HIDE DEF Bad, n
  <2>2. PICK j \in Bad : \A k \in Bad : k <= j
    BY <1>0, <1>1, <2>1, Greatest
  <2>3. j \in Entries(h) /\ w[j] # NoEntry
    BY <2>2 DEF Bad
  <2>4. w[j] = w[NextAt(h, j)] /\ w[0] = 0
    BY <2>3, WalkFacts
  <2>5. NextAt(h, j) # NoEntry
    BY <2>3, <2>4 DEF NoEntry
  <2>6. NextAt(h, j) \in Entries(h) /\ NextAt(h, j) > j
    BY <2>3, <2>5 DEF Chained
  <2>7. NextAt(h, j) \notin Bad
    BY <1>0, <2>2, <2>3, <2>6
  <2> QED
    BY <2>3, <2>4, <2>6, <2>7 DEF Bad
<1> QED
  BY <1>1

(* The search finds the entry of a key, whatever shares its chain.         *)
LEMMA FindFacts ==
  ASSUME Hashing, NEW h \in Hash, Chained(h), OneEach(h), NEW key \in Key
  PROVE  /\ \A i \in Entries(h) : KeyAt(h, i) = key => Find(h, key) = i
         /\ (\A i \in Entries(h) : KeyAt(h, i) # key) => Find(h, key) = NoEntry
<1>0. Bucket(h, key) \in DOMAIN h.table
  BY BucketFacts
<1>1. ASSUME NEW i \in Entries(h), KeyAt(h, i) = key PROVE Find(h, key) = i
  <2> DEFINE f == h.table[Bucket(h, key)]
  <2>1. BucketAt(h, i) = Bucket(h, key)
    BY <1>1 DEF BucketAt
  <2>2. f # NoEntry /\ f <= i
    BY <1>1, <2>1 DEF Chained
  <2>3. f \in Entries(h) /\ BucketAt(h, f) = BucketAt(h, i)
    BY <1>0, <2>1, <2>2 DEF Chained
  <2>4. Walk(h, KeyAt(h, i))[f] = i
    BY <1>1, <2>2, <2>3, WalkReaches
  <2> QED
    BY <1>1, <2>4 DEF Find
<1>2. ASSUME \A i \in Entries(h) : KeyAt(h, i) # key PROVE Find(h, key) = NoEntry
  <2> DEFINE f == h.table[Bucket(h, key)]
  <2>1. CASE f = NoEntry
    BY <2>1, WalkFacts DEF Find, NoEntry
  <2>2. CASE f # NoEntry
    <3>1. f \in Entries(h)
      BY <1>0, <2>2 DEF Chained
    <3>2. Walk(h, key)[f] = NoEntry
      BY <1>2, <3>1, WalkMisses
    <3> QED
      BY <3>2 DEF Find
  <2> QED
    BY <2>1, <2>2
<1> QED
  BY <1>1, <1>2

(* The end of a chain is behind all entries of its bucket.                 *)
LEMMA ChainEndFacts ==
  ASSUME Hashing, NEW h \in Hash, Chained(h), NEW first \in Entries(h)
  PROVE  /\ ChainEnd(h, first) \in Entries(h)
         /\ NextAt(h, ChainEnd(h, first)) = NoEntry
         /\ BucketAt(h, ChainEnd(h, first)) = BucketAt(h, first)
         /\ \A i \in Entries(h) : BucketAt(h, i) = BucketAt(h, first) => i <= ChainEnd(h, first)
<1> DEFINE n == Len(h.entries)
           e == Ends(h)
           Ends_(j) == e[j] \in Entries(h) /\ NextAt(h, e[j]) = NoEntry /\ BucketAt(h, e[j]) = BucketAt(h, j)
           Bad == {j \in Entries(h) : ~Ends_(j)}
<1>0. n \in Nat /\ \A j \in Entries(h) : j \in Nat /\ j <= n
  BY EntryFacts DEF Entries
<1>1. ASSUME Bad # {} PROVE FALSE
  <2>1. Bad \subseteq 0 .. n
    BY <1>0
  <2> HIDE DEF Bad, n
  <2>2. PICK j \in Bad : \A k \in Bad : k <= j
    BY <1>0, <1>1, <2>1, Greatest
  <2>3. j \in Entries(h) /\ ~Ends_(j)
    BY <2>2 DEF Bad
  <2>4. e[j] = IF NextAt(h, j) = NoEntry THEN j ELSE e[NextAt(h, j)]
    BY <2>3, EndsFacts
  <2>5. NextAt(h, j) # NoEntry
    BY <2>3, <2>4
  <2>6. /\ NextAt(h, j) \in Entries(h) /\ NextAt(h, j) > j
        /\ BucketAt(h, NextAt(h, j)) = BucketAt(h, j)
    BY <2>3, <2>5 DEF Chained
  <2>7. NextAt(h, j) \notin Bad
    BY <1>0, <2>2, <2>3, <2>6
  <2>8. Ends_(NextAt(h, j))
    BY <2>6, <2>7 DEF Bad
  <2> QED
    BY <2>3, <2>4, <2>5, <2>6, <2>8
<1>2. Ends_(first)
  BY <1>1
<1>3. ASSUME NEW i \in Entries(h), BucketAt(h, i) = BucketAt(h, first) PROVE i <= e[first]
  <2>1. e[first] < i => NextAt(h, e[first]) # NoEntry
    BY <1>2, <1>3 DEF Chained
  <2>2. i \in Nat /\ e[first] \in Nat /\ ~(e[first] < i)
    BY <1>0, <1>2, <2>1
  <2> QED
    BY <2>2
<1> QED
  BY <1>2, <1>3 DEF ChainEnd

-----------------------------------------------------------------------------
(* Inserting.                                                              *)

LEMMA FindIs ==
  ASSUME Hashing, NEW h \in Hash, Chained(h), OneEach(h), NEW key \in Key
  PROVE  \/ Find(h, key) = NoEntry /\ \A i \in Entries(h) : KeyAt(h, i) # key
         \/ Find(h, key) \in Entries(h) /\ Find(h, key) # NoEntry /\ KeyAt(h, Find(h, key)) = key
<1>1. CASE \A i \in Entries(h) : KeyAt(h, i) # key
  BY <1>1, FindFacts
<1>2. ASSUME NEW i \in Entries(h), KeyAt(h, i) = key
      PROVE  Find(h, key) \in Entries(h) /\ Find(h, key) # NoEntry /\ KeyAt(h, Find(h, key)) = key
  <2>1. Find(h, key) = i
    BY <1>2, FindFacts
  <2>2. i # NoEntry
    BY EntryFacts DEF Entries, NoEntry
  <2> QED
    BY <1>2, <2>1, <2>2
<1> QED
  BY <1>1, <1>2

(* r has one entry more than h.                                            *)
More(h, r, key, bytes, value) ==
  /\ r \in Hash /\ Len(r.entries) = Len(h.entries) + 1
  /\ \A i \in Entries(h) :
       /\ KeyAt(r, i) = KeyAt(h, i) /\ r.entries[i].bytes = h.entries[i].bytes
       /\ r.entries[i].value = h.entries[i].value
  /\ KeyAt(r, Len(r.entries)) = key /\ r.entries[Len(r.entries)].bytes = bytes
  /\ r.entries[Len(r.entries)].value = value /\ NextAt(r, Len(r.entries)) = NoEntry
  /\ DOMAIN r.table = DOMAIN h.table

LEMMA NewEntryFacts ==
  ASSUME NEW h \in Hash, Fits(h), NEW key \in Key, NEW bytes \in Nat, NEW value \in Nat
  PROVE  LET r == NewEntry(h, key, bytes, value) IN
         /\ More(h, r, key, bytes, value) /\ r.table = h.table /\ Fits(r)
         /\ \A i \in Entries(h) : r.entries[i] = h.entries[i]
<1> DEFINE e == [key |-> key, bytes |-> bytes, value |-> value, next |-> NoEntry]
           r == NewEntry(h, key, bytes, value)
           n == Len(h.entries)
<1>1. e \in Entry /\ h.entries \in Seq(Entry) /\ n \in Nat
  BY EntryFacts DEF Entry, NoEntry, Hash
<1>2. /\ h.entriesCapacity \in Nat /\ h.keysLength \in Nat /\ h.keysCapacity \in Nat
      /\ h.table \in Tables
  BY DEF Hash
<1>3. GrownEntries(h) \in Nat /\ n + 1 <= GrownEntries(h) /\ GrownEntries(h) >= 1
  BY <1>1, <1>2 DEF GrownEntries, Fits
<1>4. GrownKeys(h, bytes) \in Nat /\ h.keysLength + bytes + 4 <= GrownKeys(h, bytes)
  BY <1>1, <1>2 DEF GrownKeys, Fits
<1>5. /\ r.table = h.table /\ r.entries = Append(h.entries, e)
      /\ r.entriesCapacity = GrownEntries(h) /\ r.keysCapacity = GrownKeys(h, bytes)
      /\ r.keysLength = h.keysLength + bytes + 4
      /\ r = [table |-> r.table, entries |-> r.entries, entriesCapacity |-> r.entriesCapacity,
              keysLength |-> r.keysLength, keysCapacity |-> r.keysCapacity]
  <2>1. r = [h EXCEPT !.entries = Append(@, e), !.entriesCapacity = GrownEntries(h),
                      !.keysCapacity = GrownKeys(h, bytes), !.keysLength = @ + bytes + 4]
    BY DEF NewEntry
  <2> HIDE DEF r, e
  <2>2. r.table = h.table /\ r.entries = Append(h.entries, e)
    BY <2>1 DEF Hash
  <2>3. r.entriesCapacity = GrownEntries(h) /\ r.keysCapacity = GrownKeys(h, bytes)
    BY <2>1 DEF Hash
  <2>4. r.keysLength = h.keysLength + bytes + 4
    BY <2>1 DEF Hash
  <2>5. r = [table |-> r.table, entries |-> r.entries, entriesCapacity |-> r.entriesCapacity,
              keysLength |-> r.keysLength, keysCapacity |-> r.keysCapacity]
    BY <2>1 DEF Hash
  <2> QED
    BY <2>2, <2>3, <2>4, <2>5
<1>6. /\ Append(h.entries, e) \in Seq(Entry) /\ Len(Append(h.entries, e)) = n + 1
      /\ \A i \in 1 .. n : Append(h.entries, e)[i] = h.entries[i]
      /\ Append(h.entries, e)[n + 1] = e
  BY <1>1
<1>7. r \in Hash
  <2>1. r.keysLength \in Nat
    BY <1>2, <1>5
  <2> HIDE DEF r, e
  <2> QED
    BY <1>2, <1>3, <1>4, <1>5, <1>6, <2>1 DEF Hash
<1>8. /\ Len(r.entries) = n + 1 /\ r.entries[Len(r.entries)] = e
      /\ \A i \in Entries(h) : r.entries[i] = h.entries[i]
  BY <1>5, <1>6 DEF Entries
<1>9. Fits(r)
  <2> HIDE DEF r, e
  <2> QED
    BY <1>3, <1>4, <1>5, <1>8 DEF Fits
<1>10. More(h, r, key, bytes, value)
  <2>1. e.key = key /\ e.bytes = bytes /\ e.value = value /\ e.next = NoEntry
    OBVIOUS
  <2> HIDE DEF r, e
  <2> QED
    BY <1>5, <1>7, <1>8, <2>1 DEF More, KeyAt, NextAt
<1> QED
  BY <1>5, <1>8, <1>9, <1>10

LEMMA MoreFacts ==
  ASSUME Hashing, NEW h \in Hash, NEW key \in Key, NEW bytes \in Nat, NEW value \in Nat, NEW r,
         More(h, r, key, bytes, value)
  PROVE  /\ Entries(r) = Entries(h) \cup {Len(r.entries)} /\ Len(r.entries) \in Nat \ {0}
         /\ Capacity(r) = Capacity(h) /\ \A k \in Key : Bucket(r, k) = Bucket(h, k)
         /\ \A i \in Entries(h) : i \in Nat /\ i < Len(r.entries) /\ BucketAt(r, i) = BucketAt(h, i)
         /\ BucketAt(r, Len(r.entries)) = Bucket(h, key)
<1>1. Len(h.entries) \in Nat /\ Len(r.entries) = Len(h.entries) + 1
  BY EntryFacts DEF More
<1>2. Entries(r) = Entries(h) \cup {Len(r.entries)}
  BY <1>1 DEF Entries
<1>3. Capacity(r) = Capacity(h)
  BY DEF Capacity, More
<1>4. \A k : Bucket(r, k) = Bucket(h, k)
  BY <1>3 DEF Bucket
<1>5. \A i \in Entries(h) : i \in Nat /\ i < Len(r.entries)
  BY <1>1 DEF Entries
<1>6. /\ \A i \in Entries(h) : BucketAt(r, i) = BucketAt(h, i)
      /\ BucketAt(r, Len(r.entries)) = Bucket(h, key)
  BY <1>4 DEF BucketAt, More
<1> QED
  BY <1>1, <1>2, <1>3, <1>4, <1>5, <1>6

(* Appended to an empty chain, ...                                         *)
LEMMA FirstChained ==
  ASSUME Hashing, NEW h \in Hash, Chained(h), NEW key \in Key, NEW bytes \in Nat, NEW value \in Nat, NEW r,
         More(h, r, key, bytes, value), h.table[Bucket(h, key)] = NoEntry,
         r.table = [h.table EXCEPT ![Bucket(h, key)] = Len(r.entries)],
         \A i \in Entries(h) : NextAt(r, i) = NextAt(h, i)
  PROVE  Chained(r)
<1> DEFINE n == Len(r.entries)
           b == Bucket(h, key)
<1>0. b \in DOMAIN h.table /\ DOMAIN r.table = DOMAIN h.table /\ n # NoEntry
  BY BucketFacts, MoreFacts DEF NoEntry, More
<1>1. /\ Entries(r) = Entries(h) \cup {n} /\ BucketAt(r, n) = b /\ NextAt(r, n) = NoEntry
      /\ \A i \in Entries(h) : i \in Nat /\ i < n /\ BucketAt(r, i) = BucketAt(h, i)
      /\ n \in Nat
  BY MoreFacts DEF More
<1>2. r.table[b] = n /\ \A c \in DOMAIN h.table : c # b => r.table[c] = h.table[c]
  BY <1>0
<1>3. \A i \in Entries(h) : BucketAt(h, i) # b
  BY DEF Chained
<1>8. \A i \in Entries(h) : BucketAt(h, i) \in DOMAIN h.table
  <2>1. \A i \in Entries(h) : KeyAt(h, i) \in Key
    BY EntryFacts
  <2> QED
    BY <2>1, BucketFacts DEF BucketAt
<1> HIDE DEF n, b
<1>4. \A c \in DOMAIN r.table : r.table[c] # NoEntry => r.table[c] \in Entries(r) /\ BucketAt(r, r.table[c]) = c
  <2>1. SUFFICES ASSUME NEW c \in DOMAIN h.table, r.table[c] # NoEntry
                 PROVE  r.table[c] \in Entries(r) /\ BucketAt(r, r.table[c]) = c
    BY <1>0
  <2>2. CASE c = b
    BY <1>1, <1>2, <2>2
  <2>3. CASE c # b
    <3>1. h.table[c] # NoEntry /\ r.table[c] = h.table[c]
      BY <1>2, <2>1, <2>3
    <3>2. h.table[c] \in Entries(h) /\ BucketAt(h, h.table[c]) = c
      BY <3>1 DEF Chained
    <3> QED
      BY <1>1, <3>1, <3>2
  <2> QED
    BY <2>2, <2>3
<1>5. \A i \in Entries(r) : r.table[BucketAt(r, i)] # NoEntry /\ r.table[BucketAt(r, i)] <= i
  <2>1. ASSUME NEW i \in Entries(h) PROVE r.table[BucketAt(r, i)] # NoEntry /\ r.table[BucketAt(r, i)] <= i
    <3>1. h.table[BucketAt(h, i)] # NoEntry /\ h.table[BucketAt(h, i)] <= i
      BY DEF Chained
    <3>2. r.table[BucketAt(r, i)] = h.table[BucketAt(h, i)]
      BY <1>1, <1>2, <1>3, <1>8
    <3> QED
      BY <3>1, <3>2
  <2>2. r.table[BucketAt(r, n)] # NoEntry /\ r.table[BucketAt(r, n)] <= n
    BY <1>0, <1>1, <1>2
  <2> QED
    BY <1>1, <2>1, <2>2
<1>6. \A i \in Entries(r) : NextAt(r, i) # NoEntry =>
        NextAt(r, i) \in Entries(r) /\ NextAt(r, i) > i /\ BucketAt(r, NextAt(r, i)) = BucketAt(r, i)
  <2>1. ASSUME NEW i \in Entries(h), NextAt(h, i) # NoEntry
        PROVE  NextAt(h, i) \in Entries(h) /\ NextAt(h, i) > i /\ BucketAt(h, NextAt(h, i)) = BucketAt(h, i)
    BY <2>1 DEF Chained
  <2> QED
    BY <1>1, <2>1
<1>7. \A i, j \in Entries(r) : i < j /\ BucketAt(r, i) = BucketAt(r, j) =>
        NextAt(r, i) # NoEntry /\ NextAt(r, i) <= j
  <2>1. SUFFICES ASSUME NEW i \in Entries(r), NEW j \in Entries(r), i < j, BucketAt(r, i) = BucketAt(r, j)
                 PROVE  NextAt(r, i) # NoEntry /\ NextAt(r, i) <= j
    OBVIOUS
  <2>2. i \in Entries(h)
    BY <1>1, <2>1
  <2>3. j \in Entries(h)
    BY <1>1, <1>3, <2>1, <2>2
  <2>4. NextAt(h, i) # NoEntry /\ NextAt(h, i) <= j
    BY <1>1, <2>1, <2>2, <2>3 DEF Chained
  <2> QED
    BY <2>2, <2>4
<1> QED
  BY <1>4, <1>5, <1>6, <1>7 DEF Chained

(* ... or to the end of its chain, the table stays chained.                *)
LEMMA LastChained ==
  ASSUME Hashing, NEW h \in Hash, Chained(h), NEW key \in Key, NEW bytes \in Nat, NEW value \in Nat, NEW r,
         More(h, r, key, bytes, value), NEW e \in Entries(h),
         BucketAt(h, e) = Bucket(h, key), NextAt(h, e) = NoEntry,
         \A i \in Entries(h) : BucketAt(h, i) = Bucket(h, key) => i <= e,
         r.table = h.table,
         \A i \in Entries(h) : NextAt(r, i) = IF i = e THEN Len(r.entries) ELSE NextAt(h, i)
  PROVE  Chained(r)
<1> DEFINE n == Len(r.entries)
           b == Bucket(h, key)
<1>0. DOMAIN r.table = DOMAIN h.table /\ n # NoEntry
  BY MoreFacts DEF NoEntry
<1>1. /\ Entries(r) = Entries(h) \cup {n} /\ BucketAt(r, n) = b /\ NextAt(r, n) = NoEntry
      /\ \A i \in Entries(h) : i \in Nat /\ i < n /\ BucketAt(r, i) = BucketAt(h, i)
      /\ n \in Nat
  BY MoreFacts DEF More
<1>2. NextAt(r, e) = n /\ \A i \in Entries(h) : i # e => NextAt(r, i) = NextAt(h, i)
  OBVIOUS
<1>3. BucketAt(h, e) = b /\ \A i \in Entries(h) : BucketAt(h, i) = b => i <= e
  OBVIOUS
<1>8. h.table[b] # NoEntry /\ h.table[b] <= e
  BY <1>3 DEF Chained
<1>9. h.table[b] \in Nat
  BY BucketFacts
<1> HIDE DEF n, b
<1>4. \A c \in DOMAIN r.table : r.table[c] # NoEntry => r.table[c] \in Entries(r) /\ BucketAt(r, r.table[c]) = c
  <2>1. ASSUME NEW c \in DOMAIN h.table, h.table[c] # NoEntry
        PROVE  h.table[c] \in Entries(h) /\ BucketAt(h, h.table[c]) = c
    BY <2>1 DEF Chained
  <2> QED
    BY <1>1, <2>1
<1>5. \A i \in Entries(r) : r.table[BucketAt(r, i)] # NoEntry /\ r.table[BucketAt(r, i)] <= i
  <2>1. ASSUME NEW i \in Entries(h) PROVE h.table[BucketAt(h, i)] # NoEntry /\ h.table[BucketAt(h, i)] <= i
    BY DEF Chained
  <2>2. h.table[b] <= n
    BY <1>1, <1>8, <1>9
  <2> QED
    BY <1>1, <1>8, <2>1, <2>2
<1>6. \A i \in Entries(r) : NextAt(r, i) # NoEntry =>
        NextAt(r, i) \in Entries(r) /\ NextAt(r, i) > i /\ BucketAt(r, NextAt(r, i)) = BucketAt(r, i)
  <2>1. ASSUME NEW i \in Entries(h), NextAt(h, i) # NoEntry
        PROVE  NextAt(h, i) \in Entries(h) /\ NextAt(h, i) > i /\ BucketAt(h, NextAt(h, i)) = BucketAt(h, i)
    BY <2>1 DEF Chained
  <2>2. n > e
    BY <1>1
  <2>3. SUFFICES ASSUME NEW i \in Entries(r), NextAt(r, i) # NoEntry
                 PROVE  NextAt(r, i) \in Entries(r) /\ NextAt(r, i) > i /\ BucketAt(r, NextAt(r, i)) = BucketAt(r, i)
    OBVIOUS
  <2>4. CASE i = e
    BY <1>1, <1>2, <1>3, <2>2, <2>4
  <2>5. CASE i # e
    BY <1>1, <1>2, <2>1, <2>3, <2>5
  <2> QED
    BY <2>4, <2>5
<1>7. \A i, j \in Entries(r) : i < j /\ BucketAt(r, i) = BucketAt(r, j) =>
        NextAt(r, i) # NoEntry /\ NextAt(r, i) <= j
  <2>1. SUFFICES ASSUME NEW i \in Entries(r), NEW j \in Entries(r), i < j, BucketAt(r, i) = BucketAt(r, j)
                 PROVE  NextAt(r, i) # NoEntry /\ NextAt(r, i) <= j
    OBVIOUS
  <2>2. i \in Entries(h)
    BY <1>1, <2>1
  <2>3. CASE j = n
    <3>1. BucketAt(h, i) = b /\ i <= e
      BY <1>1, <1>3, <2>1, <2>2, <2>3
    <3>2. CASE i = e
      BY <1>0, <1>1, <1>2, <2>3, <3>2
    <3>3. CASE i # e
      <4>1. i < e
        BY <1>1, <2>2, <3>1, <3>3
      <4>2. NextAt(h, i) # NoEntry /\ NextAt(h, i) <= e
        BY <1>3, <2>2, <3>1, <4>1 DEF Chained
      <4>3. NextAt(h, i) \in Nat /\ e < n /\ e \in Nat
        BY <1>1, <2>2, EntryFacts
      <4>4. NextAt(h, i) <= n
        BY <1>1, <4>2, <4>3
      <4> QED
        BY <1>2, <2>2, <2>3, <3>3, <4>2, <4>4
    <3> QED
      BY <3>2, <3>3
  <2>4. CASE j \in Entries(h)
    <3>1. NextAt(h, i) # NoEntry /\ NextAt(h, i) <= j
      BY <1>1, <2>1, <2>2, <2>4 DEF Chained
    <3> QED
      BY <1>2, <2>2, <3>1
  <2> QED
    BY <1>1, <2>3, <2>4
<1> QED
  BY <1>4, <1>5, <1>6, <1>7 DEF Chained

(* r has another value for the entry i of h.                               *)
Changed(h, r, i, value) ==
  /\ r \in Hash /\ Len(r.entries) = Len(h.entries)
  /\ \A j \in Entries(h) :
       /\ KeyAt(r, j) = KeyAt(h, j)
       /\ r.entries[j].value = IF j = i THEN value ELSE h.entries[j].value
  /\ DOMAIN r.table = DOMAIN h.table

LEMMA ChangedFacts ==
  ASSUME Hashing, NEW h, HashOK(h), NEW i \in Entries(h), NEW value \in Nat
  PROVE  LET r == [h EXCEPT !.entries[i].value = value] IN
         Changed(h, r, i, value) /\ HashOK(r)
<1> DEFINE r == [h EXCEPT !.entries[i].value = value]
           n == Len(h.entries)
           es == [h.entries EXCEPT ![i] = [@ EXCEPT !.value = value]]
<1>0. h \in Hash /\ h.entries \in Seq(Entry) /\ n \in Nat /\ h.entries[i] \in Entry
  BY EntryFacts DEF HashOK, Hash
<1>1. /\ r = [h EXCEPT !.entries = es]
      /\ [h.entries[i] EXCEPT !.value = value] \in Entry
      /\ [h.entries[i] EXCEPT !.value = value].key = h.entries[i].key
      /\ [h.entries[i] EXCEPT !.value = value].next = h.entries[i].next
      /\ [h.entries[i] EXCEPT !.value = value].value = value
  BY <1>0 DEF Entry, Hash
<1>2. /\ es \in Seq(Entry) /\ Len(es) = n
      /\ \A j \in Entries(h) : es[j] = IF j = i THEN [h.entries[i] EXCEPT !.value = value] ELSE h.entries[j]
  BY <1>0, <1>1 DEF Entries
<1>3. \A j \in Entries(h) : /\ es[j].key = h.entries[j].key /\ es[j].next = h.entries[j].next
                            /\ es[j].value = IF j = i THEN value ELSE h.entries[j].value
  BY <1>1, <1>2
<1> HIDE DEF es, r
<1>4. /\ r.table = h.table /\ r.entries = es /\ r.entriesCapacity = h.entriesCapacity
      /\ r.keysLength = h.keysLength /\ r.keysCapacity = h.keysCapacity /\ r \in Hash
  BY <1>0, <1>1, <1>2 DEF Hash
<1>5. /\ Entries(r) = Entries(h) /\ \A k : Bucket(r, k) = Bucket(h, k)
      /\ \A j \in Entries(h) : /\ KeyAt(r, j) = KeyAt(h, j) /\ NextAt(r, j) = NextAt(h, j)
                               /\ BucketAt(r, j) = BucketAt(h, j)
  <2>1. Entries(r) = Entries(h)
    BY <1>2, <1>4 DEF Entries
  <2>2. \A k : Bucket(r, k) = Bucket(h, k)
    BY <1>4 DEF Bucket, Capacity
  <2>3. \A j \in Entries(h) : KeyAt(r, j) = KeyAt(h, j) /\ NextAt(r, j) = NextAt(h, j)
    BY <1>3, <1>4 DEF KeyAt, NextAt
  <2> QED
    BY <2>1, <2>2, <2>3 DEF BucketAt
<1>6. Changed(h, r, i, value)
  BY <1>2, <1>3, <1>4, <1>5 DEF Changed
<1>7. Fits(r)
  BY <1>2, <1>4 DEF Fits, HashOK
<1>8. OneEach(r)
  BY <1>5 DEF OneEach, HashOK
<1>9. Chained(r)
  <2>1. Chained(h)
    BY DEF HashOK
  <2>2. \A b \in DOMAIN r.table : r.table[b] # NoEntry =>
          r.table[b] \in Entries(r) /\ BucketAt(r, r.table[b]) = b
    BY <1>4, <1>5, <2>1 DEF Chained
  <2>3. \A j \in Entries(r) : r.table[BucketAt(r, j)] # NoEntry /\ r.table[BucketAt(r, j)] <= j
    BY <1>4, <1>5, <2>1 DEF Chained
  <2>4. \A j \in Entries(r) : NextAt(r, j) # NoEntry =>
          NextAt(r, j) \in Entries(r) /\ NextAt(r, j) > j /\ BucketAt(r, NextAt(r, j)) = BucketAt(r, j)
    BY <1>5, <2>1 DEF Chained
  <2>5. \A j, k \in Entries(r) : j < k /\ BucketAt(r, j) = BucketAt(r, k) =>
          NextAt(r, j) # NoEntry /\ NextAt(r, j) <= k
    BY <1>5, <2>1 DEF Chained
  <2> QED
    BY <2>2, <2>3, <2>4, <2>5 DEF Chained
<1> QED
  BY <1>4, <1>6, <1>7, <1>8, <1>9 DEF HashOK, r

LEMMA MoreOneEach ==
  ASSUME Hashing, NEW h \in Hash, OneEach(h), NEW key \in Key, NEW bytes \in Nat, NEW value \in Nat, NEW r,
         More(h, r, key, bytes, value), \A i \in Entries(h) : KeyAt(h, i) # key
  PROVE  OneEach(r)
<1>1. Entries(r) = Entries(h) \cup {Len(r.entries)}
  BY MoreFacts
<1>2. KeyAt(r, Len(r.entries)) = key /\ \A i \in Entries(h) : KeyAt(r, i) = KeyAt(h, i) /\ KeyAt(r, i) # key
  BY DEF More
<1> QED
  BY <1>1, <1>2 DEF OneEach

LEMMA InsertNoRehashFacts ==
  ASSUME Hashing, NEW h, HashOK(h), NEW key \in Key, NEW bytes \in Nat, NEW value \in Nat
  PROVE  LET r == InsertNoRehash(h, key, bytes, value) IN
         /\ HashOK(r)
         /\ (\A i \in Entries(h) : KeyAt(h, i) # key) => More(h, r, key, bytes, value)
         /\ \A i \in Entries(h) : KeyAt(h, i) = key => Changed(h, r, i, value)
<1> DEFINE r == InsertNoRehash(h, key, bytes, value)
           b == Bucket(h, key)
           added == NewEntry(h, key, bytes, value)
           n == Len(added.entries)
<1>0. h \in Hash /\ Chained(h) /\ OneEach(h) /\ Fits(h)
  BY DEF HashOK
<1>1. ASSUME NEW i \in Entries(h), KeyAt(h, i) = key
      PROVE  HashOK(r) /\ Changed(h, r, i, value) /\ \E j \in Entries(h) : KeyAt(h, j) = key
  <2>1. Find(h, key) = i /\ i # NoEntry
    BY <1>0, <1>1, FindFacts, EntryFacts DEF Entries, NoEntry
  <2>2. r = [h EXCEPT !.entries[i].value = value]
    BY <2>1 DEF InsertNoRehash
  <2> HIDE DEF r
  <2>3. Changed(h, r, i, value) /\ HashOK(r)
    BY <2>2, ChangedFacts
  <2> QED
    BY <1>1, <2>3
<1>2. ASSUME \A i \in Entries(h) : KeyAt(h, i) # key
      PROVE  HashOK(r) /\ More(h, r, key, bytes, value)
  <2>1. Find(h, key) = NoEntry /\ b \in DOMAIN h.table
    BY <1>0, <1>2, FindFacts, BucketFacts
  <2>2. /\ More(h, added, key, bytes, value) /\ added.table = h.table /\ Fits(added)
        /\ \A i \in Entries(h) : added.entries[i] = h.entries[i]
    BY <1>0, NewEntryFacts
  <2> HIDE DEF added
  <2>3. added \in Hash /\ n \in Nat \ {0} /\ Entries(added) = Entries(h) \cup {n}
    BY <1>0, <2>2, MoreFacts DEF More
  <2>4. CASE h.table[b] = NoEntry
    <3>1. r = [added EXCEPT !.table[b] = n]
      BY <2>1, <2>4 DEF InsertNoRehash, added
    <3> HIDE DEF r, n, b
    <3>2. /\ r.table = [h.table EXCEPT ![b] = n] /\ r.entries = added.entries
          /\ r.entriesCapacity = added.entriesCapacity /\ r.keysLength = added.keysLength
          /\ r.keysCapacity = added.keysCapacity
      BY <2>2, <2>3, <3>1 DEF Hash
    <3>3. r.table \in Tables
      <4>1. PICK c \in Nat \ {0} : h.table \in [0 .. c - 1 -> Nat]
        BY <1>0 DEF Hash, Tables
      <4>2. r.table \in [0 .. c - 1 -> Nat]
        BY <2>3, <3>2, <4>1
      <4> QED
        BY <4>2 DEF Tables
    <3>4. r \in Hash
      BY <2>3, <3>1, <3>2, <3>3 DEF Hash
    <3>5. DOMAIN r.table = DOMAIN h.table
      BY <3>2
    <3>6. More(h, r, key, bytes, value)
      BY <2>2, <3>2, <3>4, <3>5 DEF More, KeyAt, NextAt
    <3>7. \A i \in Entries(h) : NextAt(r, i) = NextAt(h, i)
      BY <2>2, <3>2 DEF NextAt
    <3>8. Chained(r)
      BY <1>0, <2>4, <3>2, <3>6, <3>7, FirstChained DEF n, b
    <3>9. Fits(r)
      BY <2>2, <3>2 DEF Fits
    <3> QED
      BY <1>0, <1>2, <3>4, <3>6, <3>8, <3>9, MoreOneEach DEF HashOK
  <2>5. CASE h.table[b] # NoEntry
    <3> DEFINE first == h.table[b]
               e == ChainEnd(h, first)
               es == [added.entries EXCEPT ![e] = [@ EXCEPT !.next = n]]
    <3>1. r = [added EXCEPT !.entries[e].next = n]
      BY <2>1, <2>5 DEF InsertNoRehash, added
    <3>2. first \in Entries(h) /\ BucketAt(h, first) = b
      BY <1>0, <2>1, <2>5 DEF Chained
    <3> HIDE DEF first, b
    <3>3. /\ e \in Entries(h) /\ NextAt(h, e) = NoEntry /\ BucketAt(h, e) = b
          /\ \A i \in Entries(h) : BucketAt(h, i) = b => i <= e
      BY <1>0, <3>2, ChainEndFacts
    <3> HIDE DEF e, n, r
    <3>4. /\ added.entries \in Seq(Entry) /\ added.entries[e] \in Entry /\ e # n
          /\ e \in 1 .. n /\ Len(added.entries) = n /\ \A i \in Entries(h) : i # n
      <4>1. added.entries \in Seq(Entry) /\ added.entries[e] \in Entry /\ e \in Entries(added)
        BY <2>3, <3>3, EntryFacts DEF Hash
      <4>2. \A i \in Entries(h) : i \in Nat /\ i < n
        BY <1>0, <2>2, MoreFacts DEF n
      <4>3. \A i \in Entries(h) : i # n
        BY <2>3, <4>2
      <4> QED
        BY <3>3, <4>1, <4>3 DEF Entries, n
    <3>5. /\ r = [added EXCEPT !.entries = es]
          /\ [added.entries[e] EXCEPT !.next = n] \in Entry
          /\ [added.entries[e] EXCEPT !.next = n].key = added.entries[e].key
          /\ [added.entries[e] EXCEPT !.next = n].bytes = added.entries[e].bytes
          /\ [added.entries[e] EXCEPT !.next = n].value = added.entries[e].value
          /\ [added.entries[e] EXCEPT !.next = n].next = n
      BY <2>3, <3>1, <3>4 DEF Hash, Entry
    <3>6. /\ es \in Seq(Entry) /\ Len(es) = n
          /\ \A j \in 1 .. n : es[j] = IF j = e THEN [added.entries[e] EXCEPT !.next = n] ELSE added.entries[j]
      BY <3>4, <3>5
    <3>7. \A j \in 1 .. n : /\ es[j].key = added.entries[j].key /\ es[j].bytes = added.entries[j].bytes
                            /\ es[j].value = added.entries[j].value
                            /\ es[j].next = IF j = e THEN n ELSE added.entries[j].next
      BY <3>5, <3>6
    <3> HIDE DEF es
    <3>8. /\ r.table = h.table /\ r.entries = es /\ r.entriesCapacity = added.entriesCapacity
          /\ r.keysLength = added.keysLength /\ r.keysCapacity = added.keysCapacity
      BY <2>2, <2>3, <3>5 DEF Hash
    <3>9. r \in Hash
      BY <2>3, <3>5, <3>6 DEF Hash
    <3>10. /\ 1 .. n = Entries(h) \cup {n} /\ Len(r.entries) = n
           /\ \A j \in 1 .. n : KeyAt(r, j) = KeyAt(added, j) /\ r.entries[j].bytes = added.entries[j].bytes
                             /\ r.entries[j].value = added.entries[j].value
                             /\ NextAt(r, j) = IF j = e THEN n ELSE NextAt(added, j)
      <4>1. 1 .. n = Entries(added)
        BY <3>4 DEF Entries
      <4> QED
        BY <2>3, <3>6, <3>7, <3>8, <4>1 DEF KeyAt, NextAt
    <3>11. More(h, r, key, bytes, value)
      <4>1. /\ Len(r.entries) = Len(h.entries) + 1 /\ n \in 1 .. n
            /\ KeyAt(added, n) = key /\ added.entries[n].bytes = bytes
            /\ added.entries[n].value = value /\ NextAt(added, n) = NoEntry
        BY <2>2, <2>3, <3>10 DEF More, n
      <4>2. \A i \in Entries(h) : /\ i \in 1 .. n /\ KeyAt(added, i) = KeyAt(h, i)
                                  /\ added.entries[i].bytes = h.entries[i].bytes
                                  /\ added.entries[i].value = h.entries[i].value
        BY <2>2, <3>10 DEF KeyAt
      <4>3. KeyAt(r, n) = key /\ r.entries[n].bytes = bytes /\ r.entries[n].value = value /\ NextAt(r, n) = NoEntry
        BY <3>4, <3>10, <4>1
      <4>4. \A i \in Entries(h) : /\ KeyAt(r, i) = KeyAt(h, i) /\ r.entries[i].bytes = h.entries[i].bytes
                                  /\ r.entries[i].value = h.entries[i].value
        BY <3>10, <4>2
      <4> QED
        BY <3>8, <3>9, <3>10, <4>1, <4>3, <4>4 DEF More
    <3>12. \A i \in Entries(h) : NextAt(r, i) = IF i = e THEN Len(r.entries) ELSE NextAt(h, i)
      BY <2>2, <3>10 DEF NextAt
    <3>13. Chained(r)
      BY <1>0, <3>3, <3>8, <3>11, <3>12, LastChained DEF b
    <3>14. Fits(r)
      BY <2>2, <3>4, <3>8, <3>10 DEF Fits
    <3> QED
      BY <1>0, <1>2, <3>9, <3>11, <3>13, <3>14, MoreOneEach DEF HashOK
  <2> QED
    BY <2>4, <2>5
<1> QED
  BY <1>1, <1>2

-----------------------------------------------------------------------------
(* Fetching what was inserted.                                             *)

LEMMA FetchFacts ==
  ASSUME Hashing, NEW h, HashOK(h), NEW key \in Key
  PROVE  /\ \A i \in Entries(h) : KeyAt(h, i) = key => Fetch(h, key) = h.entries[i].value
         /\ (\A i \in Entries(h) : KeyAt(h, i) # key) => Fetch(h, key) = Missing
         /\ Fetch(h, key) \in Nat
<1>0. h \in Hash /\ Chained(h) /\ OneEach(h)
  BY DEF HashOK
<1>1. /\ \A i \in Entries(h) : KeyAt(h, i) = key => Find(h, key) = i
      /\ (\A i \in Entries(h) : KeyAt(h, i) # key) => Find(h, key) = NoEntry
  BY <1>0, FindFacts
<1>2. \A i \in Entries(h) : i # NoEntry /\ h.entries[i].value \in Nat
  BY <1>0, EntryFacts DEF Entries, NoEntry
<1>3. Missing \in Nat
  BY DEF Missing
<1> QED
  BY <1>1, <1>2, <1>3 DEF Fetch

LEMMA FetchMore ==
  ASSUME Hashing, NEW h, HashOK(h), NEW key \in Key, NEW bytes \in Nat, NEW value \in Nat,
         NEW r, HashOK(r), More(h, r, key, bytes, value), \A i \in Entries(h) : KeyAt(h, i) # key
  PROVE  \A k \in Key : Fetch(r, k) = IF k = key THEN value ELSE Fetch(h, k)
<1>1. Entries(r) = Entries(h) \cup {Len(r.entries)}
  BY MoreFacts DEF HashOK
<1>2. SUFFICES ASSUME NEW k \in Key PROVE Fetch(r, k) = IF k = key THEN value ELSE Fetch(h, k)
  OBVIOUS
<1>3. CASE k = key
  <2>1. KeyAt(r, Len(r.entries)) = k /\ r.entries[Len(r.entries)].value = value
    BY <1>3 DEF More
  <2> QED
    BY <1>1, <1>3, <2>1, FetchFacts
<1>4. ASSUME NEW i \in Entries(h), KeyAt(h, i) = k, k # key
      PROVE  Fetch(r, k) = Fetch(h, k)
  <2>1. KeyAt(r, i) = k /\ r.entries[i].value = h.entries[i].value /\ i \in Entries(r)
    BY <1>1, <1>4 DEF More
  <2> QED
    BY <1>4, <2>1, FetchFacts
<1>5. ASSUME \A i \in Entries(h) : KeyAt(h, i) # k, k # key
      PROVE  Fetch(r, k) = Fetch(h, k)
  <2>1. \A i \in Entries(r) : KeyAt(r, i) # k
    BY <1>1, <1>5 DEF More
  <2> QED
    BY <1>5, <2>1, FetchFacts
<1> QED
  BY <1>3, <1>4, <1>5

LEMMA FetchChanged ==
  ASSUME Hashing, NEW h, HashOK(h), NEW i \in Entries(h), NEW value \in Nat,
         NEW r, HashOK(r), Changed(h, r, i, value)
  PROVE  \A k \in Key : Fetch(r, k) = IF k = KeyAt(h, i) THEN value ELSE Fetch(h, k)
<1>1. Entries(r) = Entries(h)
  BY DEF Changed, Entries
<1>2. SUFFICES ASSUME NEW k \in Key PROVE Fetch(r, k) = IF k = KeyAt(h, i) THEN value ELSE Fetch(h, k)
  OBVIOUS
<1>3. ASSUME NEW j \in Entries(h), KeyAt(h, j) = k
      PROVE  Fetch(r, k) = IF k = KeyAt(h, i) THEN value ELSE Fetch(h, k)
  <2>1. KeyAt(r, j) = k /\ r.entries[j].value = IF j = i THEN value ELSE h.entries[j].value
    BY <1>3 DEF Changed
  <2>2. Fetch(r, k) = r.entries[j].value /\ Fetch(h, k) = h.entries[j].value
    BY <1>1, <1>3, <2>1, FetchFacts
  <2>3. j = i <=> k = KeyAt(h, i)
    BY <1>3 DEF HashOK, OneEach
  <2> QED
    BY <2>1, <2>2, <2>3
<1>4. ASSUME \A j \in Entries(h) : KeyAt(h, j) # k
      PROVE  Fetch(r, k) = Fetch(h, k) /\ k # KeyAt(h, i)
  <2>1. \A j \in Entries(r) : KeyAt(r, j) # k
    BY <1>1, <1>4 DEF Changed
  <2> QED
    BY <1>4, <2>1, FetchFacts
<1> QED
  BY <1>3, <1>4

LEMMA NewHashFacts ==
  ASSUME Hashing, NEW c \in Nat \ {0}
  PROVE  HashOK(NewHash(c)) /\ Entries(NewHash(c)) = {} /\ \A k \in Key : Fetch(NewHash(c), k) = Missing
<1> DEFINE h == NewHash(c)
<1>1. /\ h.entries = <<>> /\ h.table = [i \in 0 .. c - 1 |-> 0] /\ h.entriesCapacity = 1
      /\ h.keysLength = 0 /\ h.keysCapacity = 1
  BY DEF NewHash, NoEntry
<1>2. h.entries \in Seq(Entry) /\ h.table \in Tables
  <2>1. h.table \in [0 .. c - 1 -> Nat]
    BY <1>1
  <2> QED
    BY <1>1, <2>1 DEF Tables
<1>3. h \in Hash
  BY <1>1, <1>2 DEF NewHash, Hash, NoEntry
<1> HIDE DEF h
<1>4. Entries(h) = {} /\ Len(h.entries) = 0
  BY <1>1 DEF Entries
<1>5. Chained(h) /\ OneEach(h)
  BY <1>1, <1>4 DEF Chained, OneEach, NoEntry
<1>6. Fits(h)
  BY <1>1, <1>4 DEF Fits
<1>7. HashOK(h)
  BY <1>3, <1>5, <1>6 DEF HashOK
<1> QED
  BY <1>4, <1>7, FetchFacts DEF h

(* A function defined by what follows what exists.                         *)
IsRun(g, n, T, a, step) ==
  g \in [0 .. n -> T] /\ g[0] = a /\ \A i \in 1 .. n : g[i] = step[<<g[i - 1], i>>]

LEMMA RunExists ==
  ASSUME NEW n \in Nat, NEW T, NEW a \in T, NEW step \in [T \X (1 .. n) -> T]
  PROVE  \E g : IsRun(g, n, T, a, step)
<1> DEFINE Bad == {m \in 0 .. n : ~ \E g : IsRun(g, m, T, a, step)}
<1>1. ASSUME Bad # {} PROVE FALSE
  <2>1. Bad \subseteq Nat
    OBVIOUS
  <2> HIDE DEF Bad
  <2>2. PICK m \in Bad : \A k \in Bad : m <= k
    BY <1>1, <2>1, Least
  <2>3. m \in 0 .. n /\ m \in Nat /\ ~ \E g : IsRun(g, m, T, a, step)
    BY <2>2 DEF Bad
  <2>4. CASE m = 0
    <3>1. [i \in 0 .. 0 |-> a] \in [0 .. 0 -> T] /\ [i \in 0 .. 0 |-> a][0] = a
      OBVIOUS
    <3>2. IsRun([i \in 0 .. 0 |-> a], m, T, a, step)
      BY <2>4, <3>1 DEF IsRun
    <3> QED
      BY <2>3, <3>2
  <2>5. CASE m # 0
    <3>1. m - 1 \in 0 .. n /\ m - 1 \notin Bad /\ m \in 1 .. n
      BY <2>2, <2>3, <2>5
    <3>2. PICK g : IsRun(g, m - 1, T, a, step)
      BY <3>1 DEF Bad
    <3> DEFINE x == step[<<g[m - 1], m>>]
               f == [i \in 0 .. m |-> IF i = m THEN x ELSE g[i]]
    <3>3. g \in [0 .. m - 1 -> T] /\ g[0] = a /\ \A i \in 1 .. m - 1 : g[i] = step[<<g[i - 1], i>>]
      BY <3>2 DEF IsRun
    <3>4. x \in T
      BY <3>1, <3>3
    <3> HIDE DEF x
    <3>5. f \in [0 .. m -> T] /\ f[0] = a
      BY <2>3, <2>5, <3>3, <3>4
    <3>6. \A i \in 1 .. m : f[i] = step[<<f[i - 1], i>>]
      <4>1. SUFFICES ASSUME NEW i \in 1 .. m PROVE f[i] = step[<<f[i - 1], i>>]
        OBVIOUS
      <4>2. f[i - 1] = g[i - 1]
        BY <2>3
      <4>3. CASE i = m
        <5>1. f[i] = x
          BY <4>3
        <5> QED
          BY <4>2, <4>3, <5>1 DEF x
      <4>4. CASE i # m
        <5>1. f[i] = g[i] /\ i \in 1 .. m - 1
          BY <2>3, <4>4
        <5> QED
          BY <3>3, <4>2, <5>1
      <4> QED
        BY <4>3, <4>4
    <3> HIDE DEF f
    <3> QED
      BY <2>3, <3>5, <3>6 DEF IsRun
  <2> QED
    BY <2>4, <2>5
<1>2. n \notin Bad /\ n \in 0 .. n
  BY <1>1
<1> QED
  BY <1>2

-----------------------------------------------------------------------------
(* Growing.                                                                *)

LEMMA AgainOK ==
  ASSUME Hashing, NEW h, HashOK(h), NEW e \in Entry
  PROVE  HashOK(Again(h, e))
<1>1. e.key \in Key /\ e.bytes \in Nat /\ e.value \in Nat
  BY DEF Entry
<1> QED
  BY <1>1, InsertNoRehashFacts DEF Again

LEMMA ReinsertedFacts ==
  ASSUME Hashing, NEW h, HashOK(h), NEW c \in Nat \ {0}
  PROVE  /\ Reinserted(h, c)[0] = NewHash(c)
         /\ \A n \in 0 .. Len(h.entries) : HashOK(Reinserted(h, c)[n])
         /\ \A n \in Entries(h) : Reinserted(h, c)[n] = Again(Reinserted(h, c)[n - 1], h.entries[n])
<1> DEFINE n == Len(h.entries)
           T == {x \in Hash : HashOK(x)}
           step == [p \in T \X (1 .. n) |-> Again(p[1], h.entries[p[2]])]
           IsFirst(g) == g = [i \in 0 .. n |-> IF i = 0 THEN NewHash(c) ELSE Again(g[i - 1], h.entries[i])]
           a == NewHash(c)
<1>0. n \in Nat /\ h \in Hash /\ \A i \in 1 .. n : h.entries[i] \in Entry
  BY EntryFacts DEF HashOK, Entries
<1>1. \A x \in T : \A i \in 1 .. n : Again(x, h.entries[i]) \in T /\ step[<<x, i>>] = Again(x, h.entries[i])
  <2>1. \A x \in T : \A i \in 1 .. n : HashOK(Again(x, h.entries[i]))
    BY <1>0, AgainOK
  <2>2. \A x \in T : \A i \in 1 .. n : Again(x, h.entries[i]) \in T
    BY <2>1 DEF HashOK
  <2> HIDE DEF T
  <2>3. \A x \in T : \A i \in 1 .. n : step[<<x, i>>] = Again(x, h.entries[i])
    OBVIOUS
  <2> QED
    BY <2>2, <2>3
<1>2. a \in T
  BY NewHashFacts DEF HashOK
<1>3. step \in [T \X (1 .. n) -> T]
  <2>1. \A p \in T \X (1 .. n) : Again(p[1], h.entries[p[2]]) \in T
    <3> HIDE DEF T, step
    <3> QED
      BY <1>1
  <2> HIDE DEF T
  <2> QED
    BY <2>1
<1>4. PICK g : IsRun(g, n, T, a, step)
  <2> HIDE DEF T, step, n, a
  <2> QED
    BY <1>0, <1>2, <1>3, RunExists
<1> HIDE DEF T, step, a
<1>5. g \in [0 .. n -> T] /\ g[0] = a /\ \A i \in 1 .. n : g[i] = Again(g[i - 1], h.entries[i])
  <2>1. g \in [0 .. n -> T] /\ g[0] = a /\ \A i \in 1 .. n : g[i] = step[<<g[i - 1], i>>]
    BY <1>4 DEF IsRun
  <2>2. \A i \in 1 .. n : i - 1 \in 0 .. n
    BY <1>0
  <2> QED
    BY <1>1, <2>1, <2>2
<1>6. IsFirst(g)
  <2>1. \A i \in 0 .. n : g[i] = IF i = 0 THEN NewHash(c) ELSE Again(g[i - 1], h.entries[i])
    <3>1. \A i \in 0 .. n : i = 0 \/ i \in 1 .. n
      BY <1>0
    <3> QED
      BY <1>5, <3>1 DEF a
  <2>2. g = [i \in 0 .. n |-> g[i]]
    BY <1>5
  <2> QED
    BY <2>1, <2>2
<1> DEFINE w == Reinserted(h, c)
<1>7. IsFirst(w)
  BY <1>6 DEF Reinserted
<1>8. \A i \in 0 .. n : w[i] = IF i = 0 THEN NewHash(c) ELSE Again(w[i - 1], h.entries[i])
  <2> HIDE DEF w
  <2> QED
    BY <1>7
<1> HIDE DEF w
<1>9. \A i \in 1 .. n : i \in 0 .. n /\ i # 0 /\ i - 1 \in 0 .. n
  BY <1>0
<1>10. w[0] = NewHash(c) /\ \A i \in 1 .. n : w[i] = Again(w[i - 1], h.entries[i])
  BY <1>0, <1>8, <1>9
<1>11. \A i \in 0 .. n : w[i] = g[i]
  <2> DEFINE Bad == {i \in 0 .. n : w[i] # g[i]}
  <2>1. ASSUME Bad # {} PROVE FALSE
    <3>1. Bad \subseteq Nat
      OBVIOUS
    <3> HIDE DEF Bad
    <3>2. PICK m \in Bad : \A k \in Bad : m <= k
      BY <2>1, <3>1, Least
    <3>3. m \in 0 .. n /\ w[m] # g[m]
      BY <3>2 DEF Bad
    <3>4. m # 0
      BY <1>5, <1>10, <3>3 DEF a
    <3>5. m \in 1 .. n /\ m - 1 \in 0 .. n /\ ~(m <= m - 1)
      BY <1>0, <3>3, <3>4
    <3>6. m - 1 \notin Bad
      BY <3>2, <3>5
    <3>7. w[m - 1] = g[m - 1]
      BY <3>5, <3>6 DEF Bad
    <3> QED
      BY <1>5, <1>10, <3>3, <3>5, <3>7
  <2> QED
    BY <2>1
<1>12. \A i \in 0 .. n : HashOK(w[i])
  <2>1. \A i \in 0 .. n : g[i] \in T
    BY <1>5
  <2> QED
    BY <1>11, <2>1 DEF T
<1> QED
  BY <1>10, <1>12 DEF w, Entries

(* The first n entries of h.                                               *)
Prefix(h, r, n) ==
  /\ Len(r.entries) = n
  /\ \A i \in 1 .. n : KeyAt(r, i) = KeyAt(h, i) /\ r.entries[i].value = h.entries[i].value

LEMMA ReinsertedPrefix ==
  ASSUME Hashing, NEW h, HashOK(h), NEW c \in Nat \ {0}
  PROVE  \A n \in 0 .. Len(h.entries) : Prefix(h, Reinserted(h, c)[n], n)
<1> DEFINE w == Reinserted(h, c)
           len == Len(h.entries)
           Bad == {n \in 0 .. len : ~Prefix(h, w[n], n)}
<1>0. len \in Nat /\ h \in Hash /\ Entries(h) = 1 .. len
  BY EntryFacts DEF HashOK, Entries
<1>1. /\ w[0] = NewHash(c) /\ \A n \in 0 .. len : HashOK(w[n])
      /\ \A n \in Entries(h) : w[n] = Again(w[n - 1], h.entries[n])
  BY ReinsertedFacts
<1> HIDE DEF w
<1>2. ASSUME Bad # {} PROVE FALSE
  <2>1. Bad \subseteq Nat
    OBVIOUS
  <2> HIDE DEF Bad
  <2>2. PICK m \in Bad : \A k \in Bad : m <= k
    BY <1>2, <2>1, Least
  <2>3. m \in 0 .. len /\ m \in Nat /\ ~Prefix(h, w[m], m)
    BY <1>0, <2>2 DEF Bad
  <2>4. CASE m = 0
    <3>1. Len(NewHash(c).entries) = 0
      BY DEF NewHash
    <3> QED
      BY <1>1, <2>3, <2>4, <3>1 DEF Prefix
  <2>5. CASE m # 0
    <3> DEFINE x == w[m - 1]
               e == h.entries[m]
    <3>1. m \in Entries(h) /\ m - 1 \in 0 .. len /\ ~(m <= m - 1)
      BY <1>0, <2>3, <2>5
    <3>2. m - 1 \notin Bad
      BY <2>2, <3>1
    <3>3. Prefix(h, x, m - 1)
      BY <3>1, <3>2 DEF Bad
    <3>4. HashOK(x) /\ w[m] = Again(x, e)
      BY <1>1, <3>1
    <3> HIDE DEF x
    <3>5. e \in Entry /\ KeyAt(h, m) = e.key /\ e.key \in Key /\ e.bytes \in Nat /\ e.value \in Nat
      BY <1>0, <3>1, EntryFacts DEF Entry, KeyAt
    <3> HIDE DEF e
    <3>6. Entries(x) = 1 .. m - 1 /\ Len(x.entries) = m - 1
      BY <3>3 DEF Prefix, Entries
    <3>7. \A i \in Entries(x) : KeyAt(x, i) # e.key
      <4>1. SUFFICES ASSUME NEW i \in Entries(x), KeyAt(x, i) = e.key PROVE FALSE
        OBVIOUS
      <4>2. i \in Entries(h) /\ i # m
        BY <1>0, <2>3, <3>6
      <4>3. KeyAt(h, i) = KeyAt(h, m)
        BY <3>3, <3>5, <3>6, <4>1 DEF Prefix
      <4> QED
        BY <3>1, <4>2, <4>3 DEF HashOK, OneEach
    <3>8. More(x, w[m], e.key, e.bytes, e.value)
      BY <3>4, <3>5, <3>7, InsertNoRehashFacts DEF Again
    <3>9. Len(w[m].entries) = m /\ KeyAt(w[m], m) = e.key /\ w[m].entries[m].value = e.value
      <4>1. Len(w[m].entries) = m
        BY <2>3, <3>6, <3>8 DEF More
      <4> QED
        BY <3>8, <4>1 DEF More
    <3>10. \A i \in 1 .. m - 1 : KeyAt(w[m], i) = KeyAt(h, i) /\ w[m].entries[i].value = h.entries[i].value
      BY <3>3, <3>6, <3>8 DEF More, Prefix
    <3>11. \A i \in 1 .. m : i \in 1 .. m - 1 \/ i = m
      BY <2>3
    <3>12. Prefix(h, w[m], m)
      BY <3>5, <3>9, <3>10, <3>11 DEF Prefix, e
    <3> QED
      BY <2>3, <3>12
  <2> QED
    BY <2>4, <2>5
<1> QED
  BY <1>2 DEF w

LEMMA RehashFacts ==
  ASSUME Hashing, NEW h, HashOK(h), NEW c \in Nat \ {0}
  PROVE  HashOK(Rehash(h, c)) /\ \A k \in Key : Fetch(Rehash(h, c), k) = Fetch(h, k)
<1> DEFINE r == Rehash(h, c)
           n == Len(h.entries)
<1>1. n \in Nat /\ n \in 0 .. n
  BY EntryFacts DEF HashOK
<1>2. HashOK(r) /\ Prefix(h, r, n)
  BY <1>1, ReinsertedFacts, ReinsertedPrefix DEF Rehash
<1> HIDE DEF r
<1>3. /\ Entries(r) = Entries(h)
      /\ \A i \in Entries(h) : KeyAt(r, i) = KeyAt(h, i) /\ r.entries[i].value = h.entries[i].value
  BY <1>2 DEF Prefix, Entries
<1>4. ASSUME NEW k \in Key PROVE Fetch(r, k) = Fetch(h, k)
  <2>1. CASE \A i \in Entries(h) : KeyAt(h, i) # k
    BY <1>2, <1>3, <2>1, FetchFacts
  <2>2. ASSUME NEW i \in Entries(h), KeyAt(h, i) = k PROVE Fetch(r, k) = Fetch(h, k)
    BY <1>2, <1>3, <2>2, FetchFacts
  <2> QED
    BY <2>1, <2>2
<1> QED
  BY <1>2, <1>4 DEF r

(***************************************************************************)
(* The symbol table is a map: an insertion, growing included, gives its    *)
(* key its value and no other key another one (spvm_hash.c), and its       *)
(* memory has room for entries and keys.                                   *)
(***************************************************************************)
THEOREM TableIsMap ==
  ASSUME Hashing, NEW h, HashOK(h), NEW key \in Key, NEW bytes \in Nat, NEW value \in Nat
  PROVE  /\ HashOK(Insert(h, key, bytes, value))
         /\ \A k \in Key : Fetch(Insert(h, key, bytes, value), k) = IF k = key THEN value ELSE Fetch(h, k)
<1> DEFINE c == 2 * Capacity(h) + 1
           room == IF 4 * Len(h.entries) > 3 * Capacity(h) THEN Rehash(h, c) ELSE h
           r == InsertNoRehash(room, key, bytes, value)
<1>1. c \in Nat \ {0}
  <2>1. Capacity(h) \in Nat
    BY BucketFacts DEF HashOK
  <2> QED
    BY <2>1
<1>2. HashOK(room) /\ \A k \in Key : Fetch(room, k) = Fetch(h, k)
  <2>1. HashOK(Rehash(h, c)) /\ \A k \in Key : Fetch(Rehash(h, c), k) = Fetch(h, k)
    BY <1>1, RehashFacts
  <2> QED
    BY <2>1
<1>3. Insert(h, key, bytes, value) = r
  BY DEF Insert
<1> HIDE DEF room
<1>4. /\ HashOK(r)
      /\ (\A i \in Entries(room) : KeyAt(room, i) # key) => More(room, r, key, bytes, value)
      /\ \A i \in Entries(room) : KeyAt(room, i) = key => Changed(room, r, i, value)
  BY <1>2, InsertNoRehashFacts
<1> HIDE DEF r
<1>5. \A k \in Key : Fetch(r, k) = IF k = key THEN value ELSE Fetch(room, k)
  <2>1. CASE \A i \in Entries(room) : KeyAt(room, i) # key
    BY <1>2, <1>4, <2>1, FetchMore
  <2>2. ASSUME NEW i \in Entries(room), KeyAt(room, i) = key
        PROVE  \A k \in Key : Fetch(r, k) = IF k = key THEN value ELSE Fetch(room, k)
    BY <1>2, <1>4, <2>2, FetchChanged
  <2> QED
    BY <2>1, <2>2
<1> QED
  BY <1>2, <1>3, <1>4, <1>5

=============================================================================
